-------------------------------- MODULE Store --------------------------------
(***************************************************************************)
(* The keyspace as commands and housekeeping drive it: one action per      *)
(* command shape, each made of the Store methods (module Keyspace) its     *)
(* handler calls, in the handler's order.  The server is single-threaded,  *)
(* so a command is one step; the clock, though, moves on its own, also     *)
(* between two lookups of one command.  A handler whose outcome depends on *)
(* that takes its last reading t2 as a parameter.  (A handler that looks a *)
(* key up twice and does on the second lookup what it would have done had  *)
(* it started there takes one: the clock may as well have moved before.)   *)
(***************************************************************************)
EXTENDS Keyspace

VARIABLES
  store,    \* the keyspace
  now,      \* SystemTime::now()
  sweeping, \* the keys the running sweep has still to visit
  task,     \* "idle", or the half of the sweep that is running
  running   \* FALSE once a panic has taken the process down

vars == <<store, now, sweeping, task, running>>

\* What a client can see of a store at time t.
Content(s, t) ==
  [k \in LiveKeys(s, t) |->
     [value |-> s.map[k].value, expireAt |-> s.map[k].expireAt]]

\* SET's KEEPTTL; Never is its default, which clears the expiry.
Keep == -2

Init ==
  /\ store = EmptyStore
  /\ now = 0
  /\ sweeping = {}
  /\ task = "idle"
  /\ running = TRUE

\* A command runs to its end before anything else does.
Command(s) ==
  /\ task = "idle"
  /\ UNCHANGED <<now, sweeping, task, running>>
  /\ store' = s

\* The same for a command whose last clock reading is t2, and which panics
\* if `ok` does not hold.
CommandUntil(t2, ok, s) ==
  /\ task = "idle"
  /\ now' = t2
  /\ UNCHANGED <<sweeping, task>>
  /\ running' = ok
  /\ store' = IF ok THEN s ELSE store

(***************************************************************************)
(* Commands on any type.                                                   *)
(***************************************************************************)

\* GET, EXISTS, TYPE, TTL and every other command that only looks up a key,
\* and every command that fails its type check.
Read(k) == Command(Find(store, k, now))

DelKey(k) == Command(Del(store, k, now))

Expire(k, at) == Command(SetExpireAt(store, k, at, now))

Persist(k) ==
  LET f == Find(store, k, now)
  IN  Command(IF Has(f, k) /\ f.map[k].expireAt # Never
              THEN SetExpireAt(f, k, Never, now)
              ELSE f)

\* RENAME, and RENAMENX, which first looks at the new name.
RenameKey(k, new, nx) ==
  LET f == Find(store, k, now)
      g == IF nx /\ Has(f, k) /\ k # new THEN Find(f, new, now) ELSE f
  IN  Command(IF nx /\ k # new /\ Has(g, new) THEN g ELSE Rename(g, k, new, now))

\* Without REPLACE the destination is looked up after the source, and that
\* lookup reads the clock again: it may drop the very key found a moment ago.
Copy(k, dest, replace, t2) ==
  LET f == Find(store, k, now)
      g == IF replace \/ ~Has(f, k) THEN f ELSE Find(f, dest, t2)
      free == replace \/ ~Has(g, dest)
      e == g.map[k]
  IN  CommandUntil(t2, Has(f, k) /\ free => Has(g, k),
                   IF Has(f, k) /\ free
                   THEN MarkDirty(InsertEntry(g, dest, e.value, e.expireAt))
                   ELSE g)

FlushAll == Command(Flush(store))

(***************************************************************************)
(* Strings.                                                                *)
(***************************************************************************)

\* SET key n [NX|XX] [KEEPTTL|EX|PX|EXAT|PXAT], and SETNX, SETEX, PSETEX.  NX
\* and XX go by the first lookup; KEEPTTL keeps what a second one finds.
Set(k, n, cond, ex, t2) ==
  LET f == Find(store, k, now)
      g == IF ex = Keep THEN UpdateString(f, k, n, t2) ELSE Install(f, k, String(n))
      refused == IF Has(f, k) THEN cond = "nx" ELSE cond = "xx"
  IN  CommandUntil(t2, TRUE, IF refused THEN f
                             ELSE IF ex \in Time THEN SetExpireAt(g, k, ex, t2) ELSE g)

\* MSET and MSETNX of two pairs.
MSet(k1, k2, n, nx) ==
  LET f == IF nx THEN Find(Find(store, k1, now), k2, now) ELSE store
  IN  Command(IF nx /\ (Has(f, k1) \/ Has(f, k2)) THEN f
              ELSE Install(Install(f, k1, String(n)), k2, String(n)))

\* INCR and its family, APPEND, SETRANGE: the value found is changed by m, and
\* a second lookup takes the result.
Update(k, m, t2) ==
  LET f == Find(store, k, now)
      n == (IF Has(f, k) THEN f.map[k].value.size ELSE 0) + m
  IN  /\ TypeAllows(f, k, "string") => n \in 0 .. MaxLen
      /\ CommandUntil(t2, TRUE,
                      IF TypeAllows(f, k, "string") THEN UpdateString(f, k, n, t2) ELSE f)

GetDel(k) ==
  LET f == Find(store, k, now)
  IN  Command(IF TypeAllows(f, k, "string") THEN Del(f, k, now) ELSE f)

GetEx(k, ex) ==
  LET f == Find(store, k, now)
  IN  Command(IF Has(f, k) /\ TypeAllows(f, k, "string") /\ ex # Keep
              THEN SetExpireAt(f, k, ex, now)
              ELSE f)

(***************************************************************************)
(* Collections.                                                            *)
(***************************************************************************)

\* LPUSH, RPUSH, HSET, HMSET, HINCRBY, HINCRBYFLOAT, SADD, ZADD: m elements
\* are new to the collection the second lookup finds or creates.  Each of
\* them brings at least one element.
Add(k, type, m, t2) ==
  LET f == Find(store, k, now)
      g == GetOrCreate(f, k, type, t2)
      n == g.map[k].value.size + m
  IN  /\ TypeAllows(f, k, type) => n \in 1 .. MaxLen
      /\ CommandUntil(t2, TRUE, IF TypeAllows(f, k, type) THEN SetSize(g, k, n) ELSE f)

\* LPUSHX, RPUSHX: the first lookup finds the list, the second finds it or
\* creates it.  LINSERT and LSET, which look it up once, are the case t2 = now.
AddX(k, type, m, t2) ==
  LET f == Find(store, k, now)
  IN  IF Has(f, k) THEN Add(k, type, m, t2) ELSE CommandUntil(t2, TRUE, f)

\* HSETNX: creates the hash before it knows whether it will write to it.
HSetNX(k, type, present) ==
  LET f == Find(store, k, now)
      g == GetOrCreate(f, k, type, now)
      n == g.map[k].value.size
  IN  /\ TypeAllows(f, k, type) => IF present THEN n > 0 ELSE n < MaxLen
      /\ Command(IF ~TypeAllows(f, k, type) THEN f
                 ELSE IF present THEN DeleteIfEmpty(g, k, now)
                 ELSE SetSize(g, k, n + 1))

\* A slip: no delete_if_empty at the end.
RemoveKeepingEmpty(k, type, m) ==
  LET f == Find(store, k, now)
      n == f.map[k].value.size
  IN  /\ Has(f, k) /\ TypeAllows(f, k, type) => m <= n
      /\ Command(IF TypeAllows(f, k, type) /\ Has(f, k) THEN SetSize(f, k, n - m) ELSE f)

\* LPOP, RPOP, LREM, LTRIM, HDEL, SREM, SPOP, ZREM, ZPOPMIN, ZPOPMAX,
\* ZREMRANGEBY*: m elements leave.
Remove(k, type, m) ==
  LET f == Find(store, k, now)
      n == f.map[k].value.size
  IN  /\ Has(f, k) /\ TypeAllows(f, k, type) => m <= n
      /\ Command(IF ~TypeAllows(f, k, type) THEN f
                 ELSE IF Has(f, k) THEN DeleteIfEmpty(SetSize(f, k, n - m), k, now)
                 ELSE f)

\* LMOVE, RPOPLPUSH and SMOVE.  The element leaves the source before the
\* destination is looked up; m is 0 when a set already holds it.
Move(k, dest, type, m, t2) ==
  LET f == Find(Find(store, k, now), dest, now)
      fits == TypeAllows(f, k, type) /\ TypeAllows(f, dest, type) /\ Has(f, k)
      g == GetOrCreate(SetSize(f, k, f.map[k].value.size - 1), dest, type, t2)
      n == g.map[dest].value.size + m
  IN  /\ fits => /\ n <= MaxLen
                 /\ m = 0 => type # "list" /\ dest # k /\ n > 0
      /\ CommandUntil(t2, TRUE,
                      IF fits THEN DeleteIfEmpty(SetSize(g, dest, n), k, t2) ELSE f)

\* SINTERSTORE, SUNIONSTORE, SDIFFSTORE over two sources; n is the size of
\* the result.  An empty result deletes the destination.
StoreSet(dest, k1, k2, n) ==
  LET f == Find(Find(Find(store, dest, now), k1, now), k2, now)
      fits == \A k \in {dest, k1, k2} : TypeAllows(f, k, "set")
      Card(k) == IF Has(f, k) THEN f.map[k].value.size ELSE 0
      g == Del(f, dest, now)
  IN  /\ n <= Card(k1) + Card(k2)
      /\ Command(IF ~fits THEN f
                 ELSE IF n = 0 THEN g
                 ELSE SetSize(GetOrCreate(g, dest, "set", now), dest, n))

\* ZINCRBY.  A score that came out infinite is undone by removing the
\* member, through a second lookup that expects the set to be there still.
ZIncrBy(k, present, finite, t2) ==
  LET f == Find(store, k, now)
      g == GetOrCreate(f, k, "zset", now)
      n == g.map[k].value.size + (IF present THEN 0 ELSE 1)
      h == Find(SetSize(g, k, n), k, t2)
  IN  /\ TypeAllows(f, k, "zset") => n \in 1 .. MaxLen
      /\ CommandUntil(t2, TypeAllows(f, k, "zset") /\ ~finite => Has(h, k),
                      IF ~TypeAllows(f, k, "zset") THEN f
                      ELSE IF finite THEN SetSize(g, k, n)
                      ELSE DeleteIfEmpty(SetSize(h, k, n - 1), k, t2))

(***************************************************************************)
(* Memory indexes.                                                         *)
(***************************************************************************)
MemCreate(k) ==
  LET f == Find(store, k, now)
  IN  Command(IF Has(f, k) THEN f
              ELSE Install(f, k, [type |-> "memory", size |-> 0]))

\* MEM.ADD and MEM.DEL leave the index with n records; MEM.CONFIG, MEM.SETMETA,
\* MEM.DELMETA and MEM.EXPIRE leave their number alone.  The index is looked
\* up twice, and the second lookup expects what the first one saw.
MemWrite(k, n, t2) ==
  LET f == Find(store, k, now)
      fits == Has(f, k) /\ TypeAllows(f, k, "memory")
      g == Find(f, k, t2)
  IN  CommandUntil(t2, fits => Has(g, k), IF fits THEN SetSize(g, k, n) ELSE f)

(***************************************************************************)
(* The server's own steps.                                                 *)
(***************************************************************************)

\* evict, on a victim the sample offered: only a live key is offered.
Evict(k) ==
  /\ k \in LiveKeys(store, now)
  /\ Command(MarkDirty(RemoveEntry(store, k)))

\* The active sweep collects the keys that are due, drops them one by one
\* in no particular order, and then visits every live memory index.
SweepBegin ==
  /\ task = "idle"
  /\ task' = "keys"
  /\ sweeping' = DueKeys(store, now)
  /\ UNCHANGED <<store, now, running>>

SweepKey(k) ==
  /\ task = "keys"
  /\ k \in sweeping
  /\ store' = MarkDirty(RemoveEntry(store, k))
  /\ sweeping' = sweeping \ {k}
  /\ UNCHANGED <<now, task, running>>

\* A slip: memory_keys without its filter on the type.
SweepMemoriesAnyType ==
  /\ task = "keys"
  /\ sweeping = {}
  /\ task' = "memories"
  /\ sweeping' = LiveKeys(store, now)
  /\ UNCHANGED <<store, now, running>>

SweepMemories ==
  /\ task = "keys"
  /\ sweeping = {}
  /\ task' = "memories"
  /\ sweeping' = {k \in LiveKeys(store, now) : store.map[k].value.type = "memory"}
  /\ UNCHANGED <<store, now, running>>

\* The records whose own deadline has passed leave the index: n remain.  The
\* index is looked up again and may be gone by now.
SweepMemory(k, n) ==
  LET f == Find(store, k, now)
  IN  /\ task = "memories"
      /\ k \in sweeping
      /\ Has(f, k) => n <= f.map[k].value.size
      /\ store' = IF Has(f, k) /\ n < f.map[k].value.size THEN SetSize(f, k, n) ELSE f
      /\ sweeping' = sweeping \ {k}
      /\ UNCHANGED <<now, task, running>>

SweepEnd ==
  /\ task = "memories"
  /\ sweeping = {}
  /\ task' = "idle"
  /\ UNCHANGED <<store, now, sweeping, running>>

\* The end of a save that succeeded: SAVE, autosave, shutdown.
ResetDirty == Command([store EXCEPT !.dirty = FALSE])

\* The clock moves on, also in the middle of a sweep.
Tick ==
  /\ now < MaxTime
  /\ now' = now + 1
  /\ UNCHANGED <<store, sweeping, task, running>>

-----------------------------------------------------------------------------
Sizes == 0 .. MaxLen
Deltas == -MaxLen .. MaxLen
Later == now .. MaxTime

KeyCommand(k) ==
  \/ Read(k)
  \/ DelKey(k)
  \/ \E at \in Time : Expire(k, at)
  \/ Persist(k)
  \/ \E new \in Keys, nx \in BOOLEAN : RenameKey(k, new, nx)
  \/ \E dest \in Keys, replace \in BOOLEAN, t2 \in Later : Copy(k, dest, replace, t2)

StringCommand(k) ==
  \/ \E n \in Sizes, cond \in {"any", "nx", "xx"}, ex \in Time \cup {Never, Keep},
        t2 \in Later : Set(k, n, cond, ex, t2)
  \/ \E k2 \in Keys, n \in Sizes, nx \in BOOLEAN : MSet(k, k2, n, nx)
  \/ \E m \in Deltas, t2 \in Later : Update(k, m, t2)
  \/ GetDel(k)
  \/ \E ex \in Time \cup {Never, Keep} : GetEx(k, ex)

ListCommand(k) ==
  /\ "list" \in Collections
  /\ \/ \E m \in Sizes, t2 \in Later : Add(k, "list", m, t2) \/ AddX(k, "list", m, t2)
     \/ \E m \in Sizes : Remove(k, "list", m)
     \/ \E dest \in Keys, t2 \in Later : Move(k, dest, "list", 1, t2)

HashCommand(k) ==
  /\ "hash" \in Collections
  /\ \/ \E m \in Sizes, t2 \in Later : Add(k, "hash", m, t2)
     \/ \E m \in Sizes : Remove(k, "hash", m)
     \/ \E present \in BOOLEAN : HSetNX(k, "hash", present)

SetCommand(k) ==
  /\ "set" \in Collections
  /\ \/ \E m \in Sizes, t2 \in Later : Add(k, "set", m, t2)
     \/ \E m \in Sizes : Remove(k, "set", m)
     \/ \E dest \in Keys, m \in {0, 1}, t2 \in Later : Move(k, dest, "set", m, t2)
     \/ \E k1, k2 \in Keys, n \in Sizes : StoreSet(k, k1, k2, n)

ZSetCommand(k) ==
  /\ "zset" \in Collections
  /\ \/ \E m \in Sizes, t2 \in Later : Add(k, "zset", m, t2)
     \/ \E m \in Sizes : Remove(k, "zset", m)
     \/ \E present, finite \in BOOLEAN, t2 \in Later : ZIncrBy(k, present, finite, t2)

CollectionCommand(k) == ListCommand(k) \/ HashCommand(k) \/ SetCommand(k) \/ ZSetCommand(k)

MemoryCommand(k) ==
  \/ MemCreate(k)
  \/ \E n \in Sizes, t2 \in Later : MemWrite(k, n, t2)

Housekeeping ==
  \/ SweepBegin
  \/ \E k \in sweeping : SweepKey(k)
  \/ SweepMemories
  \/ \E k \in sweeping, n \in Sizes : SweepMemory(k, n)
  \/ SweepEnd
  \/ \E k \in Keys : Evict(k)
  \/ ResetDirty

Next ==
  /\ running
  /\ \/ \E k \in Keys : \/ KeyCommand(k)
                        \/ StringCommand(k)
                        \/ CollectionCommand(k)
                        \/ MemoryCommand(k)
     \/ FlushAll
     \/ Housekeeping
     \/ Tick

Spec == Init /\ [][Next]_vars

-----------------------------------------------------------------------------
(***************************************************************************)
(* Properties.                                                             *)
(***************************************************************************)

\* The shape of the state: the map's entries and the vectors are well formed,
\* and a sweep only has keys of the map left to visit: none when it is not
\* running, and memory indexes only in its second half.
TypeOK ==
  /\ store = [map |-> store.map, keys |-> store.keys, volatile |-> store.volatile,
              dirty |-> store.dirty]
  /\ DOMAIN store.map \subseteq Keys
  /\ store.map \in [DOMAIN store.map -> Entry]
  /\ store.keys \in Seq(Keys)
  /\ store.volatile \in Seq(Keys)
  /\ store.dirty \in BOOLEAN
  /\ now \in Time
  /\ sweeping \subseteq DOMAIN store.map
  /\ task \in {"idle", "keys", "memories"}
  /\ running \in BOOLEAN
  /\ task = "idle" => sweeping = {}
  /\ task = "memories" => \A k \in sweeping : store.map[k].value.type = "memory"

\* What the unit tests' check_indexes asserts after every operation
\* (src/src/store.rs:945): each vector lists exactly the keys it should, each
\* once, and every entry knows its own place in it.  Eviction and RANDOMKEY
\* index the vectors, and swap_remove moves other keys' places, so one
\* missed repair makes a later removal drop the wrong key.
IndexConsistent == KeyIndexConsistent(store) /\ VolatileIndexConsistent(store)

\* "Empty collections don't exist" (src/src/store.rs:70): between two commands
\* no list, hash, set or sorted set in the map is empty, live or not.
NoEmptyCollection == \A k \in DOMAIN store.map : ~IsEmptyCollection(store.map[k].value)

\* Lookups that the code asserts must succeed do: "find() proved it is live"
\* (src/src/store.rs:517), "type checked" (src/src/commands/memory.rs:357) and "just
\* created" (src/src/commands/zset.rs:90) never panic.
NoPanic == running

Abs == INSTANCE KeyspaceSpec WITH db <- Content(store, now)

\* The store implements the promised keyspace: whatever is expired but still
\* in the map cannot be told from a key that is gone.
ImplementsKeyspace == Abs!Spec

\* What a step may do that is a command on k: the parts of CommandsAsPromised.
\* Commands on any type.
KeyPromises(k) ==
  /\ Read(k) => Abs!Pass(now)
  /\ DelKey(k) => Abs!Forget({k})
  /\ \A at \in Time : Expire(k, at) => Abs!Expire(k, at)
  /\ Persist(k) => Abs!Expire(k, Never)
  /\ \A new \in Keys, nx \in BOOLEAN :
       RenameKey(k, new, nx) => Abs!Rename(k, new, nx)
  /\ \A dest \in Keys, replace \in BOOLEAN, t2 \in Later :
       Copy(k, dest, replace, t2) => Abs!Copy(k, dest, replace, t2)

\* Strings.
StringPromises(k) ==
  /\ \A n \in Sizes, cond \in {"any", "nx", "xx"}, ex \in Time \cup {Never, Keep},
        t2 \in Later :
       Set(k, n, cond, ex, t2) =>
         IF ex = Keep /\ cond # "nx" /\ Abs!Lapses(k, t2)
         THEN Abs!Set(k, n, "any", Never, t2)
         ELSE Abs!Set(k, n, cond, ex, t2)
  /\ \A k2 \in Keys, n \in Sizes, nx \in BOOLEAN :
       MSet(k, k2, n, nx) => Abs!MSet(k, k2, n, nx)
  /\ \A m \in Deltas, t2 \in Later :
       Update(k, m, t2) =>
         IF Abs!Lapses(k, t2) /\ ~Abs!HoldsOther(k, "string")
         THEN Abs!Set(k, Abs!SizeOf(k) + m, "any", Never, t2)
         ELSE Abs!Update(k, m, t2)
  /\ GetDel(k) => Abs!GetDel(k)
  /\ \A ex \in Time \cup {Never, Keep} : GetEx(k, ex) => Abs!GetEx(k, ex)

\* Lists, hashes, sets and sorted sets.
CollectionPromises(k) ==
  /\ \A type \in Collections, m \in Sizes, t2 \in Later :
       /\ Add(k, type, m, t2) => Abs!Add(k, type, m, t2)
       /\ AddX(k, type, m, t2) =>
            IF Abs!Lapses(k, t2)
            THEN Abs!Add(k, type, m, t2)
            ELSE Abs!AddX(k, type, m, t2)
  /\ \A type \in Collections, m \in Sizes :
       Remove(k, type, m) => Abs!Remove(k, type, m, now)
  /\ "hash" \in Collections => \A present \in BOOLEAN :
       HSetNX(k, "hash", present) => Abs!Add(k, "hash", IF present THEN 0 ELSE 1, now)
  /\ \A dest \in Keys, type \in Collections, m \in {0, 1}, t2 \in Later :
       Move(k, dest, type, m, t2) => Abs!Move(k, dest, type, m, t2)
  /\ "set" \in Collections => \A k1, k2 \in Keys, n \in Sizes :
       StoreSet(k, k1, k2, n) => Abs!StoreSet(k, k1, k2, n)
  /\ "zset" \in Collections => \A present, finite \in BOOLEAN, t2 \in Later :
       ZIncrBy(k, present, finite, t2) =>
         IF present /\ ~finite
         THEN Abs!Remove(k, "zset", 1, t2)
         ELSE Abs!ZIncrBy(k, present, finite, t2)

\* Memory indexes, FLUSHALL, and what happens to keys by itself.
OtherPromises(k) ==
  /\ MemCreate(k) => Abs!MemCreate(k)
  /\ \A n \in Sizes, t2 \in Later : MemWrite(k, n, t2) => Abs!MemWrite(k, n, t2)
  /\ SweepKey(k) => Abs!Pass(now)
  /\ Evict(k) => Abs!Forget({k})
  /\ FlushAll => Abs!Forget(DOMAIN Content(store, now))
  /\ Tick => Abs!Pass(now + 1)

\* Command by command: each handler has, on what clients can see, the effect
\* the promised command has, whatever expired before it or between two of its
\* lookups; with these exceptions, in which it does something else, said here:
\*   - a key whose deadline passes between the two lookups is written as if it
\*     had just been created.  SET KEEPTTL and INCR, APPEND, SETRANGE leave a
\*     string without a deadline, for SET XX although there is no key, for
\*     the others with the dead value in it; LPUSHX creates a list;
\*   - ZINCRBY of a member to a score that is not finite takes the member out.
\* A refusal, a lost expiry or a resurrected value anywhere else breaks this.
CommandsAsPromised ==
  [][\A k \in Keys : /\ KeyPromises(k) /\ StringPromises(k)
                     /\ CollectionPromises(k) /\ OtherPromises(k)]_vars

=============================================================================
