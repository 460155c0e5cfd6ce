------------------------------- MODULE Evict -------------------------------
(***************************************************************************)
(* `maxmemory` (src/src/evict.rs), the access records that the policies    *)
(* compare (src/src/store.rs) and the gate that every command passes       *)
(* before it runs (memory_gate in src/src/commands/mod.rs).                *)
(*                                                                         *)
(* Beside the store of Keyspace stand `access`, the access record of each  *)
(* entry, and `clock`, the logical clock they are stamped with; a method   *)
(* of Store takes the three as one record [store, access, clock] and       *)
(* leaves another.  A dispatch is a plain command or an EXEC with its queued *)
(* commands, each of which passes the gate on its own.  What make_room     *)
(* does is independent of the command it runs for, so the command is named *)
(* only when the gate has made up its mind.  One round of make_room is one *)
(* step: sample reads the clock anew in every round.                       *)
(*                                                                         *)
(* The commands are SET, GET, DEL, EXPIRE, RENAME and COPY REPLACE on      *)
(* strings: one for each way a command can reach an access record, and     *)
(* between them with and without the deny-OOM mark.  A command reads the   *)
(* clock once; Store has the commands that read it twice.                  *)
(*                                                                         *)
(* The frequency counter has Bits bits (8 in the code) and starts at       *)
(* LfuInit (5).  `beside` is what the allocator counts besides the values: *)
(* tables, buffers and the runtime.                                        *)
(***************************************************************************)
EXTENDS Keyspace, FiniteSets

CONSTANTS
  Bits,                 \* the width of the frequency counter
  LfuInit,              \* the counter of a new entry
  Samples,              \* maxmemory-samples
  MaxEvictionsPerPass,  \* rounds in one call of make_room
  Configs,              \* the settings CONFIG SET chooses among
  Deadlines,            \* the deadlines commands give to keys
  Sizes,                \* the sizes of the strings commands store
  Besides,              \* what `beside` may be
  MaxBatch,             \* bound on the commands of one dispatch
  MaxClock,             \* bound on the logical clock
  MaxMinute             \* bound on the minutes of the process

Policy ==
  [volatileOnly : {FALSE}, order : {"none", "lru", "lfu", "random"}]
    \cup [volatileOnly : {TRUE}, order : {"lru", "lfu", "random", "ttl"}]

Top == 2 ^ Bits - 1

ASSUME BitsAssumption == Bits \in Nat \ {0} /\ LfuInit \in 1 .. Top
ASSUME SamplesAssumption == Samples \in Nat \ {0} /\ MaxEvictionsPerPass \in Nat
ASSUME ConfigsAssumption == Configs \subseteq [policy : Policy, maxmemory : Nat]
ASSUME EvictInputsAssumption ==
  Deadlines \subseteq Nat /\ Sizes \subseteq 1 .. MaxLen /\ Besides \subseteq Nat
ASSUME EvictBoundsAssumption == MaxBatch \in Nat /\ MaxClock \in Nat /\ MaxMinute \in Nat

VARIABLES
  store,      \* the map and its two indexes
  access,     \* the access record of each entry
  clock,      \* the logical clock
  now,        \* SystemTime::now
  minute,     \* Store::minute: minutes since the process started
  config,     \* maxmemory-policy and maxmemory
  beside,     \* bytes in use besides the values
  pending,    \* commands of the dispatch still to run; 0 between dispatches
  rounds,     \* evictions of this call of make_room so far
  overtaken   \* observer: <<k, v>> when a lookup found v since k was last used

vars == <<store, access, clock, now, minute, config, beside, pending, rounds, overtaken>>

Access == [at : Nat, freq : 0 .. Top, decayedAt : Nat]

-----------------------------------------------------------------------------
(***************************************************************************)
(* Access records.                                                         *)
(***************************************************************************)
NewAccess(at) == [at |-> at, freq |-> LfuInit, decayedAt |-> minute]

\* A slip: no special case for a counter that has nothing left to halve, and
\* a shift by the counter's width or more wraps around.
DecayedFreqWrapped(a) == a.freq \div 2 ^ ((minute - a.decayedAt) % Bits)

\* The counter halves once per idle minute, down to nothing.
DecayedFreq(a) ==
  LET halvings == minute - a.decayedAt
  IN  IF halvings >= Bits THEN 0 ELSE a.freq \div 2 ^ halvings

\* A slip: a counter at its top counts on.
RecordHitUnbounded(a, at, counts) ==
  LET freq == DecayedFreq(a)
      more == freq <= LfuInit \/ counts
  IN  [at |-> at, freq |-> IF more THEN freq + 1 ELSE freq, decayedAt |-> minute]

\* Up to LfuInit a hit is certain to count; beyond, `counts` is the coin.
RecordHit(a, at, counts) ==
  LET freq == DecayedFreq(a)
      more == freq < Top /\ (freq <= LfuInit \/ counts)
  IN  [at |-> at, freq |-> IF more THEN freq + 1 ELSE freq, decayedAt |-> minute]

\* A slip: the clock stands still.
TouchStill(h, k, counts) ==
  [store |-> h.store, clock |-> h.clock,
   access |-> Put(h.access, k, RecordHit(h.access[k], h.clock, counts))]

Touch(h, k, counts) ==
  [store |-> h.store, clock |-> h.clock + 1,
   access |-> Put(h.access, k, RecordHit(h.access[k], h.clock + 1, counts))]

\* The store becomes s: an entry that goes takes its access record with it.
Kept(h, s) ==
  [store |-> s, clock |-> h.clock, access |-> [k \in DOMAIN s.map |-> h.access[k]]]

\* find and find_mut: a key that is found is touched.
Lookup(h, k, counts) ==
  LET f == Kept(h, Find(h.store, k, now))
  IN  IF Has(f.store, k) THEN Touch(f, k, counts) ELSE f

\* insert_entry with a given access record.
InsertWith(h, k, v, at, a) ==
  [store |-> MarkDirty(InsertEntry(h.store, k, v, at)), clock |-> h.clock,
   access |-> Put(h.access, k, a)]

-----------------------------------------------------------------------------
(***************************************************************************)
(* The commands, as what they make of the store.                           *)
(***************************************************************************)
Write(h, k, n) == InsertWith(h, k, String(n), Never, NewAccess(h.clock))

\* EXPIRE, and the last part of SET with a deadline.
ExpireAt(h, k, at, counts) ==
  LET f == Lookup(h, k, counts)
  IN  IF Has(f.store, k) THEN Kept(f, SetExpireAt(f.store, k, at, now)) ELSE f

\* SET looks the key up to see whether it exists, and then installs a fresh
\* entry without advancing the clock.
SetString(h, k, n, at, counts) ==
  LET f == Write(Lookup(h, k, counts), k, n)
  IN  IF at = Never THEN f ELSE ExpireAt(f, k, at, counts)

Delete(h, k, counts) ==
  LET f == Lookup(h, k, counts) IN Kept(f, Del(f.store, k, now))

\* RENAME, which looks the key up twice, moves the entry, COPY clones it,
\* each with the access record.
RenameTo(h, k, new, counts, again) ==
  LET f == Lookup(Lookup(h, k, counts), k, again)
      e == f.store.map[k]
  IN  IF Has(f.store, k) /\ k # new
      THEN InsertWith(Kept(f, RemoveEntry(f.store, k)), new, e.value, e.expireAt, f.access[k])
      ELSE f

CopyTo(h, k, dest, counts) ==
  LET f == Lookup(h, k, counts)
      e == f.store.map[k]
  IN  IF Has(f.store, k) THEN InsertWith(f, dest, e.value, e.expireAt, f.access[k]) ELSE f

-----------------------------------------------------------------------------
(***************************************************************************)
(* The policies.                                                           *)
(***************************************************************************)
\* The bytes of the values, each told by its key and its place.
Bytes(s) ==
  {b \in (DOMAIN s.map) \X (1 .. MaxLen) : b[2] <= s.map[b[1]].value.size}

Total(s) == Cardinality(Bytes(s))

UsedBytes == beside + Total(store)
WithinLimit == config.maxmemory = 0 \/ UsedBytes <= config.maxmemory

Evicts == config.policy.order # "none"

Pool == IF config.policy.volatileOnly THEN store.volatile ELSE store.keys

\* Draws may repeat; keys that are due are left to the sweep.
Live(k) == IsLive(store.map[k], now)
Draws == [1 .. Samples -> 1 .. Len(Pool)]
Sampled(draws) == {i \in 1 .. Samples : Live(Pool[draws[i]])}

\* Whether the policy prefers k to j as a victim.
Before(k, j) ==
  LET a == access[k]
      b == access[j]
  IN  CASE config.policy.order = "lru" -> a.at < b.at
        [] config.policy.order = "lfu" ->
             \/ DecayedFreq(a) < DecayedFreq(b)
             \/ DecayedFreq(a) = DecayedFreq(b) /\ a.at < b.at
        [] config.policy.order = "ttl" -> store.map[k].expireAt < store.map[j].expireAt
        [] OTHER -> FALSE

\* min_by_key: the first of the best.
Choose(draws) ==
  LET best == {i \in Sampled(draws) : \A j \in Sampled(draws) :
                 ~Before(Pool[draws[j]], Pool[draws[i]])}
  IN  Pool[draws[CHOOSE i \in best : \A j \in best : i <= j]]

-----------------------------------------------------------------------------
(***************************************************************************)
(* The gate and the commands behind it.                                    *)
(***************************************************************************)
Init ==
  /\ store = EmptyStore /\ access = [k \in {} |-> k] /\ clock = 0
  /\ now = 0 /\ minute = 0
  /\ config \in Configs
  /\ beside \in Besides
  /\ pending = 0 /\ rounds = 0
  /\ overtaken = {}

Held == [store |-> store, access |-> access, clock |-> clock]

Becomes(h) == store' = h.store /\ access' = h.access /\ clock' = h.clock

\* The key is gone, and with it what the observer knew of it.
Drop(k) ==
  /\ Becomes(Kept(Held, MarkDirty(RemoveEntry(store, k))))
  /\ overtaken' = {p \in overtaken : k \notin {p[1], p[2]}}

\* A plain command, or EXEC and the commands it queued: EXEC itself is the
\* first to pass the gate.
Dispatch(n) ==
  /\ pending = 0
  /\ pending' = n
  /\ rounds' = 0
  /\ UNCHANGED <<store, access, clock, now, minute, config, beside, overtaken>>

\* One more round of make_room that finds a victim among its draws.
EvictRound(draws) ==
  /\ pending > 0
  /\ ~WithinLimit /\ Evicts
  /\ rounds < MaxEvictionsPerPass
  /\ Sampled(draws) # {}
  /\ Drop(Choose(draws))
  /\ rounds' = rounds + 1
  /\ UNCHANGED <<now, minute, config, beside, pending>>

\* make_room returns false.  A round may draw nothing but keys that are due
\* while there are live ones beside them.
GivesUp ==
  /\ ~WithinLimit
  /\ \/ ~Evicts
     \/ rounds = MaxEvictionsPerPass
     \/ Pool = <<>>
     \/ \E draws \in Draws : Sampled(draws) = {}

\* A slip: RENAME and COPY are taken for commands that store nothing new.
DenyOomStringsOnly == {"set"}

DenyOom == {"set", "rename", "copy"}

\* The gate lets the command `op` through.  The observer is told which keys
\* the command used and which of those a lookup found.
Run(op, h, used, found) ==
  /\ pending > 0
  /\ WithinLimit \/ (GivesUp /\ op \notin DenyOom)
  /\ h.clock <= MaxClock
  /\ Becomes(h)
  /\ LET bound == DOMAIN h.store.map
     IN  overtaken' = {p \in overtaken : p[1] \notin used /\ {p[1], p[2]} \subseteq bound}
                        \cup (bound \ used) \X (found \cap bound)
  /\ pending' = pending - 1
  /\ rounds' = 0
  /\ UNCHANGED <<now, minute, config, beside>>

Found(k) == IF Has(store, k) /\ Live(k) THEN {k} ELSE {}

Set(k, n, at, counts) ==
  Run("set", SetString(Held, k, n, at, counts), {k}, IF at # Never THEN {k} ELSE Found(k))
Get(k, counts) == Run("get", Lookup(Held, k, counts), {k}, {k})
DelKey(k, counts) == Run("del", Delete(Held, k, counts), {k}, {k})
Expire(k, at, counts) == Run("expire", ExpireAt(Held, k, at, counts), {k}, {k})
RenameKey(k, new, counts, again) ==
  LET moved == IF Found(k) # {} THEN {new} ELSE {}
  IN  Run("rename", RenameTo(Held, k, new, counts, again), moved, moved)
Copy(k, dest, counts) ==
  LET both == IF Found(k) # {} THEN {k, dest} ELSE {}
  IN  Run("copy", CopyTo(Held, k, dest, counts), both, both)

\* EXEC before its queue, and every command that reaches no key.
Other == Run("other", Held, {}, {})

\* A command that could grow the keyspace is refused.
Refuse(op) ==
  /\ pending > 0
  /\ op \in DenyOom
  /\ GivesUp
  /\ pending' = pending - 1
  /\ rounds' = 0
  /\ UNCHANGED <<store, access, clock, now, minute, config, beside, overtaken>>

-----------------------------------------------------------------------------
(***************************************************************************)
(* What happens between dispatches, and while they run.                    *)
(***************************************************************************)
\* sweep_expired, a key at a time: a lookup of a key that is due leaves the
\* same store behind, so no state is new.
SweepKey(k) ==
  /\ pending = 0
  /\ Drop(k)
  /\ UNCHANGED <<now, minute, config, beside, pending, rounds>>

ConfigSet(c) ==
  /\ pending = 0
  /\ config' = c
  /\ UNCHANGED <<store, access, clock, now, minute, beside, pending, rounds, overtaken>>

\* Buffers and tables grow and shrink.
Allocate(n) ==
  /\ beside' = n
  /\ UNCHANGED <<store, access, clock, now, minute, config, pending, rounds, overtaken>>

Tick ==
  /\ now < MaxTime
  /\ now' = now + 1
  /\ UNCHANGED <<store, access, clock, minute, config, beside, pending, rounds, overtaken>>

Minute ==
  /\ minute < MaxMinute
  /\ minute' = minute + 1
  /\ UNCHANGED <<store, access, clock, now, config, beside, pending, rounds, overtaken>>

Command ==
  \/ \E k \in Keys, counts \in BOOLEAN :
       \/ \E n \in Sizes, at \in Deadlines \cup {Never} : Set(k, n, at, counts)
       \/ Get(k, counts)
       \/ DelKey(k, counts)
       \/ \E at \in Deadlines : Expire(k, at, counts)
       \/ \E new \in Keys, again \in BOOLEAN : RenameKey(k, new, counts, again)
       \/ \E dest \in Keys : Copy(k, dest, counts)
  \/ Other

Next ==
  \/ \E n \in 1 .. MaxBatch : Dispatch(n)
  \/ \E draws \in Draws : EvictRound(draws)
  \/ \E op \in DenyOom : Refuse(op)
  \/ Command
  \/ \E k \in DueKeys(store, now) : SweepKey(k)
  \/ \E c \in Configs : ConfigSet(c)
  \/ \E n \in Besides : Allocate(n)
  \/ Tick
  \/ Minute

Spec == Init /\ [][Next]_vars

-----------------------------------------------------------------------------
(***************************************************************************)
(* Properties.                                                             *)
(***************************************************************************)

\* Every entry has one access record, stamped no later than the clock and
\* the minute; the gate stays within its bounds.
TypeOK ==
  /\ store.map \in [DOMAIN store.map -> Entry] /\ DOMAIN store.map \subseteq Keys
  /\ \A k \in DOMAIN store.map : store.map[k].value.size \in Sizes
  /\ access \in [DOMAIN store.map -> Access]
  /\ \A k \in DOMAIN store.map : access[k].at <= clock /\ access[k].decayedAt <= minute
  /\ clock \in 0 .. MaxClock /\ now \in Time /\ minute \in 0 .. MaxMinute
  /\ config \in Configs /\ beside \in Besides
  /\ pending \in 0 .. MaxBatch /\ rounds \in 0 .. MaxEvictionsPerPass
  /\ overtaken \subseteq (DOMAIN store.map) \X (DOMAIN store.map)

\* The draws of a round that finds a live key, and the keys it compares.
Rounds == {draws \in Draws : Sampled(draws) # {}}
Compared(draws) == {Pool[draws[i]] : i \in Sampled(draws)}

\* A volatile policy takes no key without an expiry, whatever SET, RENAME,
\* COPY and lazy expiry did to the volatile index before (Store::sample).
VolatileSpared ==
  config.policy.volatileOnly =>
    \A draws \in Rounds : store.map[Choose(draws)].expireAt # Never

\* LRU never takes a key that a lookup has found since another drawn key was
\* last used.  The clock orders lookups only (Store::touch): a key that was
\* written but not looked up since ties with what came just before it.
LruKeepsTheReRead ==
  config.policy.order = "lru" =>
    \A draws \in Rounds :
      \A k \in Compared(draws) : <<k, Choose(draws)>> \notin overtaken

\* Under LFU a key left alone for as many minutes as the counter has bits
\* goes before any key used in the current minute, however hot the first
\* one has been (Access::decayed_freq, Access::record_hit).
IdleGoesFirst ==
  config.policy.order = "lfu" =>
    \A draws \in Rounds :
      access[Choose(draws)].decayedAt = minute =>
        \A k \in Compared(draws) : minute - access[k].decayedAt < Bits

\* The keys the policy may take.
Eligible ==
  {k \in DOMAIN store.map : config.policy.volatileOnly => store.map[k].expireAt # Never}

\* make_room gives up before its last round only when the policy may take
\* nothing that is left, or when a key it may take is due and not yet swept:
\* a round that draws only such keys ends the pass with live ones left.
GivesUpWithNothingLeft ==
  pending > 0 /\ GivesUp /\ Evicts /\ rounds < MaxEvictionsPerPass
    => Eligible \cap LiveKeys(store, now) = {} \/ Eligible \cap DueKeys(store, now) # {}

\* A policy takes nothing but the keys it may take, and gives up before its
\* last round only when none of them is left or one that is due is in the way.
TakesWhatItMay == VolatileSpared /\ GivesUpWithNothingLeft

\* Over the limit the values never grow, be it by a plain command or by one
\* that EXEC runs: what the gate lets through regardless frees or keeps
\* (memory_gate and DENY_OOM).
NoGrowthOverLimit == [][~WithinLimit => Total(store') <= Total(store)]_vars

=============================================================================
