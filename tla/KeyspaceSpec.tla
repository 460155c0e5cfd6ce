---------------------------- MODULE KeyspaceSpec ----------------------------
(***************************************************************************)
(* What the keyspace promises its clients: a map from keys to values in    *)
(* which a key is simply gone from the moment its deadline passes.  There  *)
(* is no index, no lazy expiry and no sweep here; every step drops what is *)
(* due by the time it ends.  Module Store is shown to implement this.      *)
(***************************************************************************)
EXTENDS Integers

CONSTANTS Keys, Collections, MaxLen, MaxTime

VARIABLES db, now

Never == -1
Keep == -2
Time == 0 .. MaxTime
Sizes == 0 .. MaxLen
Deltas == -MaxLen .. MaxLen

Alive(e, t) == e.expireAt = Never \/ e.expireAt > t
Prune(f, t) == [k \in {x \in DOMAIN f : Alive(f[x], t)} |-> f[k]]
Bind(f, k, v, at) ==
  [x \in DOMAIN f \cup {k} |-> IF x = k THEN [value |-> v, expireAt |-> at] ELSE f[x]]
Drop(f, K) == [x \in DOMAIN f \ K |-> f[x]]

Val(type, n) == [type |-> type, size |-> n]
Held(k) == k \in DOMAIN db
HoldsOther(k, type) == Held(k) /\ db[k].value.type # type
ExpiryOf(k) == IF Held(k) THEN db[k].expireAt ELSE Never
SizeOf(k) == IF Held(k) THEN db[k].value.size ELSE 0

\* The key is there, and its deadline passes by time t.
Lapses(k, t) == Held(k) /\ ~Alive(db[k], t)

\* A collection that loses its last element ceases to exist.
Resize(f, k, type, n, at) ==
  IF n = 0 /\ type \in Collections THEN Drop(f, {k}) ELSE Bind(f, k, Val(type, n), at)

\* The command ends at time t, having made f of the keyspace.
EndsWith(t, f) == now' = t /\ db' = Prune(f, t)

Init == db = [k \in {} |-> k] /\ now = 0

-----------------------------------------------------------------------------
Forget(K) == EndsWith(now, Drop(db, K))

Expire(k, at) ==
  EndsWith(now, IF Held(k) THEN Bind(db, k, db[k].value, at) ELSE db)

Rename(k, new, nx) ==
  EndsWith(now, IF ~Held(k) \/ (nx /\ Held(new)) THEN db
                ELSE Bind(Drop(db, {k}), new, db[k].value, db[k].expireAt))

Copy(k, dest, replace, t2) ==
  EndsWith(t2, IF Held(k) /\ (replace \/ dest \notin DOMAIN Prune(db, t2))
               THEN Bind(db, dest, db[k].value, db[k].expireAt) ELSE db)

\* Goes by what is there now; what it kept the deadline of may be gone when
\* it ends.
Set(k, n, cond, ex, t2) ==
  EndsWith(t2, IF (IF Held(k) THEN cond = "nx" ELSE cond = "xx") THEN db
               ELSE Bind(db, k, Val("string", n), IF ex = Keep THEN ExpiryOf(k) ELSE ex))

MSet(k1, k2, n, nx) ==
  EndsWith(now, IF nx /\ (Held(k1) \/ Held(k2)) THEN db
                ELSE Bind(Bind(db, k1, Val("string", n), Never), k2, Val("string", n), Never))

Update(k, m, t2) ==
  EndsWith(t2, IF HoldsOther(k, "string") THEN db
               ELSE Bind(db, k, Val("string", SizeOf(k) + m), ExpiryOf(k)))

GetDel(k) == EndsWith(now, IF HoldsOther(k, "string") THEN db ELSE Drop(db, {k}))

GetEx(k, ex) ==
  EndsWith(now, IF Held(k) /\ db[k].value.type = "string" /\ ex # Keep
                THEN Bind(db, k, db[k].value, ex) ELSE db)

\* A collection that died by t2 starts afresh, ...
Add(k, type, m, t2) ==
  EndsWith(t2, IF HoldsOther(k, type) THEN db
               ELSE IF Lapses(k, t2) THEN Bind(db, k, Val(type, m), Never)
               ELSE Bind(db, k, Val(type, SizeOf(k) + m), ExpiryOf(k)))

\* ... unless the command adds only to one that is there.
AddX(k, type, m, t2) ==
  EndsWith(t2, IF ~Held(k) \/ HoldsOther(k, type) THEN db
               ELSE Bind(db, k, Val(type, SizeOf(k) + m), ExpiryOf(k)))

Remove(k, type, m, t2) ==
  EndsWith(t2, IF ~Held(k) \/ HoldsOther(k, type) THEN db
               ELSE Resize(db, k, type, SizeOf(k) - m, ExpiryOf(k)))

\* The element leaves the source now and reaches the destination at t2; a
\* destination that died in between starts afresh.
Move(k, dest, type, m, t2) ==
  LET taken == Bind(db, k, Val(type, SizeOf(k) - 1), ExpiryOf(k))
      later == Prune(taken, t2)
      there == dest \in DOMAIN later
      given == Bind(later, dest,
                    Val(type, (IF there THEN later[dest].value.size ELSE 0) + m),
                    IF there THEN later[dest].expireAt ELSE Never)
  IN  EndsWith(t2, IF ~Held(k) \/ HoldsOther(k, type) \/ HoldsOther(dest, type) THEN db
                   ELSE IF k \in DOMAIN given /\ given[k].value.size = 0
                   THEN Drop(given, {k})
                   ELSE given)

StoreSet(dest, k1, k2, n) ==
  EndsWith(now, IF \E k \in {dest, k1, k2} : HoldsOther(k, "set") THEN db
                ELSE Resize(db, dest, "set", n, Never))

\* An increment that is not finite is undone.
ZIncrBy(k, present, finite, t2) ==
  EndsWith(t2, IF HoldsOther(k, "zset") \/ ~finite THEN db
               ELSE Bind(db, k, Val("zset", SizeOf(k) + (IF present THEN 0 ELSE 1)),
                         ExpiryOf(k)))

MemCreate(k) ==
  EndsWith(now, IF Held(k) THEN db ELSE Bind(db, k, Val("memory", 0), Never))

MemWrite(k, n, t2) ==
  EndsWith(t2, IF ~Held(k) \/ HoldsOther(k, "memory") THEN db
               ELSE Bind(db, k, Val("memory", n), ExpiryOf(k)))

Pass(t) == EndsWith(t, db)

-----------------------------------------------------------------------------
Command(k) ==
  \/ Forget({k}) \/ Forget(DOMAIN db)
  \/ \E at \in Time \cup {Never} : Expire(k, at)
  \/ \E new \in Keys, nx \in BOOLEAN : Rename(k, new, nx)
  \/ \E dest \in Keys, replace \in BOOLEAN, t2 \in now .. MaxTime :
       Copy(k, dest, replace, t2)
  \/ \E n \in Sizes, cond \in {"any", "nx", "xx"}, ex \in Time \cup {Never, Keep},
        t2 \in now .. MaxTime : Set(k, n, cond, ex, t2)
  \/ \E k2 \in Keys, n \in Sizes, nx \in BOOLEAN : MSet(k, k2, n, nx)
  \/ \E m \in Deltas, t2 \in now .. MaxTime : Update(k, m, t2)
  \/ GetDel(k)
  \/ \E ex \in Time \cup {Never, Keep} : GetEx(k, ex)
  \/ \E type \in Collections, m \in Sizes, t2 \in now .. MaxTime :
       Add(k, type, m, t2) \/ AddX(k, type, m, t2) \/ Remove(k, type, m, t2)
  \/ \E dest \in Keys, type \in Collections, m \in {0, 1}, t2 \in now .. MaxTime :
       Move(k, dest, type, m, t2)
  \/ \E k1, k2 \in Keys, n \in Sizes : StoreSet(k, k1, k2, n)
  \/ \E present, finite \in BOOLEAN, t2 \in now .. MaxTime :
       ZIncrBy(k, present, finite, t2)
  \/ MemCreate(k)
  \/ \E n \in Sizes, t2 \in now .. MaxTime : MemWrite(k, n, t2)

Next == (\E k \in Keys : Command(k)) \/ \E t \in now .. MaxTime : Pass(t)

Spec == Init /\ [][Next]_<<db, now>>

=============================================================================
