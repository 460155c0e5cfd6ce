------------------------------ MODULE Keyspace ------------------------------
(***************************************************************************)
(* The data structure behind Klyro's keyspace (src/src/store.rs): the map from *)
(* keys to entries and the two index vectors beside it, `keys` (every      *)
(* key) and `volatile` (the keys that carry an expiry), from which         *)
(* eviction and RANDOMKEY draw.  A store is a record                       *)
(*                                                                         *)
(*   [map, keys, volatile, dirty]                                          *)
(*                                                                         *)
(* and each method of Store is an operator from a store, its arguments and *)
(* the clock reading the method takes to the store it leaves behind.  A    *)
(* method that reads the clock more than once takes one argument per       *)
(* reading.                                                                *)
(*                                                                         *)
(* Abstractions.  A value is its type and its size; the size of a string   *)
(* tells one string from another.  `dirty` is whether the counter of       *)
(* unsaved changes is above zero, the only thing autosave asks of it.      *)
(* Slots count from 1, and 0 is the absent volatile slot.  The access      *)
(* record and the hit, miss and expiry counters are left out.              *)
(***************************************************************************)
EXTENDS Integers, Sequences

CONSTANTS
  Keys,         \* the keys clients may name
  Collections,  \* the collection types: lists, hashes, sets, sorted sets
  MaxLen,       \* bound on the size of a value
  MaxTime       \* bound on the clock

ASSUME CollectionsAssumption == Collections \cap {"string", "memory"} = {}
ASSUME MaxLenAssumption == MaxLen \in Nat \ {0}
ASSUME MaxTimeAssumption == MaxTime \in Nat

StoreType == {"string", "memory"} \cup Collections
Value == [type : StoreType, size : Nat]
String(n) == [type |-> "string", size |-> n]
Time == 0 .. MaxTime

\* The expire_at of a key that never expires.
Never == -1
Expiry == Nat \cup {Never}

Entry == [value : Value, expireAt : Expiry, slot : Nat, vslot : Nat]

EmptyStore ==
  [map |-> [k \in {} |-> k], keys |-> <<>>, volatile |-> <<>>, dirty |-> FALSE]

(***************************************************************************)
(* Maps and vectors.                                                       *)
(***************************************************************************)
Put(m, k, e) == [x \in DOMAIN m \cup {k} |-> IF x = k THEN e ELSE m[x]]
Without(m, k) == [x \in DOMAIN m \ {k} |-> m[x]]

\* Vec::swap_remove: the last element fills the hole.
SwapRemove(q, i) ==
  [j \in 1 .. Len(q) - 1 |-> IF j = i THEN q[Len(q)] ELSE q[j]]

Has(s, k) == k \in DOMAIN s.map
IsLive(e, t) == e.expireAt = Never \/ e.expireAt > t
LiveKeys(s, t) == {k \in DOMAIN s.map : IsLive(s.map[k], t)}
DueKeys(s, t) == {k \in DOMAIN s.map : ~IsLive(s.map[k], t)}

\* An empty collection; strings and memory indexes never count as one.
IsEmptyCollection(v) == v.type \in Collections /\ v.size = 0

(***************************************************************************)
(* The places where the map grows or shrinks, and the repair of the index  *)
(* vectors that goes with it.                                              *)
(***************************************************************************)
MarkDirty(s) == [s EXCEPT !.dirty = TRUE]

\* A slip: the key swapped into the hole keeps its old slot.
DetachVolatileNoRepair(s, i) == [s EXCEPT !.volatile = SwapRemove(@, i)]

\* The key swapped into the hole, if there is one, learns its new slot.
DetachVolatile(s, i) ==
  LET q == SwapRemove(s.volatile, i)
  IN  [s EXCEPT !.volatile = q,
                !.map = IF i \in 1 .. Len(q) /\ q[i] \in DOMAIN @
                        THEN [@ EXCEPT ![q[i]].vslot = i]
                        ELSE @]

\* A slip: a key that loses its expiry stays in the volatile index.
SyncVolatileAttaching(s, k) ==
  IF s.map[k].expireAt # Never /\ s.map[k].vslot = 0
  THEN [s EXCEPT !.volatile = Append(@, k), !.map[k].vslot = Len(s.volatile) + 1]
  ELSE s

SyncVolatile(s, k) ==
  LET e == s.map[k]
  IN  IF e.expireAt # Never /\ e.vslot = 0
      THEN [s EXCEPT !.volatile = Append(@, k),
                     !.map[k].vslot = Len(s.volatile) + 1]
      ELSE IF e.expireAt = Never /\ e.vslot # 0
      THEN DetachVolatile([s EXCEPT !.map[k].vslot = 0], e.vslot)
      ELSE s

\* An overwrite keeps the slots of the entry it replaces; a fresh key is
\* appended to the key index.
InsertEntry(s, k, v, at) ==
  LET slot  == IF Has(s, k) THEN s.map[k].slot ELSE Len(s.keys) + 1
      vslot == IF Has(s, k) THEN s.map[k].vslot ELSE 0
      e     == [value |-> v, expireAt |-> at, slot |-> slot, vslot |-> vslot]
  IN  SyncVolatile([s EXCEPT !.map = Put(@, k, e),
                             !.keys = IF Has(s, k) THEN @ ELSE Append(@, k)], k)

RemoveEntry(s, k) ==
  LET e == s.map[k]
      q == SwapRemove(s.keys, e.slot)
      m == Without(s.map, k)
      r == [s EXCEPT !.keys = q,
                     !.map = IF e.slot \in 1 .. Len(q) /\ q[e.slot] \in DOMAIN m
                             THEN [m EXCEPT ![q[e.slot]].slot = e.slot]
                             ELSE m]
  IN  IF e.vslot # 0 THEN DetachVolatile(r, e.vslot) ELSE r

(***************************************************************************)
(* Lookups.  Every one of them first drops the key if its deadline has     *)
(* passed; Find stands for find, find_mut and peek_type, which differ only *)
(* in the counters they keep.                                              *)
(***************************************************************************)
Find(s, k, t) ==
  IF Has(s, k) /\ ~IsLive(s.map[k], t) THEN MarkDirty(RemoveEntry(s, k)) ELSE s

\* check_type, once the lookup is done: a missing key passes.
TypeAllows(s, k, type) == Has(s, k) => s.map[k].value.type = type

(***************************************************************************)
(* The mutators.                                                           *)
(***************************************************************************)
Del(s, k, t) ==
  LET f == Find(s, k, t)
  IN  IF Has(f, k) THEN MarkDirty(RemoveEntry(f, k)) ELSE f

DeleteIfEmpty(s, k, t) ==
  LET f == Find(s, k, t)
  IN  IF Has(f, k) /\ IsEmptyCollection(f.map[k].value)
      THEN MarkDirty(RemoveEntry(f, k))
      ELSE f

\* A slip: the deadline moves without a lookup, so an expired key comes back.
SetExpireAtUnchecked(s, k, at, t) ==
  IF Has(s, k) THEN MarkDirty(SyncVolatile([s EXCEPT !.map[k].expireAt = at], k)) ELSE s

SetExpireAt(s, k, at, t) ==
  LET f == Find(s, k, t)
  IN  IF Has(f, k)
      THEN MarkDirty(SyncVolatile([f EXCEPT !.map[k].expireAt = at], k))
      ELSE f

\* set_string, create_memory, and the creating half of get_or_create_*:
\* a fresh value carries no expiry, whatever was there before.
Install(s, k, v) == MarkDirty(InsertEntry(s, k, v, Never))

\* In-place mutation of a value that has just been looked up.
SetSize(s, k, n) == MarkDirty([s EXCEPT !.map[k].value.size = n])

\* A slip: set_string in its place, which drops the expiry.
UpdateStringFresh(s, k, n, t) == Install(s, k, String(n))

\* Keeps the expiry, unlike set_string.
UpdateString(s, k, n, t) ==
  LET f == Find(s, k, t)
  IN  IF Has(f, k) THEN MarkDirty([f EXCEPT !.map[k].value = String(n)])
      ELSE Install(f, k, String(n))

\* get_or_create_list and its three siblings, for a key of the right type.
\* The counter of changes moves even when the collection was there.
GetOrCreate(s, k, type, t) ==
  LET f == Find(s, k, t)
  IN  IF Has(f, k) THEN MarkDirty(f)
      ELSE Install(f, k, [type |-> type, size |-> 0])

Rename(s, k, new, t) ==
  LET f == Find(s, k, t)
      e == f.map[k]
  IN  IF ~Has(f, k) \/ k = new THEN f
      ELSE MarkDirty(InsertEntry(RemoveEntry(f, k), new, e.value, e.expireAt))

Flush(s) == MarkDirty(EmptyStore)

(***************************************************************************)
(* What the methods of Store keep true of a store: each vector lists       *)
(* exactly the keys it should, each once, and every entry knows its own    *)
(* place in it.                                                            *)
(***************************************************************************)
KeyIndexConsistent(s) ==
  /\ \A k \in DOMAIN s.map : /\ s.map[k].slot \in 1 .. Len(s.keys)
                             /\ s.keys[s.map[k].slot] = k
  /\ \A i \in 1 .. Len(s.keys) : /\ s.keys[i] \in DOMAIN s.map
                                 /\ s.map[s.keys[i]].slot = i

VolatileIndexConsistent(s) ==
  /\ \A k \in DOMAIN s.map :
       IF s.map[k].expireAt = Never
       THEN s.map[k].vslot = 0
       ELSE /\ s.map[k].vslot \in 1 .. Len(s.volatile)
            /\ s.volatile[s.map[k].vslot] = k
  /\ \A i \in 1 .. Len(s.volatile) : /\ s.volatile[i] \in DOMAIN s.map
                                     /\ s.map[s.volatile[i]].vslot = i

=============================================================================
