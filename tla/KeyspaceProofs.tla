--------------------------- MODULE KeyspaceProofs ---------------------------
(***************************************************************************)
(* What the methods of Store do to a consistent store, for every set of    *)
(* keys and every set of collection types.  The argument goes bottom up:   *)
(* what swap_remove does to a vector, what the two index repairs restore,  *)
(* what insert_entry and remove_entry make of a consistent store, then one *)
(* lemma per method.                                                       *)
(***************************************************************************)
EXTENDS Keyspace, TLAPS, SequenceTheorems

\* The stores a program can hold, as sets: some keys are bound, the others
\* are not.
Bindings == UNION {[D -> Entry] : D \in SUBSET Keys}
Stores == [map : Bindings, keys : Seq(Keys), volatile : Seq(Keys), dirty : BOOLEAN]

\* A function from some of the keys to entries is a binding.
LEMMA BindingsIntro ==
  ASSUME NEW D \in SUBSET Keys, NEW f \in [D -> Entry]
  PROVE  f \in Bindings
BY DEF Bindings

\* A binding maps some of the keys to entries.
LEMMA BindingsFacts ==
  ASSUME NEW m \in Bindings
  PROVE  /\ DOMAIN m \in SUBSET Keys
         /\ m \in [DOMAIN m -> Entry]
BY DEF Bindings

\* HashMap::insert binds one key and leaves the others alone.
LEMMA PutFacts ==
  ASSUME NEW m \in Bindings, NEW k \in Keys, NEW e \in Entry
  PROVE  /\ Put(m, k, e) \in Bindings
         /\ DOMAIN Put(m, k, e) = DOMAIN m \cup {k}
         /\ Put(m, k, e)[k] = e
         /\ \A x \in DOMAIN m \ {k} : Put(m, k, e)[x] = m[x]
<1>1. DOMAIN m \cup {k} \in SUBSET Keys
  BY BindingsFacts
<1>2. Put(m, k, e) \in [DOMAIN m \cup {k} -> Entry]
  BY BindingsFacts DEF Put
<1>3. Put(m, k, e) \in Bindings
  BY <1>1, <1>2, BindingsIntro
<1> QED
  BY <1>3 DEF Put

\* HashMap::remove unbinds one key and leaves the others alone.
LEMMA WithoutFacts ==
  ASSUME NEW m \in Bindings, NEW k \in Keys
  PROVE  /\ Without(m, k) \in Bindings
         /\ DOMAIN Without(m, k) = DOMAIN m \ {k}
         /\ \A x \in DOMAIN m \ {k} : Without(m, k)[x] = m[x]
<1>1. DOMAIN m \ {k} \in SUBSET Keys
  BY BindingsFacts
<1>2. Without(m, k) \in [DOMAIN m \ {k} -> Entry]
  BY BindingsFacts DEF Without
<1>3. Without(m, k) \in Bindings
  BY <1>1, <1>2, BindingsIntro
<1> QED
  BY <1>3 DEF Without

\* Vec::swap_remove shortens the vector by one; only the slot removed has a
\* new element, the last one.
LEMMA SwapRemoveFacts ==
  ASSUME NEW S, NEW q \in Seq(S), NEW i \in 1 .. Len(q)
  PROVE  /\ SwapRemove(q, i) \in Seq(S)
         /\ Len(SwapRemove(q, i)) = Len(q) - 1
         /\ \A j \in 1 .. Len(q) - 1 :
              SwapRemove(q, i)[j] = IF j = i THEN q[Len(q)] ELSE q[j]
<1>1. Len(q) \in Nat /\ Len(q) - 1 \in Nat
  BY LenProperties
<1>2. SwapRemove(q, i) \in [1 .. Len(q) - 1 -> S]
  BY <1>1 DEF SwapRemove
<1>3. SwapRemove(q, i) \in Seq(S)
  BY <1>1, <1>2
<1> QED
  BY <1>1, <1>2, <1>3 DEF SwapRemove

\* Giving a key its place in the volatile index changes nothing else.
LEMMA SetVSlot ==
  ASSUME NEW m \in Bindings, NEW k \in DOMAIN m, NEW i \in Nat,
         NEW n, n = [m EXCEPT ![k].vslot = i]
  PROVE  /\ n \in Bindings
         /\ DOMAIN n = DOMAIN m
         /\ n[k] = [m[k] EXCEPT !.vslot = i]
         /\ \A x \in DOMAIN m \ {k} : n[x] = m[x]
<1>1. m[k] \in Entry /\ [m[k] EXCEPT !.vslot = i] \in Entry
  BY BindingsFacts DEF Entry
<1>2. n \in [DOMAIN m -> Entry]
  BY <1>1, BindingsFacts
<1>3. n \in Bindings
  BY <1>2, BindingsFacts, BindingsIntro
<1> QED
  BY <1>3, BindingsFacts

\* Giving a key its place in the key index changes nothing else.
LEMMA SetSlot ==
  ASSUME NEW m \in Bindings, NEW k \in DOMAIN m, NEW i \in Nat,
         NEW n, n = [m EXCEPT ![k].slot = i]
  PROVE  /\ n \in Bindings
         /\ DOMAIN n = DOMAIN m
         /\ n[k] = [m[k] EXCEPT !.slot = i]
         /\ \A x \in DOMAIN m \ {k} : n[x] = m[x]
<1>1. m[k] \in Entry /\ [m[k] EXCEPT !.slot = i] \in Entry
  BY BindingsFacts DEF Entry
<1>2. n \in [DOMAIN m -> Entry]
  BY <1>1, BindingsFacts
<1>3. n \in Bindings
  BY <1>2, BindingsFacts, BindingsIntro
<1> QED
  BY <1>3, BindingsFacts

\* What a store tells its clients and what its key index rests on: two
\* stores that agree on this differ at most in the volatile index.
SameBut(s, r) ==
  /\ r \in Stores
  /\ r.keys = s.keys
  /\ r.dirty = s.dirty
  /\ DOMAIN r.map = DOMAIN s.map
  /\ \A x \in DOMAIN s.map : /\ r.map[x].value = s.map[x].value
                             /\ r.map[x].expireAt = s.map[x].expireAt
                             /\ r.map[x].slot = s.map[x].slot

\* Entries point into the volatile index, ...
VolatileEntries(s) ==
  \A x \in DOMAIN s.map :
    s.map[x].vslot # 0 => /\ s.map[x].vslot \in 1 .. Len(s.volatile)
                          /\ s.volatile[s.map[x].vslot] = x

\* ... the index, its slot i aside, points back, ...
VolatileSlots(s, i) ==
  \A j \in 1 .. Len(s.volatile) :
    j # i => /\ s.volatile[j] \in DOMAIN s.map
             /\ s.map[s.volatile[j]].vslot = j

\* ... and the keys of the index, k aside, are those with an expiry.
VolatileKinds(s, k) ==
  \A x \in DOMAIN s.map \ {k} : s.map[x].vslot = 0 <=> s.map[x].expireAt = Never

\* The consistency of the volatile index is the conjunction of the parts.
LEMMA VolatileParts ==
  ASSUME NEW s \in Stores
  PROVE  VolatileIndexConsistent(s) <=>
           /\ VolatileEntries(s)
           /\ VolatileSlots(s, 0)
           /\ \A x \in DOMAIN s.map : s.map[x].vslot = 0 <=> s.map[x].expireAt = Never
<1>1. \A x \in DOMAIN s.map : s.map[x] \in Entry
  BY BindingsFacts DEF Stores
<1>2. Len(s.volatile) \in Nat
  BY DEF Stores
<1> QED
  BY <1>1, <1>2 DEF VolatileIndexConsistent, VolatileEntries, VolatileSlots, Entry

\* detach_volatile repairs the index when the slot it frees belongs to no
\* entry any more, whether or not another key moves into the slot.
LEMMA DetachVolatileFacts ==
  ASSUME NEW s \in Stores, NEW i \in 1 .. Len(s.volatile),
         VolatileEntries(s), VolatileSlots(s, i),
         \A x \in DOMAIN s.map : s.map[x].vslot # i,
         NEW r, r = DetachVolatile(s, i)
  PROVE  /\ SameBut(s, r)
         /\ VolatileEntries(r)
         /\ VolatileSlots(r, 0)
         /\ \A x \in DOMAIN s.map : r.map[x].vslot = 0 <=> s.map[x].vslot = 0
<1> DEFINE q == SwapRemove(s.volatile, i)
           n == Len(s.volatile)
<1>1. /\ s.volatile \in Seq(Keys) /\ s.keys \in Seq(Keys) /\ s.dirty \in BOOLEAN
      /\ s.map \in Bindings /\ n \in Nat /\ n > 0
  BY DEF Stores
<1>2. /\ q \in Seq(Keys)
      /\ Len(q) = n - 1
      /\ \A j \in 1 .. n - 1 : q[j] = IF j = i THEN s.volatile[n] ELSE s.volatile[j]
  BY <1>1, SwapRemoveFacts
<1>3. CASE i = n
  <2>1. r = [s EXCEPT !.volatile = q]
    <3>1. i \notin 1 .. Len(q)
      BY <1>1, <1>2, <1>3
    <3>2. r = [s EXCEPT !.volatile = q, !.map = s.map]
      BY <3>1 DEF DetachVolatile
    <3> QED
      BY <3>2 DEF Stores
  <2>2. r \in Stores /\ r.map = s.map /\ r.volatile = q /\ r.keys = s.keys /\ r.dirty = s.dirty
    BY <1>1, <1>2, <2>1 DEF Stores
  <2>3. SameBut(s, r)
    BY <2>2 DEF SameBut
  <2>4. VolatileEntries(r)
    <3>1. SUFFICES ASSUME NEW x \in DOMAIN s.map, s.map[x].vslot # 0
                   PROVE  s.map[x].vslot \in 1 .. n - 1 /\ q[s.map[x].vslot] = x
      BY <1>2, <2>2 DEF VolatileEntries
    <3>2. s.map[x].vslot \in 1 .. n /\ s.map[x].vslot # n /\ s.volatile[s.map[x].vslot] = x
      BY <1>3, <3>1 DEF VolatileEntries
    <3>3. PICK j \in 1 .. n : j = s.map[x].vslot
      BY <3>2
    <3>4. j \in 1 .. n - 1
      BY <1>1, <3>2, <3>3
    <3> QED
      BY <1>2, <1>3, <3>2, <3>3, <3>4
  <2>5. VolatileSlots(r, 0)
    BY <1>1, <1>2, <1>3, <2>2 DEF VolatileSlots
  <2> QED
    BY <2>2, <2>3, <2>4, <2>5
<1>4. CASE i # n
  <2> DEFINE y == s.volatile[n]
  <2>1. i \in 1 .. Len(q) /\ q[i] = y /\ y \in DOMAIN s.map /\ s.map[y].vslot = n
    BY <1>1, <1>2, <1>4 DEF VolatileSlots
  <2>2. r = [s EXCEPT !.volatile = q, !.map = [s.map EXCEPT ![y].vslot = i]]
    BY <1>1, <2>1 DEF DetachVolatile, Stores
  <2>3. /\ r.volatile = q /\ r.keys = s.keys /\ r.dirty = s.dirty
        /\ r.map = [s.map EXCEPT ![y].vslot = i]
    BY <1>1, <2>2 DEF Stores
  <2>4. /\ r.map \in Bindings
        /\ DOMAIN r.map = DOMAIN s.map
        /\ r.map[y] = [s.map[y] EXCEPT !.vslot = i]
        /\ \A x \in DOMAIN s.map \ {y} : r.map[x] = s.map[x]
    BY <1>1, <2>1, <2>3, SetVSlot
  <2>5. \A x \in DOMAIN s.map : s.map[x] \in Entry
    BY <1>1, BindingsFacts
  <2>6. /\ r.map[y].vslot = i /\ r.map[y].value = s.map[y].value
        /\ r.map[y].expireAt = s.map[y].expireAt /\ r.map[y].slot = s.map[y].slot
    BY <2>1, <2>4, <2>5 DEF Entry
  <2>7. r \in Stores
    BY <1>1, <1>2, <2>2, <2>3, <2>4 DEF Stores
  <2>8. SameBut(s, r)
    BY <2>3, <2>4, <2>6, <2>7 DEF SameBut
  <2>9. VolatileEntries(r)
    BY <1>1, <1>2, <1>4, <2>1, <2>3, <2>4, <2>6 DEF VolatileEntries
  <2>10. VolatileSlots(r, 0)
    <3> SUFFICES ASSUME NEW j \in 1 .. Len(q)
                 PROVE  q[j] \in DOMAIN r.map /\ r.map[q[j]].vslot = j
      BY <2>3 DEF VolatileSlots
    <3>1. CASE j = i
      BY <2>1, <2>4, <2>6, <3>1
    <3>2. CASE j # i
      <4>1. q[j] = s.volatile[j] /\ j \in 1 .. Len(s.volatile) /\ j # n
        BY <1>1, <1>2, <1>4, <3>2
      <4>2. q[j] \in DOMAIN s.map /\ s.map[q[j]].vslot = j
        BY <1>1, <3>2, <4>1 DEF VolatileSlots
      <4>3. q[j] # y
        BY <2>1, <4>1, <4>2
      <4> QED
        BY ONLY <2>4, <4>2, <4>3
    <3> QED
      BY <3>1, <3>2
  <2>11. ASSUME NEW x \in DOMAIN s.map
         PROVE  r.map[x].vslot = 0 <=> s.map[x].vslot = 0
    <3>1. CASE x = y
      BY <3>1, <1>1, <2>1, <2>6
    <3>2. CASE x # y
      BY <3>2, <2>4
    <3> QED
      BY <3>1, <3>2
  <2> QED
    BY <2>8, <2>9, <2>10, <2>11
<1> QED
  BY <1>3, <1>4

\* sync_volatile makes the index agree with an expiry that has just been set
\* or cleared, the only disagreement there was.
LEMMA SyncVolatileFacts ==
  ASSUME NEW s \in Stores, NEW k \in DOMAIN s.map,
         VolatileEntries(s), VolatileSlots(s, 0), VolatileKinds(s, k),
         NEW r, r = SyncVolatile(s, k)
  PROVE  SameBut(s, r) /\ VolatileIndexConsistent(r)
<1> DEFINE e == s.map[k]
<1>0. s.map \in Bindings
  BY DEF Stores
<1>1. /\ s.volatile \in Seq(Keys) /\ s.keys \in Seq(Keys) /\ s.dirty \in BOOLEAN
      /\ s.map \in Bindings /\ k \in Keys /\ Len(s.volatile) \in Nat
      /\ \A x \in DOMAIN s.map : s.map[x] \in Entry
  BY BindingsFacts DEF Stores
<1>2. CASE e.expireAt # Never /\ e.vslot = 0
  <2> DEFINE i == Len(s.volatile) + 1
  <2>0. i \in Nat \ {0}
    BY <1>1
  <2>1. r = [s EXCEPT !.volatile = Append(s.volatile, k), !.map = [s.map EXCEPT ![k].vslot = i]]
    BY <1>1, <1>2 DEF SyncVolatile, Stores
  <2>2. /\ r.volatile = Append(s.volatile, k) /\ r.keys = s.keys /\ r.dirty = s.dirty
        /\ r.map = [s.map EXCEPT ![k].vslot = i]
    BY <1>1, <2>1 DEF Stores
  <2> HIDE DEF i
  <2>3. /\ r.map \in Bindings
        /\ DOMAIN r.map = DOMAIN s.map
        /\ r.map[k] = [s.map[k] EXCEPT !.vslot = i]
        /\ \A x \in DOMAIN s.map \ {k} : r.map[x] = s.map[x]
    BY <1>0, <2>0, <2>2, SetVSlot
  <2>4. /\ r.map[k].vslot = i /\ r.map[k].value = e.value
        /\ r.map[k].expireAt = e.expireAt /\ r.map[k].slot = e.slot
    BY <1>1, <2>3 DEF Entry
  <2>5. /\ r.volatile \in Seq(Keys) /\ Len(r.volatile) = i /\ r.volatile[i] = k
        /\ \A j \in 1 .. Len(s.volatile) : r.volatile[j] = s.volatile[j]
    BY <1>1, <2>2 DEF i
  <2>6. r \in Stores
    BY <1>1, <2>1, <2>2, <2>3, <2>5 DEF Stores
  <2>7. SameBut(s, r)
    BY <2>2, <2>3, <2>4, <2>6 DEF SameBut
  <2>8. VolatileEntries(r)
    <3>1. SUFFICES ASSUME NEW x \in DOMAIN s.map, r.map[x].vslot # 0
                   PROVE  r.map[x].vslot \in 1 .. i /\ r.volatile[r.map[x].vslot] = x
      BY <2>3, <2>5 DEF VolatileEntries
    <3>2. CASE x = k
      BY <2>0, <2>4, <2>5, <3>2
    <3>3. CASE x # k
      <4>1. s.map[x].vslot \in 1 .. Len(s.volatile) /\ s.volatile[s.map[x].vslot] = x
        BY <2>3, <3>1, <3>3 DEF VolatileEntries
      <4>2. PICK j \in 1 .. Len(s.volatile) : j = s.map[x].vslot
        BY <4>1
      <4> QED
        BY <1>1, <2>3, <2>5, <3>3, <4>1, <4>2 DEF i
    <3> QED
      BY <3>2, <3>3
  <2>9. VolatileSlots(r, 0)
    <3>1. SUFFICES ASSUME NEW j \in 1 .. i
                   PROVE  r.volatile[j] \in DOMAIN s.map /\ r.map[r.volatile[j]].vslot = j
      BY <2>3, <2>5 DEF VolatileSlots
    <3>2. CASE j = i
      BY <2>4, <2>5, <3>2
    <3>3. CASE j # i
      <4>1. j \in 1 .. Len(s.volatile) /\ j # 0
        BY <1>1, <3>3 DEF i
      <4>2. s.volatile[j] \in DOMAIN s.map /\ s.map[s.volatile[j]].vslot = j
        BY <4>1 DEF VolatileSlots
      <4> QED
        BY <1>2, <2>3, <2>5, <4>1, <4>2
    <3> QED
      BY <3>2, <3>3
  <2>10. \A x \in DOMAIN r.map : r.map[x].vslot = 0 <=> r.map[x].expireAt = Never
    <3>1. SUFFICES ASSUME NEW x \in DOMAIN s.map
                   PROVE  r.map[x].vslot = 0 <=> r.map[x].expireAt = Never
      BY <2>3
    <3>2. CASE x = k
      BY <1>2, <2>0, <2>4, <3>2
    <3>3. CASE x # k
      BY <2>3, <3>3 DEF VolatileKinds
    <3> QED
      BY <3>2, <3>3
  <2> QED
    BY <2>6, <2>7, <2>8, <2>9, <2>10, VolatileParts
<1>3. CASE e.expireAt = Never /\ e.vslot # 0
  <2> DEFINE u == [s EXCEPT !.map = [s.map EXCEPT ![k].vslot = 0]]
             i == e.vslot
  <2>0. 0 \in Nat
    OBVIOUS
  <2>1. r = DetachVolatile(u, i)
    BY <1>1, <1>3 DEF SyncVolatile, Stores
  <2>2. /\ u.volatile = s.volatile /\ u.keys = s.keys /\ u.dirty = s.dirty
        /\ u.map = [s.map EXCEPT ![k].vslot = 0]
    BY <1>1 DEF Stores
  <2> HIDE DEF u
  <2>3. /\ u.map \in Bindings
        /\ DOMAIN u.map = DOMAIN s.map
        /\ u.map[k] = [s.map[k] EXCEPT !.vslot = 0]
        /\ \A x \in DOMAIN s.map \ {k} : u.map[x] = s.map[x]
    BY <1>0, <2>0, <2>2, SetVSlot
  <2>4. /\ u.map[k].vslot = 0 /\ u.map[k].value = e.value
        /\ u.map[k].expireAt = e.expireAt /\ u.map[k].slot = e.slot
    BY <1>1, <2>3 DEF Entry
  <2>5. u \in Stores
    BY <1>1, <2>2, <2>3 DEF Stores, u
  <2>6. i \in 1 .. Len(u.volatile) /\ s.volatile[i] = k
    BY <1>3, <2>2 DEF VolatileEntries
  <2>7. VolatileEntries(u)
    BY <2>2, <2>3, <2>4 DEF VolatileEntries
  <2>8. VolatileSlots(u, i)
    BY <1>1, <2>2, <2>3, <2>4, <2>6 DEF VolatileSlots
  <2>9. \A x \in DOMAIN u.map : u.map[x].vslot # i
    <3>1. SUFFICES ASSUME NEW x \in DOMAIN u.map, u.map[x].vslot = i
                   PROVE  FALSE
      OBVIOUS
    <3>2. x # k /\ u.map[x] = s.map[x]
      BY <1>3, <2>3, <2>4, <3>1
    <3> QED
      BY <1>3, <2>3, <2>6, <3>1, <3>2 DEF VolatileEntries
  <2>10. /\ SameBut(u, r) /\ VolatileEntries(r) /\ VolatileSlots(r, 0)
         /\ \A x \in DOMAIN u.map : r.map[x].vslot = 0 <=> u.map[x].vslot = 0
    BY <2>1, <2>5, <2>6, <2>7, <2>8, <2>9, DetachVolatileFacts
  <2>11. SameBut(s, r)
    BY <2>2, <2>3, <2>4, <2>10 DEF SameBut
  <2>12. \A x \in DOMAIN r.map : r.map[x].vslot = 0 <=> r.map[x].expireAt = Never
    <3>1. \A x \in DOMAIN u.map : u.map[x].vslot = 0 <=> u.map[x].expireAt = Never
      <4>1. SUFFICES ASSUME NEW x \in DOMAIN s.map
                     PROVE  u.map[x].vslot = 0 <=> u.map[x].expireAt = Never
        BY <2>3
      <4>2. CASE x = k
        BY <1>3, <2>4, <4>2
      <4>3. CASE x # k
        BY <2>3, <4>3 DEF VolatileKinds
      <4> QED
        BY <4>2, <4>3
    <3> QED
      BY <2>10, <3>1 DEF SameBut
  <2> QED
    BY <2>10, <2>11, <2>12, VolatileParts DEF SameBut
<1>4. CASE (e.vslot = 0) <=> (e.expireAt = Never)
  <2>1. r = s
    BY <1>4 DEF SyncVolatile
  <2>2. \A x \in DOMAIN r.map : r.map[x].vslot = 0 <=> r.map[x].expireAt = Never
    BY <1>4, <2>1 DEF VolatileKinds
  <2> QED
    BY <2>1, <2>2, VolatileParts DEF SameBut
<1> QED
  BY <1>2, <1>3, <1>4

-----------------------------------------------------------------------------
Ok(s) == s \in Stores /\ KeyIndexConsistent(s) /\ VolatileIndexConsistent(s)

\* r holds what s holds, the keys of K aside.
AgreeBut(s, r, K) ==
  \A x \in DOMAIN s.map \ K : /\ x \in DOMAIN r.map
                              /\ r.map[x].value = s.map[x].value
                              /\ r.map[x].expireAt = s.map[x].expireAt

\* r is s with v at k.
Inserts(s, r, k, v) ==
  /\ DOMAIN r.map = DOMAIN s.map \cup {k}
  /\ r.map[k].value = v
  /\ AgreeBut(s, r, {k})

\* The fields of a store have the types they should.
LEMMA StoreFields ==
  ASSUME NEW s \in Stores
  PROVE  /\ s.map \in Bindings /\ s.keys \in Seq(Keys) /\ s.volatile \in Seq(Keys)
         /\ s.dirty \in BOOLEAN
         /\ Len(s.keys) \in Nat /\ Len(s.volatile) \in Nat
         /\ \A x \in DOMAIN s.map : x \in Keys /\ s.map[x] \in Entry
BY BindingsFacts DEF Stores

\* A step on the volatile index leaves the key index consistent.
LEMMA KeyIndexSameBut ==
  ASSUME NEW s, NEW r, SameBut(s, r), KeyIndexConsistent(s)
  PROVE  KeyIndexConsistent(r)
BY DEF SameBut, KeyIndexConsistent

\* insert_entry keeps both indexes consistent, for a fresh key and for an
\* overwrite, and binds the key to the value and the expiry given.
LEMMA InsertEntryFacts ==
  ASSUME NEW s, Ok(s), NEW k \in Keys, NEW v \in Value, NEW at \in Expiry,
         NEW r, r = InsertEntry(s, k, v, at)
  PROVE  /\ Ok(r)
         /\ Inserts(s, r, k, v)
         /\ r.map[k].expireAt = at
<1>1. s \in Stores
  BY DEF Ok
<1>2. /\ s.map \in Bindings /\ s.keys \in Seq(Keys) /\ s.volatile \in Seq(Keys)
      /\ s.dirty \in BOOLEAN
      /\ Len(s.keys) \in Nat /\ Len(s.volatile) \in Nat
      /\ \A x \in DOMAIN s.map : x \in Keys /\ s.map[x] \in Entry
  BY <1>1, StoreFields
<1>3. /\ VolatileEntries(s) /\ VolatileSlots(s, 0)
      /\ \A x \in DOMAIN s.map : s.map[x].vslot = 0 <=> s.map[x].expireAt = Never
  BY <1>1, VolatileParts DEF Ok
<1> DEFINE slot  == IF Has(s, k) THEN s.map[k].slot ELSE Len(s.keys) + 1
           vslot == IF Has(s, k) THEN s.map[k].vslot ELSE 0
           e     == [value |-> v, expireAt |-> at, slot |-> slot, vslot |-> vslot]
           m     == Put(s.map, k, e)
           q     == IF Has(s, k) THEN s.keys ELSE Append(s.keys, k)
           u     == [s EXCEPT !.map = m, !.keys = q]
<1>4. slot \in Nat /\ vslot \in Nat
  BY <1>2 DEF Has, Entry
<1>5. /\ e \in Entry /\ e.value = v /\ e.expireAt = at
      /\ e.slot = slot /\ e.vslot = vslot
  BY <1>4 DEF Entry
<1>6. r = SyncVolatile(u, k)
  BY DEF InsertEntry
<1>7. q \in Seq(Keys)
  BY <1>2
<1> HIDE DEF e
<1>0. s.map \in Bindings /\ e \in Entry
  BY <1>2, <1>5
<1>8. /\ m \in Bindings
      /\ DOMAIN m = DOMAIN s.map \cup {k}
      /\ m[k] = e
      /\ \A x \in DOMAIN s.map \ {k} : m[x] = s.map[x]
  BY <1>0, PutFacts
<1> HIDE DEF m
<1> HIDE DEF q
<1>9. u \in Stores /\ u.map = m /\ u.keys = q /\ u.volatile = s.volatile /\ u.dirty = s.dirty
  BY <1>1, <1>2, <1>7, <1>8 DEF Stores
<1> HIDE DEF u
<1>10. KeyIndexConsistent(u)
  <2>1. CASE Has(s, k)
    <3>1. q = s.keys /\ slot = s.map[k].slot /\ DOMAIN m = DOMAIN s.map
      BY <2>1, <1>8 DEF q, Has
    <3>2. \A x \in DOMAIN s.map : m[x].slot = s.map[x].slot
      BY <1>5, <1>8, <3>1
    <3> QED
      BY <1>9, <3>1, <3>2 DEF KeyIndexConsistent, Ok
  <2>2. CASE ~Has(s, k)
    <3>1. /\ q = Append(s.keys, k) /\ slot = Len(s.keys) + 1 /\ k \notin DOMAIN s.map
      BY <2>2 DEF q, Has
    <3>2. /\ Len(q) = Len(s.keys) + 1 /\ q[Len(s.keys) + 1] = k
          /\ \A j \in 1 .. Len(s.keys) : q[j] = s.keys[j]
      BY <1>2, <3>1
    <3>3. ASSUME NEW x \in DOMAIN u.map
          PROVE  u.map[x].slot \in 1 .. Len(u.keys) /\ u.keys[u.map[x].slot] = x
      <4>1. CASE x = k
        BY <1>2, <1>5, <1>8, <1>9, <3>1, <3>2, <4>1
      <4>2. CASE x # k
        <5>1. x \in DOMAIN s.map /\ u.map[x] = s.map[x]
          BY <1>8, <1>9, <4>2
        <5>2. PICK j \in 1 .. Len(s.keys) : j = s.map[x].slot /\ s.keys[j] = x
          BY <5>1 DEF KeyIndexConsistent, Ok
        <5> QED
          BY <1>2, <1>9, <3>2, <5>1, <5>2
      <4> QED
        BY <4>1, <4>2
    <3>4. ASSUME NEW j \in 1 .. Len(u.keys)
          PROVE  u.keys[j] \in DOMAIN u.map /\ u.map[u.keys[j]].slot = j
      <4>1. CASE j = Len(s.keys) + 1
        BY <1>5, <1>8, <1>9, <3>1, <3>2, <4>1
      <4>2. CASE j # Len(s.keys) + 1
        <5>1. j \in 1 .. Len(s.keys)
          BY <1>2, <1>9, <3>2, <4>2
        <5>2. s.keys[j] \in DOMAIN s.map /\ s.map[s.keys[j]].slot = j
          BY <5>1 DEF KeyIndexConsistent, Ok
        <5> QED
          BY <1>8, <1>9, <3>1, <3>2, <5>1, <5>2
      <4> QED
        BY <4>1, <4>2
    <3> QED
      BY <3>3, <3>4 DEF KeyIndexConsistent
  <2> QED
    BY <2>1, <2>2
<1>11. \A x \in DOMAIN s.map : m[x].vslot = s.map[x].vslot
  BY <1>5, <1>8 DEF Has
<1>12. ~Has(s, k) => m[k].vslot = 0
  BY <1>5, <1>8
<1>13. VolatileEntries(u)
  BY <1>8, <1>9, <1>11, <1>12, <1>3 DEF VolatileEntries, Has
<1>14. VolatileSlots(u, 0)
  BY <1>8, <1>9, <1>11, <1>3 DEF VolatileSlots
<1>15. VolatileKinds(u, k)
  BY <1>8, <1>9, <1>3 DEF VolatileKinds
<1>16. SameBut(u, r) /\ VolatileIndexConsistent(r)
  BY <1>6, <1>8, <1>9, <1>13, <1>14, <1>15, SyncVolatileFacts
<1>17. Ok(r)
  BY <1>10, <1>16, KeyIndexSameBut DEF Ok, SameBut
<1> QED
  BY <1>5, <1>8, <1>9, <1>16, <1>17 DEF SameBut, AgreeBut, Inserts

\* remove_entry keeps both indexes consistent whichever keys move into the
\* holes, and unbinds the key.
LEMMA RemoveEntryFacts ==
  ASSUME NEW s, Ok(s), NEW k \in DOMAIN s.map, NEW r, r = RemoveEntry(s, k)
  PROVE  /\ Ok(r)
         /\ DOMAIN r.map = DOMAIN s.map \ {k}
         /\ AgreeBut(s, r, {k})
<1>1. s \in Stores
  BY DEF Ok
<1>2. /\ s.map \in Bindings /\ s.keys \in Seq(Keys) /\ s.volatile \in Seq(Keys)
      /\ s.dirty \in BOOLEAN
      /\ Len(s.keys) \in Nat /\ Len(s.volatile) \in Nat
      /\ \A x \in DOMAIN s.map : x \in Keys /\ s.map[x] \in Entry
  BY <1>1, StoreFields
<1>3. /\ VolatileEntries(s) /\ VolatileSlots(s, 0)
      /\ \A x \in DOMAIN s.map : s.map[x].vslot = 0 <=> s.map[x].expireAt = Never
  BY <1>1, VolatileParts DEF Ok
<1> DEFINE n == Len(s.keys)
           i == s.map[k].slot
           q == SwapRemove(s.keys, i)
           m == Without(s.map, k)
           p == IF i \in 1 .. Len(q) /\ q[i] \in DOMAIN m
                THEN [m EXCEPT ![q[i]].slot = i] ELSE m
           u == [s EXCEPT !.keys = q, !.map = p]
           j == s.map[k].vslot
<1>4. i \in 1 .. n /\ s.keys[i] = k
  BY DEF KeyIndexConsistent, Ok
<1>5. /\ q \in Seq(Keys)
      /\ Len(q) = n - 1
      /\ \A y \in 1 .. n - 1 : q[y] = IF y = i THEN s.keys[n] ELSE s.keys[y]
  BY <1>2, <1>4, SwapRemoveFacts
<1>6. /\ m \in Bindings
      /\ DOMAIN m = DOMAIN s.map \ {k}
      /\ \A x \in DOMAIN s.map \ {k} : m[x] = s.map[x]
  BY <1>2, WithoutFacts
<1>7. r = IF j # 0 THEN DetachVolatile(u, j) ELSE u
  BY DEF RemoveEntry
<1> HIDE DEF n, i, q, m
\* The key moved into the hole, and what the map says of it.
<1>8. /\ p \in Bindings
      /\ DOMAIN p = DOMAIN m
      /\ \A x \in DOMAIN m : /\ p[x].value = s.map[x].value
                             /\ p[x].expireAt = s.map[x].expireAt
                             /\ p[x].vslot = s.map[x].vslot
                             /\ p[x].slot = IF i # n /\ x = s.keys[n] THEN i ELSE s.map[x].slot
  <2>1. CASE i = n
    <3>1. p = m
      BY <1>2, <1>5, <2>1 DEF n
    <3> HIDE DEF p
    <3>2. \A x \in DOMAIN m : p[x] = s.map[x]
      BY <1>6, <3>1
    <3> QED
      BY <1>6, <2>1, <3>1, <3>2
  <2>2. CASE i # n
    <3> DEFINE y == s.keys[n]
    <3>1. n \in 1 .. n /\ i \in 1 .. n - 1 /\ i \in Nat
      BY <1>2, <1>4, <2>2 DEF n
    <3>2. y \in DOMAIN s.map /\ s.map[y].slot = n
      BY <3>1 DEF KeyIndexConsistent, Ok, n
    <3>3. y \in DOMAIN m /\ m[y] = s.map[y]
      BY <1>6, <2>2, <3>2 DEF i
    <3>4. q[i] = y /\ i \in 1 .. Len(q)
      BY <1>5, <3>1
    <3>5. p = [m EXCEPT ![y].slot = i]
      BY <3>3, <3>4
    <3>6. /\ p \in Bindings
          /\ DOMAIN p = DOMAIN m
          /\ p[y] = [m[y] EXCEPT !.slot = i]
          /\ \A x \in DOMAIN m \ {y} : p[x] = m[x]
      BY <1>6, <3>1, <3>3, <3>5, SetSlot
    <3>7. /\ p[y].slot = i /\ p[y].value = m[y].value
          /\ p[y].expireAt = m[y].expireAt /\ p[y].vslot = m[y].vslot
      BY <1>2, <3>2, <3>3, <3>6 DEF Entry
    <3> HIDE DEF p
    <3> QED
      BY <1>6, <2>2, <3>3, <3>6, <3>7
  <2> QED
    BY <2>1, <2>2
<1> HIDE DEF p
<1>9. u \in Stores /\ u.map = p /\ u.keys = q /\ u.volatile = s.volatile /\ u.dirty = s.dirty
  BY <1>1, <1>2, <1>5, <1>8 DEF Stores
<1> HIDE DEF u
<1>10. KeyIndexConsistent(u)
  <2>1. ASSUME NEW x \in DOMAIN p
        PROVE  p[x].slot \in 1 .. Len(q) /\ q[p[x].slot] = x
    <3>1. x \in DOMAIN s.map /\ x # k
      BY <1>6, <1>8
    <3>2. PICK y \in 1 .. n : y = s.map[x].slot /\ s.keys[y] = x
      BY <3>1 DEF KeyIndexConsistent, Ok, n
    <3>3. y # i
      BY <1>4, <3>1, <3>2
    <3>4. CASE y = n
      <4>1. p[x].slot = i /\ i \in 1 .. n - 1
        BY <1>2, <1>4, <1>8, <3>2, <3>3, <3>4 DEF n
      <4> QED
        BY <1>5, <3>2, <3>4, <4>1
    <3>5. CASE y # n
      <4>1. x # s.keys[n]
        BY <1>2, <3>2, <3>5 DEF KeyIndexConsistent, Ok, n
      <4>2. p[x].slot = y /\ y \in 1 .. n - 1
        BY <1>2, <1>8, <3>2, <3>5, <4>1 DEF n
      <4> QED
        BY <1>5, <3>2, <3>3, <4>2
    <3> QED
      BY <3>4, <3>5
  <2>2. ASSUME NEW y \in 1 .. Len(q)
        PROVE  q[y] \in DOMAIN p /\ p[q[y]].slot = y
    <3>1. y \in 1 .. n - 1 /\ y \in 1 .. n /\ n \in 1 .. n
      BY <1>2, <1>5 DEF n
    <3>2. CASE y = i
      <4>1. q[y] = s.keys[n] /\ i # n
        BY <1>2, <1>5, <3>1, <3>2 DEF n
      <4>2. s.keys[n] \in DOMAIN s.map /\ s.map[s.keys[n]].slot = n
        BY <3>1 DEF KeyIndexConsistent, Ok, n
      <4>3. s.keys[n] # k
        BY <4>1, <4>2 DEF i
      <4> QED
        BY <1>6, <1>8, <3>2, <4>1, <4>2, <4>3
    <3>3. CASE y # i
      <4>1. q[y] = s.keys[y]
        BY <1>5, <3>1, <3>3
      <4>2. s.keys[y] \in DOMAIN s.map /\ s.map[s.keys[y]].slot = y
        BY <3>1 DEF KeyIndexConsistent, Ok, n
      <4>3. s.keys[y] # k
        BY <3>3, <4>2 DEF i
      <4>4. s.keys[y] # s.keys[n]
        <5>1. s.map[s.keys[n]].slot = n
          BY <3>1 DEF KeyIndexConsistent, Ok, n
        <5> QED
          BY <1>2, <3>1, <4>2, <5>1 DEF n
      <4> QED
        BY <1>6, <1>8, <4>1, <4>2, <4>3, <4>4
    <3> QED
      BY <3>2, <3>3
  <2> QED
    BY <1>9, <2>1, <2>2 DEF KeyIndexConsistent
<1>11. VolatileEntries(u)
  BY <1>3, <1>6, <1>8, <1>9 DEF VolatileEntries
<1>12. \A x \in DOMAIN u.map : u.map[x].vslot = 0 <=> u.map[x].expireAt = Never
  BY <1>3, <1>6, <1>8, <1>9
<1>13. CASE j # 0
  <2>1. j \in 1 .. Len(u.volatile) /\ u.volatile[j] = k
    BY <1>3, <1>9, <1>13 DEF VolatileEntries
  <2>2. VolatileSlots(u, j)
    <3>1. SUFFICES ASSUME NEW y \in 1 .. Len(s.volatile), y # j
                   PROVE  s.volatile[y] \in DOMAIN p /\ p[s.volatile[y]].vslot = y
      BY <1>9 DEF VolatileSlots
    <3>2. s.volatile[y] \in DOMAIN s.map /\ s.map[s.volatile[y]].vslot = y
      BY <1>2, <1>3, <3>1 DEF VolatileSlots
    <3>3. s.volatile[y] # k
      BY <3>1, <3>2
    <3> QED
      BY <1>6, <1>8, <3>2, <3>3
  <2>3. ASSUME NEW x \in DOMAIN u.map
        PROVE  u.map[x].vslot # j
    <3>1. x \in DOMAIN s.map /\ x # k /\ u.map[x].vslot = s.map[x].vslot
      BY <1>6, <1>8, <1>9
    <3> QED
      BY <1>3, <1>13, <3>1 DEF VolatileEntries
  <2> HIDE DEF j
  <2>4. /\ SameBut(u, r) /\ VolatileEntries(r) /\ VolatileSlots(r, 0)
        /\ \A x \in DOMAIN u.map : r.map[x].vslot = 0 <=> u.map[x].vslot = 0
    BY <1>7, <1>9, <1>11, <1>13, <2>1, <2>2, <2>3, DetachVolatileFacts
  <2>5. r \in Stores /\ DOMAIN r.map = DOMAIN u.map
    BY <2>4 DEF SameBut
  <2>6. \A x \in DOMAIN r.map : r.map[x].vslot = 0 <=> r.map[x].expireAt = Never
    BY <1>12, <2>4 DEF SameBut
  <2>7. VolatileIndexConsistent(r)
    BY <2>4, <2>5, <2>6, VolatileParts
  <2>8. KeyIndexConsistent(r)
    BY <1>10, <2>4, KeyIndexSameBut
  <2> QED
    BY <1>6, <1>8, <1>9, <2>4, <2>5, <2>7, <2>8 DEF SameBut, Ok, AgreeBut
<1>14. CASE j = 0
  <2>1. r = u
    BY <1>7, <1>14
  <2>2. VolatileSlots(u, 0)
    <3>1. SUFFICES ASSUME NEW y \in 1 .. Len(s.volatile)
                   PROVE  s.volatile[y] \in DOMAIN p /\ p[s.volatile[y]].vslot = y
      BY <1>9 DEF VolatileSlots
    <3>2. s.volatile[y] \in DOMAIN s.map /\ s.map[s.volatile[y]].vslot = y /\ y # 0
      BY <1>2, <1>3 DEF VolatileSlots
    <3>3. s.volatile[y] # k
      BY <1>14, <3>2
    <3> QED
      BY <1>6, <1>8, <3>2, <3>3
  <2>3. VolatileIndexConsistent(u)
    BY <1>9, <1>11, <1>12, <2>2, VolatileParts
  <2> QED
    BY <1>6, <1>8, <1>9, <1>10, <2>1, <2>3 DEF Ok, AgreeBut
<1> QED
  BY <1>13, <1>14

-----------------------------------------------------------------------------
\* A consistent store in which only the keys of K may hold an empty collection.
Good(s, K) ==
  /\ Ok(s)
  /\ \A x \in DOMAIN s.map \ K : ~IsEmptyCollection(s.map[x].value)

\* The entries of a good store have the types they should.
LEMMA GoodFields ==
  ASSUME NEW s, NEW K, Good(s, K)
  PROVE  /\ s \in Stores
         /\ DOMAIN s.map \subseteq Keys
         /\ \A x \in DOMAIN s.map : /\ s.map[x] \in Entry
                                    /\ s.map[x].value \in Value
                                    /\ s.map[x].value.size \in Nat
                                    /\ s.map[x].value.type \in StoreType
                                    /\ s.map[x].expireAt \in Expiry
<1>1. s \in Stores
  BY DEF Good, Ok
<1>2. \A x \in DOMAIN s.map : x \in Keys /\ s.map[x] \in Entry
  BY <1>1, StoreFields
<1> QED
  BY <1>1, <1>2 DEF Entry, Value

\* Allowing more keys to be empty is weaker.
LEMMA GoodWeaken ==
  ASSUME NEW s, NEW K, NEW L, Good(s, K), K \subseteq L
  PROVE  Good(s, L)
BY DEF Good

\* Counting a change changes nothing else.
LEMMA MarkDirtyFacts ==
  ASSUME NEW s, NEW K, Good(s, K), NEW r, r = MarkDirty(s)
  PROVE  Good(r, K) /\ r.map = s.map
<1>1. s \in Stores
  BY DEF Good, Ok
<1>2. /\ r \in Stores /\ r.map = s.map /\ r.keys = s.keys /\ r.volatile = s.volatile
  BY <1>1 DEF MarkDirty, Stores
<1>3. KeyIndexConsistent(r) /\ VolatileIndexConsistent(r)
  BY <1>2 DEF Good, Ok, KeyIndexConsistent, VolatileIndexConsistent
<1> QED
  BY <1>2, <1>3 DEF Good, Ok

\* Removing a key leaves a good store, the key no longer excused.
LEMMA RemoveGood ==
  ASSUME NEW s, NEW K, Good(s, K), NEW k \in DOMAIN s.map,
         NEW r, r = MarkDirty(RemoveEntry(s, k))
  PROVE  /\ Good(r, K \ {k})
         /\ DOMAIN r.map = DOMAIN s.map \ {k}
         /\ \A x \in DOMAIN r.map : /\ r.map[x].value = s.map[x].value
                                    /\ r.map[x].expireAt = s.map[x].expireAt
<1>1. PICK u : u = RemoveEntry(s, k)
  OBVIOUS
<1>2. Ok(u) /\ DOMAIN u.map = DOMAIN s.map \ {k} /\ AgreeBut(s, u, {k})
  BY <1>1, RemoveEntryFacts DEF Good
<1>3. Good(u, K \ {k})
  BY <1>2 DEF Good, AgreeBut
<1>4. Good(r, K \ {k}) /\ r.map = u.map
  BY <1>1, <1>3, MarkDirtyFacts
<1> QED
  BY <1>2, <1>4 DEF AgreeBut

\* Binding a key to a value leaves a good store, the key excused only if
\* the value is an empty collection.
LEMMA InsertGood ==
  ASSUME NEW s, NEW K, Good(s, K), NEW k \in Keys, NEW v \in Value, NEW at \in Expiry,
         NEW r, r = MarkDirty(InsertEntry(s, k, v, at))
  PROVE  /\ Good(r, K \cup {k})
         /\ ~IsEmptyCollection(v) => Good(r, K \ {k})
         /\ Inserts(s, r, k, v)
<1>1. PICK u : u = InsertEntry(s, k, v, at)
  OBVIOUS
<1>2. /\ Ok(u) /\ DOMAIN u.map = DOMAIN s.map \cup {k} /\ u.map[k].value = v
      /\ AgreeBut(s, u, {k})
  <2>1. Ok(s)
    BY DEF Good
  <2>2. Ok(u) /\ Inserts(s, u, k, v)
    BY <1>1, <2>1, InsertEntryFacts
  <2> QED
    BY <2>2 DEF Inserts
<1>3. Good(u, K \cup {k})
  BY <1>2 DEF Good, AgreeBut
<1>4. ASSUME ~IsEmptyCollection(v) PROVE Good(u, K \ {k})
  BY <1>2, <1>4 DEF Good, AgreeBut
<1>5. Good(r, K \cup {k}) /\ r.map = u.map
  BY <1>1, <1>3, MarkDirtyFacts
<1>6. ASSUME ~IsEmptyCollection(v) PROVE Good(r, K \ {k})
  BY <1>1, <1>4, <1>6, MarkDirtyFacts
<1> QED
  BY <1>2, <1>5, <1>6 DEF Inserts, AgreeBut

\* A lookup leaves a good store: it may drop the key, and changes no value.
LEMMA FindFacts ==
  ASSUME NEW s, NEW K, Good(s, K), NEW k, NEW t, NEW r, r = Find(s, k, t)
  PROVE  /\ Good(r, K)
         /\ DOMAIN r.map \subseteq DOMAIN s.map
         /\ \A x \in DOMAIN r.map : r.map[x].value = s.map[x].value
<1>1. CASE Has(s, k) /\ ~IsLive(s.map[k], t)
  <2>1. k \in DOMAIN s.map /\ r = MarkDirty(RemoveEntry(s, k))
    BY <1>1 DEF Find, Has
  <2>2. Good(r, K \ {k}) /\ DOMAIN r.map = DOMAIN s.map \ {k}
        /\ \A x \in DOMAIN r.map : r.map[x].value = s.map[x].value
    BY <2>1, RemoveGood
  <2> QED
    BY <2>2, GoodWeaken
<1>2. CASE ~(Has(s, k) /\ ~IsLive(s.map[k], t))
  BY <1>2 DEF Find
<1> QED
  BY <1>1, <1>2

\* Del leaves a good store.
LEMMA DelFacts ==
  ASSUME NEW s, NEW K, Good(s, K), NEW k, NEW t, NEW r, r = Del(s, k, t)
  PROVE  Good(r, K)
<1>1. PICK f : f = Find(s, k, t)
  OBVIOUS
<1>2. Good(f, K)
  BY <1>1, FindFacts
<1>3. CASE Has(f, k)
  <2>1. r = MarkDirty(RemoveEntry(f, k)) /\ k \in DOMAIN f.map
    BY <1>1, <1>3 DEF Del, Has
  <2>2. Good(r, K \ {k})
    BY <1>2, <2>1, RemoveGood
  <2> QED
    BY <2>2, GoodWeaken
<1>4. CASE ~Has(f, k)
  BY <1>1, <1>2, <1>4 DEF Del
<1> QED
  BY <1>3, <1>4

\* delete_if_empty excuses nothing any more: whatever became of the key in
\* the meantime, no empty collection is left.
LEMMA DeleteIfEmptyFacts ==
  ASSUME NEW s, NEW k, Good(s, {k}), NEW t, NEW r, r = DeleteIfEmpty(s, k, t)
  PROVE  Good(r, {})
<1>1. PICK f : f = Find(s, k, t)
  OBVIOUS
<1>2. Good(f, {k})
  BY <1>1, FindFacts
<1>3. CASE Has(f, k) /\ IsEmptyCollection(f.map[k].value)
  <2>1. r = MarkDirty(RemoveEntry(f, k)) /\ k \in DOMAIN f.map
    BY <1>1, <1>3 DEF DeleteIfEmpty, Has
  <2>2. Good(r, {k} \ {k})
    BY <1>2, <2>1, RemoveGood
  <2> QED
    BY <2>2, GoodWeaken
<1>4. CASE ~(Has(f, k) /\ IsEmptyCollection(f.map[k].value))
  <2>1. r = f
    BY <1>1, <1>4 DEF DeleteIfEmpty
  <2> QED
    BY <1>2, <1>4, <2>1 DEF Good, Has
<1> QED
  BY <1>3, <1>4

\* Installing a value leaves a good store.
LEMMA InstallFacts ==
  ASSUME NEW s, NEW K, Good(s, K), NEW k \in Keys, NEW v \in Value,
         NEW r, r = Install(s, k, v)
  PROVE  /\ Good(r, K \cup {k})
         /\ ~IsEmptyCollection(v) => Good(r, K)
         /\ Inserts(s, r, k, v)
<1>1. Never \in Expiry
  BY DEF Expiry
<1>2. r = MarkDirty(InsertEntry(s, k, v, Never))
  BY DEF Install
<1>3. /\ Good(r, K \cup {k})
      /\ ~IsEmptyCollection(v) => Good(r, K \ {k})
      /\ Inserts(s, r, k, v)
  BY <1>1, <1>2, InsertGood
<1>4. Good(r, K \ {k}) => Good(r, K)
  BY GoodWeaken
<1> QED
  BY <1>3, <1>4

\* Overwriting a value in place leaves both indexes alone.
LEMMA SetValueFacts ==
  ASSUME NEW s, NEW K, Good(s, K), NEW k \in DOMAIN s.map, NEW v \in Value,
         NEW r, r = [s EXCEPT !.map = [s.map EXCEPT ![k].value = v]]
  PROVE  /\ Good(r, K \cup {k})
         /\ ~IsEmptyCollection(v) => Good(r, K \ {k})
         /\ Inserts(s, r, k, v)
<1>1. s \in Stores
  BY DEF Good, Ok
<1>2. /\ s.map \in Bindings /\ \A x \in DOMAIN s.map : s.map[x] \in Entry
  BY <1>1, StoreFields
<1> DEFINE m == [s.map EXCEPT ![k].value = v]
<1>3. m \in [DOMAIN s.map -> Entry]
  BY <1>2, BindingsFacts DEF Entry
<1>4. m \in Bindings
  BY <1>2, <1>3, BindingsFacts, BindingsIntro
<1>5. /\ m[k].value = v
      /\ \A x \in DOMAIN s.map : /\ m[x].slot = s.map[x].slot
                                 /\ m[x].vslot = s.map[x].vslot
                                 /\ m[x].expireAt = s.map[x].expireAt
                                 /\ x # k => m[x].value = s.map[x].value
  BY <1>2, BindingsFacts DEF Entry
<1> HIDE DEF m
<1>6. /\ r \in Stores /\ r.map = m /\ r.keys = s.keys /\ r.volatile = s.volatile
  BY <1>1, <1>4 DEF Stores, m
<1>7. KeyIndexConsistent(r) /\ VolatileIndexConsistent(r)
  BY <1>3, <1>5, <1>6, SMTT(30) DEF Good, Ok, KeyIndexConsistent, VolatileIndexConsistent
<1> QED
  BY <1>3, <1>5, <1>6, <1>7 DEF Good, Ok, Inserts, AgreeBut

\* The same keys with values of the same types.
SameTypes(s, r) ==
  /\ DOMAIN r.map = DOMAIN s.map
  /\ \A x \in DOMAIN s.map : r.map[x].value.type = s.map[x].value.type

\* Resizing a value in place leaves a good store, the key excused only if a
\* collection became empty.
LEMMA SetSizeFacts ==
  ASSUME NEW s, NEW K, Good(s, K), NEW k \in DOMAIN s.map, NEW n \in Nat,
         NEW r, r = SetSize(s, k, n)
  PROVE  /\ Good(r, K \cup {k})
         /\ n > 0 \/ s.map[k].value.type \notin Collections => Good(r, K \ {k})
         /\ SameTypes(s, r)
<1>1. s.map[k] \in Entry /\ s.map[k].value \in Value /\ s \in Stores
  BY GoodFields
<1>2. s.map \in Bindings /\ s.map \in [DOMAIN s.map -> Entry]
  BY <1>1, BindingsFacts DEF Stores
<1> DEFINE v == [s.map[k].value EXCEPT !.size = n]
           m == [s.map EXCEPT ![k].value = v]
<1>2a. PICK u : u = [s EXCEPT !.map = m]
  OBVIOUS
<1>3. v \in Value /\ v.type = s.map[k].value.type /\ v.size = n
  BY <1>1 DEF Value
<1>4. r = MarkDirty(u)
  BY <1>1, <1>2, <1>2a DEF SetSize, Stores
<1>5. n > 0 \/ v.type \notin Collections => ~IsEmptyCollection(v)
  BY <1>3 DEF IsEmptyCollection
<1> HIDE DEF v
<1>6. /\ Good(u, K \cup {k})
      /\ ~IsEmptyCollection(v) => Good(u, K \ {k})
      /\ Inserts(s, u, k, v)
  BY <1>2a, <1>3, SetValueFacts
<1>7. Good(r, K \cup {k}) /\ r.map = u.map
  BY <1>4, <1>6, MarkDirtyFacts
<1>8. ~IsEmptyCollection(v) => Good(r, K \ {k})
  BY <1>4, <1>6, MarkDirtyFacts
<1> QED
  BY <1>3, <1>5, <1>6, <1>7, <1>8 DEF Inserts, SameTypes, AgreeBut

\* set_expire_at, which moves keys into and out of the volatile index,
\* leaves a good store.
LEMMA SetExpireAtFacts ==
  ASSUME NEW s, NEW K, Good(s, K), NEW k, NEW at \in Expiry, NEW t,
         NEW r, r = SetExpireAt(s, k, at, t)
  PROVE  Good(r, K)
<1>1. PICK f : f = Find(s, k, t)
  OBVIOUS
<1>2. Good(f, K)
  BY <1>1, FindFacts
<1>3. CASE Has(f, k)
  <2>1. /\ f \in Stores /\ k \in DOMAIN f.map
        /\ f.map \in Bindings /\ \A x \in DOMAIN f.map : f.map[x] \in Entry
    BY <1>2, <1>3, StoreFields DEF Good, Ok, Has
  <2> DEFINE m == [f.map EXCEPT ![k].expireAt = at]
  <2>2. PICK u : u = [f EXCEPT !.map = m]
    OBVIOUS
  <2>3. PICK w : w = SyncVolatile(u, k)
    OBVIOUS
  <2>4. r = MarkDirty(w)
    BY <1>1, <1>3, <2>1, <2>2, <2>3 DEF SetExpireAt, Stores
  <2>5. m \in [DOMAIN f.map -> Entry]
    BY <2>1, BindingsFacts DEF Entry
  <2>6. m \in Bindings
    BY <2>1, <2>5, BindingsFacts, BindingsIntro
  <2>7. \A x \in DOMAIN f.map : /\ m[x].slot = f.map[x].slot
                                /\ m[x].vslot = f.map[x].vslot
                                /\ m[x].value = f.map[x].value
                                /\ x # k => m[x].expireAt = f.map[x].expireAt
    BY <2>1, BindingsFacts DEF Entry
  <2> HIDE DEF m
  <2>8. /\ u \in Stores /\ u.map = m /\ u.keys = f.keys /\ u.volatile = f.volatile
    BY <2>1, <2>2, <2>6 DEF Stores
  <2>9. KeyIndexConsistent(u)
    BY <1>2, <2>5, <2>7, <2>8 DEF Good, Ok, KeyIndexConsistent
  <2>10. /\ VolatileEntries(f) /\ VolatileSlots(f, 0)
         /\ \A x \in DOMAIN f.map : f.map[x].vslot = 0 <=> f.map[x].expireAt = Never
    BY <1>2, <2>1, VolatileParts DEF Good, Ok
  <2>11. VolatileEntries(u) /\ VolatileSlots(u, 0) /\ VolatileKinds(u, k)
    BY <2>5, <2>7, <2>8, <2>10 DEF VolatileEntries, VolatileSlots, VolatileKinds
  <2>12. k \in DOMAIN u.map
    BY <2>1, <2>5, <2>8
  <2>13. SameBut(u, w) /\ VolatileIndexConsistent(w)
    BY <2>3, <2>8, <2>11, <2>12, SyncVolatileFacts
  <2>14. Ok(w)
    BY <2>9, <2>13, KeyIndexSameBut DEF Ok, SameBut
  <2>15. Good(w, K)
    BY <1>2, <2>5, <2>7, <2>8, <2>13, <2>14 DEF Good, SameBut
  <2> QED
    BY <2>4, <2>15, MarkDirtyFacts
<1>4. CASE ~Has(f, k)
  BY <1>1, <1>2, <1>4 DEF SetExpireAt
<1> QED
  BY <1>3, <1>4

\* A string is a value and never an empty collection.
LEMMA StringFacts ==
  ASSUME NEW n \in Nat
  PROVE  /\ String(n) \in Value /\ ~IsEmptyCollection(String(n))
         /\ String(n) = [type |-> "string", size |-> n]
BY CollectionsAssumption DEF String, Value, StoreType, IsEmptyCollection

\* update_string leaves a good store.
LEMMA UpdateStringFacts ==
  ASSUME NEW s, Good(s, {}), NEW k \in Keys, NEW n \in Nat, NEW t,
         NEW r, r = UpdateString(s, k, n, t)
  PROVE  Good(r, {})
<1>1. PICK f : f = Find(s, k, t)
  OBVIOUS
<1>2. Good(f, {})
  BY <1>1, FindFacts
<1>3. PICK v : v = String(n)
  OBVIOUS
<1>4. v \in Value /\ ~IsEmptyCollection(v) /\ v = [type |-> "string", size |-> n]
  BY <1>3, StringFacts
<1>5. CASE Has(f, k)
  <2>1. k \in DOMAIN f.map /\ f \in Stores
    BY <1>2, <1>5 DEF Has, Good, Ok
  <2>2. PICK u : u = [f EXCEPT !.map = [f.map EXCEPT ![k].value = v]]
    OBVIOUS
  <2>3. r = MarkDirty(u)
    BY <1>1, <1>3, <1>5, <2>1, <2>2 DEF UpdateString, Stores
  <2>4. Good(u, {} \ {k})
    BY <1>2, <1>4, <2>1, <2>2, SetValueFacts
  <2>5. Good(u, {})
    BY <2>4, GoodWeaken
  <2> QED
    BY <2>3, <2>5, MarkDirtyFacts
<1>6. CASE ~Has(f, k)
  <2>1. r = Install(f, k, v)
    BY <1>1, <1>3, <1>6 DEF UpdateString
  <2> QED
    BY <1>2, <1>4, <2>1, InstallFacts
<1> QED
  BY <1>5, <1>6

\* get_or_create_* binds the key, possibly to an empty collection.
LEMMA GetOrCreateFacts ==
  ASSUME NEW s, NEW K, Good(s, K), NEW k \in Keys, NEW type \in Collections, NEW t,
         NEW r, r = GetOrCreate(s, k, type, t)
  PROVE  /\ Good(r, K \cup {k})
         /\ k \in DOMAIN r.map
<1>1. PICK f : f = Find(s, k, t)
  OBVIOUS
<1>2. Good(f, K)
  BY <1>1, FindFacts
<1>3. CASE Has(f, k)
  <2>1. r = MarkDirty(f) /\ k \in DOMAIN f.map
    BY <1>1, <1>3 DEF GetOrCreate, Has
  <2>2. Good(r, K) /\ r.map = f.map
    BY <1>2, <2>1, MarkDirtyFacts
  <2> QED
    BY <2>1, <2>2, GoodWeaken
<1>4. CASE ~Has(f, k)
  <2>1. PICK v : v = [type |-> type, size |-> 0]
    OBVIOUS
  <2>2. v \in Value
    BY <2>1 DEF Value, StoreType
  <2>3. r = Install(f, k, v)
    BY <1>1, <1>4, <2>1 DEF GetOrCreate
  <2>4. Good(r, K \cup {k}) /\ Inserts(f, r, k, v)
    BY <1>2, <2>2, <2>3, InstallFacts
  <2> QED
    BY <2>4 DEF Inserts
<1> QED
  BY <1>3, <1>4

\* rename leaves a good store.
LEMMA RenameFacts ==
  ASSUME NEW s, Good(s, {}), NEW k, NEW new \in Keys, NEW t,
         NEW r, r = Rename(s, k, new, t)
  PROVE  Good(r, {})
<1>1. PICK f : f = Find(s, k, t)
  OBVIOUS
<1>2. Good(f, {})
  BY <1>1, FindFacts
<1>3. CASE ~Has(f, k) \/ k = new
  BY <1>1, <1>2, <1>3 DEF Rename
<1>4. CASE Has(f, k) /\ k # new
  <2>1. k \in DOMAIN f.map
    BY <1>4 DEF Has
  <2>2. PICK u : u = RemoveEntry(f, k)
    OBVIOUS
  <2>3. PICK v, at : v = f.map[k].value /\ at = f.map[k].expireAt
    OBVIOUS
  <2>4. v \in Value /\ at \in Expiry
    BY <1>2, <2>1, <2>3, GoodFields
  <2>5. ~IsEmptyCollection(v)
    BY <1>2, <2>1, <2>3 DEF Good
  <2>6. Ok(u) /\ DOMAIN u.map = DOMAIN f.map \ {k} /\ AgreeBut(f, u, {k})
    BY <1>2, <2>1, <2>2, RemoveEntryFacts DEF Good
  <2>7. Good(u, {})
    BY <1>2, <2>6 DEF Good, AgreeBut
  <2>8. r = MarkDirty(InsertEntry(u, new, v, at))
    BY <1>1, <1>4, <2>2, <2>3 DEF Rename
  <2>9. Good(r, {} \ {new})
    BY <2>4, <2>5, <2>7, <2>8, InsertGood
  <2> QED
    BY <2>9, GoodWeaken
<1> QED
  BY <1>3, <1>4

\* The empty store is good.
LEMMA EmptyStoreGood ==
  ASSUME NEW b \in BOOLEAN, NEW r,
         r = [map |-> [k \in {} |-> k], keys |-> <<>>, volatile |-> <<>>, dirty |-> b]
  PROVE  Good(r, {})
<1>1. /\ r.map = [k \in {} |-> k] /\ r.keys = <<>> /\ r.volatile = <<>> /\ r.dirty = b
  OBVIOUS
<1>2. [k \in {} |-> k] \in [{} -> Entry]
  OBVIOUS
<1>3. [k \in {} |-> k] \in Bindings
  BY <1>2, BindingsIntro
<1>4. r \in Stores
  <2>1. <<>> \in Seq(Keys)
    OBVIOUS
  <2> QED
    BY <1>1, <1>3, <2>1 DEF Stores
<1> QED
  BY <1>1, <1>4 DEF Good, Ok, KeyIndexConsistent, VolatileIndexConsistent

-----------------------------------------------------------------------------
(***************************************************************************)
(* What a store holds, its indexes left aside, and what the methods make   *)
(* of it.  Every one of them either changes it and moves the counter of    *)
(* unsaved changes, or leaves the store as it is.                          *)
(***************************************************************************)
Contents(s) ==
  [x \in DOMAIN s.map |-> [value |-> s.map[x].value, expireAt |-> s.map[x].expireAt]]

\* Two stores hold the same if they bind the same keys to the same.
LEMMA ContentsIntro ==
  ASSUME NEW s, NEW m, m = [x \in DOMAIN m |-> m[x]],
         DOMAIN s.map = DOMAIN m,
         \A x \in DOMAIN m : m[x] = [value |-> s.map[x].value, expireAt |-> s.map[x].expireAt]
  PROVE  Contents(s) = m
BY DEF Contents

LEMMA MarkDirtyContents ==
  ASSUME NEW s, NEW K, Good(s, K), NEW r, r = MarkDirty(s)
  PROVE  Contents(r) = Contents(s) /\ r.dirty = TRUE
<1>1. s \in Stores
  BY DEF Good, Ok
<1>2. r.map = s.map /\ r.dirty = TRUE
  BY <1>1 DEF MarkDirty, Stores
<1> QED
  BY <1>2 DEF Contents

LEMMA RemoveContents ==
  ASSUME NEW s, NEW K, Good(s, K), NEW k \in DOMAIN s.map,
         NEW r, r = MarkDirty(RemoveEntry(s, k))
  PROVE  Contents(r) = Without(Contents(s), k) /\ r.dirty = TRUE
<1>1. PICK u : u = RemoveEntry(s, k)
  OBVIOUS
<1>2. Ok(u) /\ DOMAIN u.map = DOMAIN s.map \ {k} /\ AgreeBut(s, u, {k})
  BY <1>1, RemoveEntryFacts DEF Good
<1>3. Good(u, K)
  BY <1>2 DEF Good, AgreeBut
<1>4. Contents(u) = Without(Contents(s), k)
  BY <1>2 DEF Contents, Without, AgreeBut
<1> QED
  BY <1>1, <1>3, <1>4, MarkDirtyContents

LEMMA InsertContents ==
  ASSUME NEW s, NEW K, Good(s, K), NEW k \in Keys, NEW v \in Value, NEW at \in Expiry,
         NEW r, r = MarkDirty(InsertEntry(s, k, v, at))
  PROVE  /\ Contents(r) = Put(Contents(s), k, [value |-> v, expireAt |-> at])
         /\ r.dirty = TRUE
<1>1. PICK u : u = InsertEntry(s, k, v, at)
  OBVIOUS
<1>2. Ok(s)
  BY DEF Good
<1>3. Ok(u) /\ Inserts(s, u, k, v) /\ u.map[k].expireAt = at
  BY <1>1, <1>2, InsertEntryFacts
<1>4. Good(u, K \cup {k})
  BY <1>3 DEF Good, Inserts, AgreeBut
<1>5. Contents(u) = Put(Contents(s), k, [value |-> v, expireAt |-> at])
  BY <1>3 DEF Contents, Put, Inserts, AgreeBut
<1> QED
  BY <1>1, <1>4, <1>5, MarkDirtyContents

LEMMA InstallContents ==
  ASSUME NEW s, NEW K, Good(s, K), NEW k \in Keys, NEW v \in Value,
         NEW r, r = Install(s, k, v)
  PROVE  /\ Contents(r) = Put(Contents(s), k, [value |-> v, expireAt |-> Never])
         /\ r.dirty = TRUE
<1>1. Never \in Expiry
  BY DEF Expiry
<1> QED
  BY <1>1, InsertContents DEF Install

\* A lookup drops the key if its deadline has passed.
LEMMA FindContents ==
  ASSUME NEW s, NEW K, Good(s, K), NEW k, NEW t, NEW r, r = Find(s, k, t)
  PROVE  IF k \in DOMAIN s.map /\ ~IsLive(s.map[k], t)
         THEN Contents(r) = Without(Contents(s), k) /\ r.dirty = TRUE
         ELSE r = s
<1>1. CASE k \in DOMAIN s.map /\ ~IsLive(s.map[k], t)
  <2>1. r = MarkDirty(RemoveEntry(s, k))
    BY <1>1 DEF Find, Has
  <2> QED
    BY <1>1, <2>1, RemoveContents
<1>2. CASE ~(k \in DOMAIN s.map /\ ~IsLive(s.map[k], t))
  BY <1>2 DEF Find, Has
<1> QED
  BY <1>1, <1>2

\* After the lookup the key is there exactly if it was, and is live.
LEMMA FindHas ==
  ASSUME NEW s, NEW K, Good(s, K), NEW k, NEW t, NEW r, r = Find(s, k, t)
  PROVE  /\ Has(r, k) <=> k \in DOMAIN s.map /\ IsLive(s.map[k], t)
         /\ Has(r, k) => r = s
<1>1. CASE k \in DOMAIN s.map /\ ~IsLive(s.map[k], t)
  <2>1. Contents(r) = Without(Contents(s), k)
    BY <1>1, FindContents
  <2>2. DOMAIN r.map = DOMAIN Contents(r) /\ DOMAIN Without(Contents(s), k) = DOMAIN s.map \ {k}
    BY DEF Contents, Without
  <2> QED
    BY <1>1, <2>1, <2>2 DEF Has
<1>2. CASE ~(k \in DOMAIN s.map /\ ~IsLive(s.map[k], t))
  <2>1. r = s
    BY <1>2 DEF Find, Has
  <2> QED
    BY <1>2, <2>1 DEF Has
<1> QED
  BY <1>1, <1>2

LEMMA DelContents ==
  ASSUME NEW s, NEW K, Good(s, K), NEW k, NEW t, NEW r, r = Del(s, k, t)
  PROVE  IF k \in DOMAIN s.map
         THEN Contents(r) = Without(Contents(s), k) /\ r.dirty = TRUE
         ELSE r = s
<1>1. PICK f : f = Find(s, k, t)
  OBVIOUS
<1>2. /\ Has(f, k) <=> k \in DOMAIN s.map /\ IsLive(s.map[k], t)
      /\ Has(f, k) => f = s
  BY <1>1, FindHas
<1>3. CASE Has(f, k)
  <2>1. r = MarkDirty(RemoveEntry(s, k)) /\ k \in DOMAIN s.map
    BY <1>1, <1>2, <1>3 DEF Del
  <2> QED
    BY <2>1, RemoveContents
<1>4. CASE ~Has(f, k)
  <2>1. r = f
    BY <1>1, <1>4 DEF Del
  <2> QED
    BY <1>1, <1>2, <1>4, <2>1, FindContents
<1> QED
  BY <1>3, <1>4

LEMMA DeleteIfEmptyContents ==
  ASSUME NEW s, NEW K, Good(s, K), NEW k, NEW t, NEW r, r = DeleteIfEmpty(s, k, t)
  PROVE  IF k \in DOMAIN s.map /\ (~IsLive(s.map[k], t) \/ IsEmptyCollection(s.map[k].value))
         THEN Contents(r) = Without(Contents(s), k) /\ r.dirty = TRUE
         ELSE r = s
<1>1. PICK f : f = Find(s, k, t)
  OBVIOUS
<1>2. /\ Has(f, k) <=> k \in DOMAIN s.map /\ IsLive(s.map[k], t)
      /\ Has(f, k) => f = s
  BY <1>1, FindHas
<1>3. CASE Has(f, k) /\ IsEmptyCollection(f.map[k].value)
  <2>1. r = MarkDirty(RemoveEntry(s, k)) /\ k \in DOMAIN s.map
    BY <1>1, <1>2, <1>3 DEF DeleteIfEmpty
  <2>2. Contents(r) = Without(Contents(s), k) /\ r.dirty = TRUE
    BY <2>1, RemoveContents
  <2> QED
    BY <1>2, <1>3, <2>2
<1>4. CASE ~(Has(f, k) /\ IsEmptyCollection(f.map[k].value))
  <2>1. r = f
    BY <1>1, <1>4 DEF DeleteIfEmpty
  <2>2. CASE k \in DOMAIN s.map /\ ~IsLive(s.map[k], t)
    <3>1. Contents(f) = Without(Contents(s), k) /\ f.dirty = TRUE
      BY <1>1, <2>2, FindContents
    <3> QED
      BY <2>1, <2>2, <3>1
  <2>3. CASE ~(k \in DOMAIN s.map /\ ~IsLive(s.map[k], t))
    <3>1. f = s
      BY <1>1, <2>3 DEF Find, Has
    <3> QED
      BY <1>4, <2>1, <2>3, <3>1 DEF Has
  <2> QED
    BY <2>2, <2>3
<1> QED
  BY <1>3, <1>4

LEMMA SetSizeContents ==
  ASSUME NEW s, NEW K, Good(s, K), NEW k \in DOMAIN s.map, NEW n \in Nat,
         NEW r, r = SetSize(s, k, n)
  PROVE  /\ Contents(r) = Put(Contents(s), k,
                              [value |-> [type |-> s.map[k].value.type, size |-> n],
                               expireAt |-> s.map[k].expireAt])
         /\ r.dirty = TRUE
<1>1. /\ s \in Stores /\ s.map[k] \in Entry /\ s.map[k].value \in Value
  BY GoodFields
<1>2. s.map \in Bindings /\ s.map \in [DOMAIN s.map -> Entry]
  BY <1>1, BindingsFacts DEF Stores
<1> DEFINE v == [type |-> s.map[k].value.type, size |-> n]
           m == [s.map EXCEPT ![k].value = v]
<1>3. [s.map[k].value EXCEPT !.size = n] = v
  BY <1>1 DEF Value
<1>4. r.map = [s.map EXCEPT ![k].value = [s.map[k].value EXCEPT !.size = n]] /\ r.dirty = TRUE
  BY <1>1, <1>2 DEF SetSize, MarkDirty, Stores
<1>5. r.map = m
  BY <1>3, <1>4
<1>6. /\ DOMAIN m = DOMAIN s.map /\ m[k].value = v
      /\ \A x \in DOMAIN s.map : /\ m[x].expireAt = s.map[x].expireAt
                                 /\ x # k => m[x].value = s.map[x].value
  BY <1>2 DEF Entry
<1> HIDE DEF m, v
<1>7. Contents(r) = Put(Contents(s), k, [value |-> v, expireAt |-> s.map[k].expireAt])
  BY <1>5, <1>6 DEF Contents, Put
<1> QED
  BY <1>4, <1>7 DEF v

LEMMA SetExpireAtContents ==
  ASSUME NEW s, NEW K, Good(s, K), NEW k, NEW at \in Expiry, NEW t,
         NEW r, r = SetExpireAt(s, k, at, t)
  PROVE  IF k \in DOMAIN s.map /\ IsLive(s.map[k], t)
         THEN /\ Contents(r) = Put(Contents(s), k, [value |-> s.map[k].value, expireAt |-> at])
              /\ r.dirty = TRUE
         ELSE r = Find(s, k, t)
<1>1. PICK f : f = Find(s, k, t)
  OBVIOUS
<1>2. /\ Has(f, k) <=> k \in DOMAIN s.map /\ IsLive(s.map[k], t)
      /\ Has(f, k) => f = s
  BY <1>1, FindHas
<1>3. CASE Has(f, k)
  <2>1. /\ s \in Stores /\ k \in DOMAIN s.map
        /\ s.map \in Bindings /\ \A x \in DOMAIN s.map : s.map[x] \in Entry
    BY <1>2, <1>3, StoreFields DEF Good, Ok
  <2> DEFINE m == [s.map EXCEPT ![k].expireAt = at]
  <2>2. PICK u : u = [s EXCEPT !.map = m]
    OBVIOUS
  <2>3. PICK w : w = SyncVolatile(u, k)
    OBVIOUS
  <2>4. r = MarkDirty(w)
    BY <1>1, <1>2, <1>3, <2>1, <2>2, <2>3 DEF SetExpireAt, Stores
  <2>5. m \in [DOMAIN s.map -> Entry]
    BY <2>1, BindingsFacts DEF Entry
  <2>6. m \in Bindings
    BY <2>1, <2>5, BindingsFacts, BindingsIntro
  <2>7. /\ m[k].expireAt = at
        /\ \A x \in DOMAIN s.map : /\ m[x].slot = s.map[x].slot
                                   /\ m[x].vslot = s.map[x].vslot
                                   /\ m[x].value = s.map[x].value
                                   /\ x # k => m[x].expireAt = s.map[x].expireAt
    BY <2>1, BindingsFacts DEF Entry
  <2> HIDE DEF m
  <2>8. /\ u \in Stores /\ u.map = m /\ u.keys = s.keys /\ u.volatile = s.volatile
    BY <2>1, <2>2, <2>6 DEF Stores
  <2>9. /\ VolatileEntries(s) /\ VolatileSlots(s, 0)
        /\ \A x \in DOMAIN s.map : s.map[x].vslot = 0 <=> s.map[x].expireAt = Never
    BY <2>1, VolatileParts DEF Good, Ok
  <2>10. VolatileEntries(u) /\ VolatileSlots(u, 0) /\ VolatileKinds(u, k)
    BY <2>5, <2>7, <2>8, <2>9 DEF VolatileEntries, VolatileSlots, VolatileKinds
  <2>11. k \in DOMAIN u.map
    BY <2>1, <2>5, <2>8
  <2>12. SameBut(u, w)
    BY <2>3, <2>8, <2>10, <2>11, SyncVolatileFacts
  <2>13. r.map = w.map /\ r.dirty = TRUE
    BY <2>4, <2>12 DEF SameBut, MarkDirty, Stores
  <2>14. /\ DOMAIN r.map = DOMAIN s.map
         /\ \A x \in DOMAIN s.map : r.map[x].value = m[x].value /\ r.map[x].expireAt = m[x].expireAt
    BY <2>5, <2>8, <2>12, <2>13 DEF SameBut
  <2>15. Contents(r) = Put(Contents(s), k, [value |-> s.map[k].value, expireAt |-> at])
    BY <2>1, <2>7, <2>14 DEF Contents, Put
  <2> QED
    BY <1>2, <1>3, <2>13, <2>15
<1>4. CASE ~Has(f, k)
  BY <1>1, <1>2, <1>4 DEF SetExpireAt
<1> QED
  BY <1>3, <1>4

=============================================================================
