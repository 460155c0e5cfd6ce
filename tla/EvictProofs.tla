---------------------------- MODULE EvictProofs ----------------------------
(***************************************************************************)
(* Eviction, for every number of keys, draws, rounds, settings and bits of *)
(* the frequency counter.  The argument goes bottom up: what decay and a   *)
(* hit make of an access record, what the methods of Store make of a store *)
(* and its records, one lemma per command, what min_by_key finds, and the  *)
(* invariant the five properties follow from.                              *)
(***************************************************************************)
EXTENDS Evict, KeyspaceProofs, FiniteSetTheorems, WellFoundedInduction

-----------------------------------------------------------------------------
(***************************************************************************)
(* Arithmetic that the backends do not know.                               *)
(***************************************************************************)

\* A set of numbers that has a member has a least one.
LEMMA NatMin ==
  ASSUME NEW S \in SUBSET Nat, S # {}
  PROVE  \E x \in S : \A y \in S : x <= y
<1> DEFINE R == OpToRel(<, Nat)
<1>1. IsWellFoundedOn(R, Nat)
  BY NatLessThanWellFounded
<1>2. \A x, y \in Nat : x < y => <<x, y>> \in R
  BY Zenon DEF OpToRel
<1> HIDE DEF R
<1>3. PICK x \in S : \A y \in S : ~(<<y, x>> \in R)
  BY <1>1, WFMin
<1>4. ASSUME NEW y \in S
      PROVE  x <= y
  <2>1. x \in Nat /\ y \in Nat
    OBVIOUS
  <2>2. ~(y < x)
    BY <1>2, <1>3, <2>1, Zenon
  <2> QED
    BY <2>1, <2>2
<1> QED
  BY <1>4

\* A power of two is a positive number: it counts the subsets of 1 .. n.
LEMMA PowerPositive ==
  ASSUME NEW n \in Nat
  PROVE  2 ^ n \in Nat \ {0}
<1>1. IsFiniteSet(1 .. n) /\ Cardinality(1 .. n) = n
  BY FS_Interval
<1>2. IsFiniteSet(SUBSET (1 .. n)) /\ Cardinality(SUBSET (1 .. n)) = 2 ^ Cardinality(1 .. n)
  BY <1>1, FS_SUBSET
<1>3. Cardinality(SUBSET (1 .. n)) = 2 ^ n
  BY <1>1, <1>2, Zenon
<1>4. SUBSET (1 .. n) # {}
  OBVIOUS
<1>5. Cardinality(SUBSET (1 .. n)) \in Nat /\ Cardinality(SUBSET (1 .. n)) # 0
  BY <1>2, <1>4, FS_CardinalityType, FS_EmptySet
<1> QED
  BY <1>3, <1>5, Zenon

\* Shifting by nothing divides by one.
LEMMA PowerZero == 2 ^ 0 = 1
<1>1. IsFiniteSet({}) /\ Cardinality({}) = 0
  BY FS_EmptySet
<1>2. Cardinality(SUBSET {}) = 2 ^ Cardinality({})
  BY <1>1, FS_SUBSET
<1>3. SUBSET {} = {{}}
  OBVIOUS
<1>4. Cardinality({{}}) = 1
  BY FS_Singleton
<1> QED
  BY <1>1, <1>2, <1>3, <1>4, Zenon

\* The quotient by a positive number is no greater than the dividend.
LEMMA QuotientBound ==
  ASSUME NEW f \in Nat, NEW d \in Nat \ {0}
  PROVE  f \div d \in Nat /\ f \div d <= f /\ f \div 1 = f
OBVIOUS

\* The counter has room for what a new entry starts with.
LEMMA TopFacts == Top \in Nat /\ 1 <= Top /\ LfuInit \in Nat /\ 1 <= LfuInit /\ LfuInit <= Top
<1>1. PICK p : p = 2 ^ Bits
  OBVIOUS
<1>2. p \in Nat
  BY <1>1, PowerPositive, BitsAssumption
<1>3. Top = p - 1
  BY <1>1, Zenon DEF Top
<1> QED
  BY <1>2, <1>3, BitsAssumption

-----------------------------------------------------------------------------
(***************************************************************************)
(* Access records.                                                         *)
(***************************************************************************)
\* An access record as the store holds them at time c of the clock: the
\* counter is never at rest on zero, and no stamp is of the future.
Stamped(a, c) ==
  /\ a \in Access
  /\ a.freq # 0
  /\ a.at <= c
  /\ a.decayedAt <= minute

\* Decay leaves a counter of as many bits, and takes nothing within a minute.
LEMMA DecayedFreqFacts ==
  ASSUME minute \in Nat, NEW a \in Access, a.decayedAt <= minute
  PROVE  /\ DecayedFreq(a) \in Nat /\ DecayedFreq(a) <= Top
         /\ minute - a.decayedAt >= Bits => DecayedFreq(a) = 0
         /\ a.decayedAt = minute => DecayedFreq(a) = a.freq
<1>1. PICK n : n = minute - a.decayedAt
  OBVIOUS
<1>2. /\ a.freq \in Nat /\ a.freq <= Top /\ a.decayedAt \in Nat /\ Bits \in Nat \ {0}
      /\ n \in Nat
  BY <1>1, TopFacts, BitsAssumption DEF Access
<1>3. PICK d : d = 2 ^ n
  OBVIOUS
<1>4. d \in Nat \ {0}
  BY <1>2, <1>3, PowerPositive
<1>5. DecayedFreq(a) = IF n >= Bits THEN 0 ELSE a.freq \div d
  BY <1>1, <1>3, Zenon DEF DecayedFreq
<1>6. a.freq \div d \in Nat /\ a.freq \div d <= a.freq /\ a.freq \div 1 = a.freq
  BY <1>2, <1>4, QuotientBound
<1>7. a.decayedAt = minute => n = 0
  BY <1>1, <1>2
<1>8. n = 0 => d = 1
  BY <1>3, PowerZero, Zenon
<1>9. DecayedFreq(a) \in Nat /\ DecayedFreq(a) <= Top
  BY <1>2, <1>5, <1>6, TopFacts
<1>10. n >= Bits => DecayedFreq(a) = 0
  BY <1>5
<1>11. n = 0 => DecayedFreq(a) = a.freq
  <2> SUFFICES ASSUME n = 0 PROVE DecayedFreq(a) = a.freq
    OBVIOUS
  <2>1. d = 1 /\ ~(n >= Bits)
    BY <1>2, <1>8
  <2>2. DecayedFreq(a) = a.freq \div 1
    BY <1>5, <2>1, Zenon
  <2> QED
    BY <1>6, <2>2, Zenon
<1> QED
  BY <1>1, <1>7, <1>9, <1>10, <1>11

\* A hit leaves a counter that is neither zero nor beyond its width, and
\* stamps the record with the time and the minute.
LEMMA RecordHitFacts ==
  ASSUME minute \in Nat, NEW c \in Nat, NEW a, Stamped(a, c), NEW at \in Nat,
         NEW counts \in BOOLEAN
  PROVE  Stamped(RecordHit(a, at, counts), at) /\ RecordHit(a, at, counts).at = at
<1>1. PICK f : f = DecayedFreq(a)
  OBVIOUS
<1>2. f \in Nat /\ f <= Top
  BY <1>1, DecayedFreqFacts DEF Stamped
<1>3. PICK g : g = IF f < Top /\ (f <= LfuInit \/ counts) THEN f + 1 ELSE f
  OBVIOUS
<1>4. g \in 0 .. Top /\ g # 0
  BY <1>2, <1>3, TopFacts
<1>5. RecordHit(a, at, counts) = [at |-> at, freq |-> g, decayedAt |-> minute]
  BY <1>1, <1>3 DEF RecordHit
<1> QED
  BY <1>4, <1>5 DEF Stamped, Access

\* So does the record of a new entry.
LEMMA NewAccessFacts ==
  ASSUME minute \in Nat, NEW c \in Nat
  PROVE  Stamped(NewAccess(c), c) /\ NewAccess(c).at = c
<1>1. LfuInit \in 0 .. Top /\ LfuInit # 0
  BY TopFacts
<1> QED
  BY <1>1 DEF Stamped, Access, NewAccess

-----------------------------------------------------------------------------
(***************************************************************************)
(* The methods of Store on [store, access, clock].                         *)
(***************************************************************************)
\* A consistent store whose entries each have an access record.
Fits(h) ==
  /\ Good(h.store, {})
  /\ \A k \in DOMAIN h.store.map : h.store.map[k].value.size \in Sizes
  /\ h.clock \in Nat
  /\ h.access \in [DOMAIN h.store.map -> Access]
  /\ \A k \in DOMAIN h.store.map : Stamped(h.access[k], h.clock)

\* g may come after h: the keys of U aside an access record is what it was,
\* and no record is older than the one it replaced or than the clock then.
Follows(h, g, U) ==
  /\ Fits(g)
  /\ g.clock >= h.clock
  /\ \A k \in DOMAIN g.store.map \ U : k \in DOMAIN h.store.map /\ g.access[k] = h.access[k]
  /\ \A k \in DOMAIN g.store.map :
       \/ k \in DOMAIN h.store.map /\ g.access[k].at >= h.access[k].at
       \/ g.access[k].at >= h.clock

\* Nothing is new, and no value has changed.
Frees(s, r) ==
  /\ DOMAIN r.map \subseteq DOMAIN s.map
  /\ \A x \in DOMAIN r.map : r.map[x].value = s.map[x].value

\* The access records of a fitting store are numbers and in order.
LEMMA FitsFields ==
  ASSUME NEW h, Fits(h)
  PROVE  /\ h.clock \in Nat
         /\ \A k \in DOMAIN h.store.map :
              h.access[k] \in Access /\ h.access[k].at \in Nat /\ h.access[k].at <= h.clock
BY DEF Fits, Stamped, Access

\* Nothing has to happen.
LEMMA FollowsSelf ==
  ASSUME NEW h, Fits(h), NEW U
  PROVE  Follows(h, h, U)
BY FitsFields DEF Follows

\* What may come after what may come after may come after.
LEMMA FollowsTrans ==
  ASSUME NEW h, NEW f, NEW g, NEW U, NEW V, Fits(h), Follows(h, f, U), Follows(f, g, V)
  PROVE  Follows(h, g, U \cup V)
<1>1. Fits(f) /\ Fits(g)
  BY DEF Follows
<1>2. h.clock \in Nat /\ f.clock \in Nat /\ g.clock \in Nat
  BY <1>1, FitsFields
<1>3. g.clock >= h.clock
  BY <1>2 DEF Follows
<1>4. \A k \in DOMAIN g.store.map \ (U \cup V) :
        k \in DOMAIN h.store.map /\ g.access[k] = h.access[k]
  BY DEF Follows
<1>5. ASSUME NEW k \in DOMAIN g.store.map
      PROVE  \/ k \in DOMAIN h.store.map /\ g.access[k].at >= h.access[k].at
             \/ g.access[k].at >= h.clock
  <2>1. g.access[k].at \in Nat
    BY <1>1, FitsFields
  <2>2. CASE g.access[k].at >= f.clock
    BY <1>2, <2>1, <2>2 DEF Follows
  <2>3. CASE k \in DOMAIN f.store.map /\ g.access[k].at >= f.access[k].at
    <3>1. f.access[k].at \in Nat
      BY <1>1, <2>3, FitsFields
    <3>2. CASE f.access[k].at >= h.clock
      BY <1>2, <2>1, <2>3, <3>1, <3>2
    <3>3. CASE k \in DOMAIN h.store.map /\ f.access[k].at >= h.access[k].at
      <4>1. h.access[k].at \in Nat
        BY <3>3, FitsFields
      <4> QED
        BY <2>1, <2>3, <3>1, <3>3, <4>1
    <3> QED
      BY <2>3, <3>2, <3>3 DEF Follows
  <2> QED
    BY <2>2, <2>3 DEF Follows
<1> QED
  BY <1>1, <1>3, <1>4, <1>5 DEF Follows

\* A key that is gone need not be excused.
LEMMA FollowsLess ==
  ASSUME NEW h, NEW g, NEW U, NEW V, Follows(h, g, U),
         \A k \in U \ V : k \notin DOMAIN g.store.map
  PROVE  Follows(h, g, V)
BY DEF Follows

\* Removing a key frees its value.
LEMMA RemoveFrees ==
  ASSUME NEW s, Good(s, {}), NEW k \in DOMAIN s.map,
         NEW r, r = MarkDirty(RemoveEntry(s, k))
  PROVE  Good(r, {}) /\ Frees(s, r) /\ DOMAIN r.map = DOMAIN s.map \ {k}
<1>1. PICK K : K = {}
  OBVIOUS
<1>2. /\ Good(r, K \ {k})
      /\ DOMAIN r.map = DOMAIN s.map \ {k}
      /\ \A x \in DOMAIN r.map : r.map[x].value = s.map[x].value
  BY <1>1, RemoveGood
<1>3. Good(r, K)
  BY <1>2, GoodWeaken
<1> QED
  BY <1>1, <1>2, <1>3 DEF Frees

\* A lookup either drops the key or leaves the store as it is, in which
\* case the key, if it is there, is live.
LEMMA FindCases ==
  ASSUME NEW s, Good(s, {}), NEW k, NEW t, NEW r, r = Find(s, k, t)
  PROVE  /\ Good(r, {})
         /\ Frees(s, r)
         /\ k \in DOMAIN r.map => k \in DOMAIN s.map /\ IsLive(s.map[k], t)
         /\ k \in DOMAIN s.map /\ IsLive(s.map[k], t) => r = s
<1>1. Good(r, {}) /\ Frees(s, r)
  BY FindFacts DEF Frees
<1>2. k \in DOMAIN s.map /\ IsLive(s.map[k], t) => r = s
  BY DEF Find, Has
<1>3. CASE k \in DOMAIN s.map /\ ~IsLive(s.map[k], t)
  <2>1. r = MarkDirty(RemoveEntry(s, k))
    BY <1>3 DEF Find, Has
  <2>2. DOMAIN r.map = DOMAIN s.map \ {k}
    BY <1>3, <2>1, RemoveGood
  <2> QED
    BY <1>1, <1>2, <2>2
<1>4. CASE k \notin DOMAIN s.map
  BY <1>1, <1>2, <1>4 DEF Frees
<1> QED
  BY <1>1, <1>2, <1>3, <1>4

\* When entries go, those that stay keep their access records.
LEMMA KeptFacts ==
  ASSUME NEW h, Fits(h), NEW s, Good(s, {}), Frees(h.store, s), NEW g, g = Kept(h, s)
  PROVE  /\ Follows(h, g, {})
         /\ g.store = s /\ g.clock = h.clock
         /\ \A k \in DOMAIN s.map : g.access[k] = h.access[k]
<1>1. /\ g.store = s /\ g.clock = h.clock
      /\ g.access = [k \in DOMAIN s.map |-> h.access[k]]
  BY DEF Kept
<1>2. \A k \in DOMAIN s.map : k \in DOMAIN h.store.map /\ g.access[k] = h.access[k]
  BY <1>1 DEF Frees
<1>3. g.access \in [DOMAIN s.map -> Access]
  BY <1>1, <1>2, FitsFields
<1>4. \A k \in DOMAIN s.map : s.map[k].value.size \in Sizes
  BY DEF Frees, Fits
<1>5. \A k \in DOMAIN s.map : Stamped(g.access[k], g.clock)
  BY <1>1, <1>2 DEF Fits
<1>6. Fits(g)
  BY <1>1, <1>3, <1>4, <1>5, FitsFields DEF Fits
<1>7. g.clock >= h.clock
  BY <1>1, FitsFields
<1>8. \A k \in DOMAIN s.map : g.access[k].at >= h.access[k].at
  BY <1>2, FitsFields
<1> QED
  BY <1>1, <1>2, <1>6, <1>7, <1>8 DEF Follows

\* Store::touch moves the clock on and stamps one record with it.
LEMMA TouchFacts ==
  ASSUME minute \in Nat, NEW h, Fits(h), NEW k \in DOMAIN h.store.map,
         NEW counts \in BOOLEAN, NEW g, g = Touch(h, k, counts)
  PROVE  /\ Follows(h, g, {k})
         /\ g.store = h.store /\ g.clock = h.clock + 1 /\ g.access[k].at = g.clock
<1>1. h.clock \in Nat /\ h.clock + 1 \in Nat
  BY FitsFields
<1>2. PICK a : a = RecordHit(h.access[k], h.clock + 1, counts)
  OBVIOUS
<1>3. Stamped(h.access[k], h.clock)
  BY DEF Fits
<1>4. Stamped(a, h.clock + 1) /\ a.at = h.clock + 1
  BY <1>1, <1>2, <1>3, RecordHitFacts
<1>5. g.store = h.store /\ g.clock = h.clock + 1 /\ g.access = Put(h.access, k, a)
  BY <1>2 DEF Touch
<1>6. /\ g.access \in [DOMAIN h.store.map -> Access]
      /\ g.access[k] = a
      /\ \A x \in DOMAIN h.store.map \ {k} : g.access[x] = h.access[x]
  <2>1. h.access \in [DOMAIN h.store.map -> Access] /\ a \in Access
    BY <1>4 DEF Fits, Stamped
  <2> QED
    BY <1>5, <2>1 DEF Put
<1>7. \A x \in DOMAIN h.store.map : Stamped(g.access[x], h.clock + 1)
  <2> SUFFICES ASSUME NEW x \in DOMAIN h.store.map, x # k
               PROVE  Stamped(h.access[x], h.clock + 1)
    BY <1>4, <1>6
  <2> QED
    BY <1>1 DEF Fits, Stamped, Access
<1>8. Fits(g)
  BY <1>1, <1>5, <1>6, <1>7 DEF Fits
<1>9. \A x \in DOMAIN h.store.map :
        x # k => g.access[x].at >= h.access[x].at
  BY <1>6, FitsFields
<1>10. g.access[k].at >= h.clock /\ g.clock >= h.clock
  BY <1>1, <1>4, <1>5, <1>6
<1> QED
  BY <1>4, <1>5, <1>6, <1>8, <1>9, <1>10 DEF Follows

\* A lookup that finds the key stamps it later than anything before; one
\* that does not leaves no trace of it.
LEMMA LookupFacts ==
  ASSUME minute \in Nat, NEW h, Fits(h), NEW k \in Keys, NEW counts \in BOOLEAN,
         NEW g, g = Lookup(h, k, counts)
  PROVE  /\ Follows(h, g, {k})
         /\ Frees(h.store, g.store)
         /\ k \in DOMAIN g.store.map =>
              /\ k \in DOMAIN h.store.map /\ IsLive(h.store.map[k], now)
              /\ g.store = h.store
              /\ g.access[k].at = g.clock /\ g.clock > h.clock
         /\ k \in DOMAIN h.store.map /\ IsLive(h.store.map[k], now) => k \in DOMAIN g.store.map
<1>1. PICK s : s = Find(h.store, k, now)
  OBVIOUS
<1>2. Good(h.store, {})
  BY DEF Fits
<1>3. /\ Good(s, {})
      /\ Frees(h.store, s)
      /\ k \in DOMAIN s.map => k \in DOMAIN h.store.map /\ IsLive(h.store.map[k], now)
      /\ k \in DOMAIN h.store.map /\ IsLive(h.store.map[k], now) => s = h.store
  BY <1>1, <1>2, FindCases
<1>4. PICK f : f = Kept(h, s)
  OBVIOUS
<1>5. Follows(h, f, {}) /\ f.store = s /\ f.clock = h.clock
  BY <1>3, <1>4, KeptFacts
<1>6. g = IF Has(f.store, k) THEN Touch(f, k, counts) ELSE f
  BY <1>1, <1>4, Zenon DEF Lookup
<1>7. Fits(f)
  BY <1>5 DEF Follows
<1>8. CASE k \in DOMAIN s.map
  <2>1. g = Touch(f, k, counts) /\ k \in DOMAIN f.store.map
    BY <1>5, <1>6, <1>8 DEF Has
  <2>2. /\ Follows(f, g, {k})
        /\ g.store = f.store /\ g.clock = f.clock + 1 /\ g.access[k].at = g.clock
    BY <1>7, <2>1, TouchFacts
  <2>3. Follows(h, g, {} \cup {k})
    BY <1>5, <2>2, FollowsTrans
  <2>4. {} \cup {k} = {k}
    OBVIOUS
  <2>5. g.clock > h.clock
    BY <1>5, <2>2, FitsFields
  <2>6. s = h.store
    BY <1>3, <1>8
  <2>7. Follows(h, g, {k})
    BY <2>3, <2>4
  <2> QED
    BY <1>3, <1>5, <1>8, <2>2, <2>5, <2>6, <2>7
<1>9. CASE k \notin DOMAIN s.map
  <2>1. g = f
    BY <1>5, <1>6, <1>9 DEF Has
  <2>2. Follows(h, g, {k})
    BY <1>5, <2>1, FollowsLess
  <2>3. ~(k \in DOMAIN h.store.map /\ IsLive(h.store.map[k], now))
    BY <1>3, <1>9
  <2> QED
    BY <1>3, <1>5, <1>9, <2>1, <2>2, <2>3
<1> QED
  BY <1>8, <1>9

\* A value the commands here store: a string.
Storable(v) == v \in Value /\ v.size \in Sizes /\ ~IsEmptyCollection(v)

\* The values of a fitting store are storable.
LEMMA FitsStorable ==
  ASSUME NEW h, Fits(h), NEW k \in DOMAIN h.store.map
  PROVE  Storable(h.store.map[k].value) /\ h.store.map[k].expireAt \in Expiry
<1>1. h.store.map[k].value \in Value /\ h.store.map[k].expireAt \in Expiry
  BY GoodFields DEF Fits
<1> QED
  BY <1>1 DEF Fits, Good, Storable

\* g is h with k added, or overwritten, and the access record a.
Adds(h, g, k, a) ==
  /\ DOMAIN g.store.map = DOMAIN h.store.map \cup {k}
  /\ g.clock = h.clock /\ g.access[k] = a

\* insert_entry with an access record of this very moment.
LEMMA InsertWithFacts ==
  ASSUME minute \in Nat, NEW h, Fits(h), NEW k \in Keys, NEW v, Storable(v),
         NEW at \in Expiry, NEW a, Stamped(a, h.clock), a.at = h.clock,
         NEW g, g = InsertWith(h, k, v, at, a)
  PROVE  Follows(h, g, {k}) /\ Adds(h, g, k, a)
<1>1. PICK s : s = MarkDirty(InsertEntry(h.store, k, v, at))
  OBVIOUS
<1>2. Good(h.store, {}) /\ v \in Value
  BY DEF Fits, Storable
<1>3. (~IsEmptyCollection(v) => Good(s, {} \ {k})) /\ Inserts(h.store, s, k, v)
  BY <1>1, <1>2, InsertGood
<1>4. Good(s, {})
  <2>1. {} \ {k} = {}
    OBVIOUS
  <2> QED
    BY <1>3, <2>1 DEF Storable
<1>5. /\ DOMAIN s.map = DOMAIN h.store.map \cup {k}
      /\ s.map[k].value = v
      /\ \A x \in DOMAIN h.store.map \ {k} : s.map[x].value = h.store.map[x].value
  BY <1>3 DEF Inserts, AgreeBut
<1>6. g.store = s /\ g.clock = h.clock /\ g.access = Put(h.access, k, a)
  BY <1>1 DEF InsertWith
<1>7. /\ g.access \in [DOMAIN s.map -> Access]
      /\ g.access[k] = a
      /\ \A x \in DOMAIN h.store.map \ {k} : g.access[x] = h.access[x]
  <2>1. h.access \in [DOMAIN h.store.map -> Access] /\ a \in Access
    BY DEF Fits, Stamped
  <2> QED
    BY <1>5, <1>6, <2>1 DEF Put
<1>8. \A x \in DOMAIN s.map : s.map[x].value.size \in Sizes
  BY <1>5 DEF Fits, Storable
<1>9. \A x \in DOMAIN s.map : Stamped(g.access[x], h.clock)
  BY <1>5, <1>7 DEF Fits
<1>10. Fits(g)
  BY <1>4, <1>6, <1>7, <1>8, <1>9, FitsFields DEF Fits
<1>11. \A x \in DOMAIN h.store.map \ {k} : g.access[x].at >= h.access[x].at
  BY <1>7, FitsFields
<1>12. g.clock >= h.clock /\ g.access[k].at >= h.clock
  BY <1>6, <1>7, FitsFields
<1> QED
  BY <1>5, <1>6, <1>7, <1>10, <1>11, <1>12 DEF Follows, Adds

\* Deleting a key frees its value.
LEMMA DelFrees ==
  ASSUME NEW s, Good(s, {}), NEW k, NEW t, NEW r, r = Del(s, k, t)
  PROVE  Good(r, {}) /\ Frees(s, r) /\ k \notin DOMAIN r.map
<1>1. Good(r, {})
  BY DelFacts
<1>2. CASE k \in DOMAIN s.map
  <2>1. Contents(r) = Without(Contents(s), k)
    BY <1>2, DelContents
  <2>2. DOMAIN Contents(r) = DOMAIN r.map
    BY DEF Contents
  <2>3. DOMAIN Without(Contents(s), k) = DOMAIN s.map \ {k}
    BY DEF Contents, Without
  <2>4. \A x \in DOMAIN r.map : r.map[x].value = Contents(r)[x].value
    BY DEF Contents
  <2>5. \A x \in DOMAIN s.map \ {k} : Without(Contents(s), k)[x].value = s.map[x].value
    BY DEF Contents, Without
  <2> QED
    BY <1>1, <2>1, <2>2, <2>3, <2>4, <2>5 DEF Frees
<1>3. CASE k \notin DOMAIN s.map
  <2>1. r = s
    BY <1>3, DelContents
  <2> QED
    BY <1>1, <1>3, <2>1 DEF Frees
<1> QED
  BY <1>2, <1>3

\* A new deadline changes no value.
LEMMA SetExpireAtFrees ==
  ASSUME NEW s, Good(s, {}), NEW k, NEW at \in Expiry, NEW t, NEW r, r = SetExpireAt(s, k, at, t)
  PROVE  Good(r, {}) /\ Frees(s, r)
<1>1. Good(r, {})
  BY SetExpireAtFacts
<1>2. CASE k \in DOMAIN s.map /\ IsLive(s.map[k], t)
  <2>1. PICK e : e = [value |-> s.map[k].value, expireAt |-> at]
    OBVIOUS
  <2>2. Contents(r) = Put(Contents(s), k, e) /\ e.value = s.map[k].value
    BY <1>2, <2>1, SetExpireAtContents
  <2>3. DOMAIN Contents(r) = DOMAIN r.map
    BY DEF Contents
  <2>4. DOMAIN Put(Contents(s), k, e) = DOMAIN s.map
    BY <1>2 DEF Contents, Put
  <2>5. \A x \in DOMAIN r.map : r.map[x].value = Contents(r)[x].value
    BY DEF Contents
  <2>6. \A x \in DOMAIN s.map : Put(Contents(s), k, e)[x].value = s.map[x].value
    BY <1>2, <2>2 DEF Contents, Put
  <2> QED
    BY <1>1, <2>2, <2>3, <2>4, <2>5, <2>6 DEF Frees
<1>3. CASE ~(k \in DOMAIN s.map /\ IsLive(s.map[k], t))
  <2>1. r = Find(s, k, t)
    BY <1>3, SetExpireAtContents
  <2> QED
    BY <2>1, FindCases
<1> QED
  BY <1>2, <1>3

-----------------------------------------------------------------------------
(***************************************************************************)
(* The commands.  A command that uses the keys U and finds those of F      *)
(* leaves the other records alone and those of F newer than all others.    *)
(***************************************************************************)
Uses(h, g, U, F) ==
  /\ Follows(h, g, U)
  /\ \A k \in F \cap DOMAIN g.store.map : g.access[k].at > h.clock

\* GET.
LEMMA GetUses ==
  ASSUME minute \in Nat, NEW h, Fits(h), NEW k \in Keys, NEW counts \in BOOLEAN,
         NEW g, g = Lookup(h, k, counts)
  PROVE  Uses(h, g, {k}, {k}) /\ Frees(h.store, g.store)
<1>1. /\ Follows(h, g, {k})
      /\ Frees(h.store, g.store)
      /\ k \in DOMAIN g.store.map => g.access[k].at = g.clock /\ g.clock > h.clock
  BY LookupFacts
<1> QED
  BY <1>1 DEF Uses

\* EXPIRE.
LEMMA ExpireUses ==
  ASSUME minute \in Nat, NEW h, Fits(h), NEW k \in Keys, NEW counts \in BOOLEAN,
         NEW at \in Nat, NEW g, g = ExpireAt(h, k, at, counts)
  PROVE  Uses(h, g, {k}, {k}) /\ Frees(h.store, g.store)
<1>1. PICK f : f = Lookup(h, k, counts)
  OBVIOUS
<1>2. Uses(h, f, {k}, {k}) /\ Frees(h.store, f.store)
  BY <1>1, GetUses
<1>3. Fits(f) /\ Good(f.store, {}) /\ at \in Expiry
  BY <1>2 DEF Uses, Follows, Fits, Expiry
<1>4. PICK s : s = SetExpireAt(f.store, k, at, now)
  OBVIOUS
<1>5. g = IF Has(f.store, k) THEN Kept(f, s) ELSE f
  BY <1>1, <1>4, Zenon DEF ExpireAt
<1>6. CASE Has(f.store, k)
  <2>1. g = Kept(f, s)
    BY <1>5, <1>6
  <2>2. Good(s, {}) /\ Frees(f.store, s)
    BY <1>3, <1>4, SetExpireAtFrees
  <2>3. /\ Follows(f, g, {}) /\ g.store = s
        /\ \A x \in DOMAIN s.map : g.access[x] = f.access[x]
    BY <1>3, <2>1, <2>2, KeptFacts
  <2>4. Follows(h, g, {k} \cup {})
    BY <1>2, <2>3, FollowsTrans DEF Uses
  <2>5. Follows(h, g, {k})
    BY <2>4, FollowsLess
  <2>6. k \in DOMAIN s.map => g.access[k].at > h.clock
    BY <1>2, <2>2, <2>3 DEF Uses, Frees
  <2> QED
    BY <1>2, <2>2, <2>3, <2>5, <2>6 DEF Uses, Frees
<1>7. CASE ~Has(f.store, k)
  BY <1>2, <1>5, <1>7
<1> QED
  BY <1>6, <1>7

\* DEL.
LEMMA DeleteUses ==
  ASSUME minute \in Nat, NEW h, Fits(h), NEW k \in Keys, NEW counts \in BOOLEAN,
         NEW g, g = Delete(h, k, counts)
  PROVE  Uses(h, g, {k}, {k}) /\ Frees(h.store, g.store)
<1>1. PICK f : f = Lookup(h, k, counts)
  OBVIOUS
<1>2. Uses(h, f, {k}, {k}) /\ Frees(h.store, f.store)
  BY <1>1, GetUses
<1>3. Fits(f) /\ Good(f.store, {})
  BY <1>2 DEF Uses, Follows, Fits
<1>4. PICK s : s = Del(f.store, k, now)
  OBVIOUS
<1>5. g = Kept(f, s)
  BY <1>1, <1>4, Zenon DEF Delete
<1>6. Good(s, {}) /\ Frees(f.store, s) /\ k \notin DOMAIN s.map
  BY <1>3, <1>4, DelFrees
<1>7. Follows(f, g, {}) /\ g.store = s
  BY <1>3, <1>5, <1>6, KeptFacts
<1>8. Follows(h, g, {k} \cup {})
  BY <1>2, <1>7, FollowsTrans DEF Uses
<1>9. Follows(h, g, {k})
  BY <1>8, FollowsLess
<1> QED
  BY <1>2, <1>6, <1>7, <1>9 DEF Uses, Frees

\* set_string.
LEMMA WriteFacts ==
  ASSUME minute \in Nat, NEW h, Fits(h), NEW k \in Keys, NEW n \in Sizes,
         NEW g, g = Write(h, k, n)
  PROVE  Follows(h, g, {k}) /\ Adds(h, g, k, NewAccess(h.clock))
<1>1. PICK a : a = NewAccess(h.clock)
  OBVIOUS
<1>2. h.clock \in Nat
  BY FitsFields
<1>3. Stamped(a, h.clock) /\ a.at = h.clock
  BY <1>1, <1>2, NewAccessFacts
<1>4. PICK v : v = String(n)
  OBVIOUS
<1>5. n \in Nat
  BY EvictInputsAssumption, MaxLenAssumption
<1>6. v \in Value /\ v.size = n /\ ~IsEmptyCollection(v)
  BY <1>4, <1>5, CollectionsAssumption
     DEF String, Value, StoreType, IsEmptyCollection
<1>6a. PICK at : at = Never
  OBVIOUS
<1>7. Storable(v) /\ at \in Expiry
  BY <1>6, <1>6a DEF Storable, Expiry
<1>8. g = InsertWith(h, k, v, at, a)
  BY <1>1, <1>4, <1>6a, Zenon DEF Write
<1>9. Follows(h, g, {k}) /\ Adds(h, g, k, a)
  BY <1>3, <1>7, <1>8, InsertWithFacts
<1> QED
  BY <1>1, <1>9

\* SET, with and without a deadline.
LEMMA SetUses ==
  ASSUME minute \in Nat, NEW h, Fits(h), NEW k \in Keys, NEW counts \in BOOLEAN,
         NEW n \in Sizes, NEW at \in Nat \cup {Never}, NEW g, g = SetString(h, k, n, at, counts),
         NEW F \in SUBSET {k},
         F = {} \/ at # Never \/ (k \in DOMAIN h.store.map /\ IsLive(h.store.map[k], now))
  PROVE  Uses(h, g, {k}, F)
<1>1. PICK f : f = Lookup(h, k, counts)
  OBVIOUS
<1>2. PICK w : w = Write(f, k, n)
  OBVIOUS
<1>3. g = IF at = Never THEN w ELSE ExpireAt(w, k, at, counts)
  BY <1>1, <1>2, Zenon DEF SetString
<1>4. /\ Follows(h, f, {k})
      /\ k \in DOMAIN f.store.map => f.clock > h.clock
      /\ k \in DOMAIN h.store.map /\ IsLive(h.store.map[k], now) => k \in DOMAIN f.store.map
  BY <1>1, LookupFacts
<1>5a. Fits(f)
  BY <1>4 DEF Follows
<1>5. f.clock \in Nat /\ h.clock \in Nat /\ f.clock >= h.clock
  BY <1>4, <1>5a, FitsFields DEF Follows
<1>6a. Follows(f, w, {k}) /\ Adds(f, w, k, NewAccess(f.clock))
  BY <1>2, <1>5a, WriteFacts
<1>6. w.clock = f.clock /\ w.access[k].at = f.clock
  BY <1>5, <1>6a, NewAccessFacts DEF Adds
<1>7. Follows(h, w, {k} \cup {k}) /\ Fits(w)
  BY <1>4, <1>6a, FollowsTrans DEF Follows
<1>8. Follows(h, w, {k})
  BY <1>7, FollowsLess
<1>9. CASE at = Never
  <2>1. g = w
    BY <1>3, <1>9
  <2>2. F # {} => w.access[k].at > h.clock
    BY <1>4, <1>6, <1>9
  <2> QED
    BY <1>8, <2>1, <2>2 DEF Uses
<1>10. CASE at # Never
  <2>1. g = ExpireAt(w, k, at, counts) /\ at \in Nat
    BY <1>3, <1>10
  <2>2. Uses(w, g, {k}, {k})
    BY <1>7, <2>1, ExpireUses
  <2>3. Follows(h, g, {k} \cup {k})
    BY <1>8, <2>2, FollowsTrans DEF Uses
  <2>4. Follows(h, g, {k}) /\ Fits(g)
    BY <2>3, FollowsLess DEF Follows
  <2>5. ASSUME k \in DOMAIN g.store.map
        PROVE  g.access[k].at > h.clock
    <3>1. g.access[k].at > w.clock /\ g.access[k].at \in Nat
      BY <2>2, <2>4, <2>5, FitsFields DEF Uses
    <3> QED
      BY <1>5, <1>6, <3>1
  <2> QED
    BY <2>4, <2>5 DEF Uses
<1> QED
  BY <1>9, <1>10

\* Removing an entry, without counting the change yet.
LEMMA RemoveKept ==
  ASSUME NEW h, Fits(h), NEW k \in DOMAIN h.store.map, NEW s, s = RemoveEntry(h.store, k),
         NEW g, g = Kept(h, s)
  PROVE  /\ Follows(h, g, {}) /\ g.clock = h.clock
         /\ DOMAIN g.store.map = DOMAIN h.store.map \ {k}
<1>1. Ok(h.store) /\ \A x \in DOMAIN h.store.map : ~IsEmptyCollection(h.store.map[x].value)
  BY DEF Fits, Good
<1>2. Ok(s) /\ DOMAIN s.map = DOMAIN h.store.map \ {k} /\ AgreeBut(h.store, s, {k})
  BY <1>1, RemoveEntryFacts
<1>3. \A x \in DOMAIN s.map : s.map[x].value = h.store.map[x].value
  BY <1>2 DEF AgreeBut
<1>4. Good(s, {}) /\ Frees(h.store, s)
  BY <1>1, <1>2, <1>3 DEF Good, Frees
<1> QED
  BY <1>2, <1>4, KeptFacts

\* RENAME: the entry arrives under its new name as recent as its lookup.
LEMMA RenameUses ==
  ASSUME minute \in Nat, NEW h, Fits(h), NEW k \in Keys, NEW new \in Keys,
         NEW counts \in BOOLEAN, NEW again \in BOOLEAN,
         NEW g, g = RenameTo(h, k, new, counts, again)
  PROVE  IF k \in DOMAIN h.store.map /\ IsLive(h.store.map[k], now)
         THEN Uses(h, g, {new}, {new}) ELSE Uses(h, g, {}, {})
<1>1. PICK l : l = Lookup(h, k, counts)
  OBVIOUS
<1>2. PICK f : f = Lookup(l, k, again)
  OBVIOUS
<1>3. /\ Follows(h, l, {k})
      /\ k \in DOMAIN l.store.map => l.store = h.store /\ l.clock > h.clock
      /\ k \in DOMAIN l.store.map <=> k \in DOMAIN h.store.map /\ IsLive(h.store.map[k], now)
  BY <1>1, LookupFacts
<1>4. Fits(l)
  BY <1>3 DEF Follows
<1>5. /\ Follows(l, f, {k})
      /\ k \in DOMAIN f.store.map => f.access[k].at = f.clock /\ f.clock > l.clock
      /\ k \in DOMAIN f.store.map <=> k \in DOMAIN l.store.map /\ IsLive(l.store.map[k], now)
  BY <1>2, <1>4, LookupFacts
<1>6a. Follows(h, f, {k} \cup {k})
  BY <1>3, <1>5, FollowsTrans
<1>6. Fits(f)
  BY <1>5 DEF Follows
<1>7. Follows(h, f, {k})
  BY <1>6a, FollowsLess
<1>8. h.clock \in Nat /\ l.clock \in Nat /\ f.clock \in Nat
  BY <1>4, <1>6, FitsFields
<1>9. CASE ~(k \in DOMAIN h.store.map /\ IsLive(h.store.map[k], now))
  <2>1. k \notin DOMAIN f.store.map
    BY <1>3, <1>5, <1>9
  <2>2. g = f
    BY <1>1, <1>2, <2>1 DEF RenameTo, Has
  <2>3. Follows(h, g, {})
    BY <1>7, <2>1, <2>2, FollowsLess
  <2> QED
    BY <1>9, <2>3 DEF Uses
<1>10. CASE k \in DOMAIN h.store.map /\ IsLive(h.store.map[k], now)
  <2>1. k \in DOMAIN f.store.map /\ f.access[k].at = f.clock /\ f.clock > h.clock
    BY <1>3, <1>5, <1>8, <1>10
  <2>2. CASE k = new
    <3>1. g = f
      BY <1>1, <1>2, <2>2 DEF RenameTo
    <3> QED
      BY <1>7, <1>10, <2>1, <2>2, <3>1 DEF Uses
  <2>3. CASE k # new
    <3>1. PICK s : s = RemoveEntry(f.store, k)
      OBVIOUS
    <3>2. PICK m : m = Kept(f, s)
      OBVIOUS
    <3>3. PICK v, at, a : v = f.store.map[k].value /\ at = f.store.map[k].expireAt
                            /\ a = f.access[k]
      OBVIOUS
    <3>4. g = InsertWith(m, new, v, at, a)
      BY <1>1, <1>2, <2>1, <2>3, <3>1, <3>2, <3>3 DEF RenameTo, Has
    <3>5. /\ Follows(f, m, {}) /\ m.clock = f.clock
          /\ DOMAIN m.store.map = DOMAIN f.store.map \ {k}
      BY <1>6, <2>1, <3>1, <3>2, RemoveKept
    <3>6. Storable(v) /\ at \in Expiry
      BY <1>6, <2>1, <3>3, FitsStorable
    <3>7. Fits(m) /\ Stamped(a, m.clock) /\ a.at = m.clock
      BY <1>6, <2>1, <3>3, <3>5 DEF Fits, Follows
    <3>8. Follows(m, g, {new}) /\ Adds(m, g, new, a)
      BY <3>4, <3>6, <3>7, InsertWithFacts
    <3>9. Follows(f, g, {} \cup {new})
      BY <1>6, <3>5, <3>8, FollowsTrans
    <3>10. Follows(h, g, {k} \cup ({} \cup {new}))
      BY <1>7, <3>9, FollowsTrans
    <3>11. k \notin DOMAIN g.store.map
      BY <2>3, <3>5, <3>8 DEF Adds
    <3>12. Follows(h, g, {new})
      BY <3>10, <3>11, FollowsLess
    <3> QED
      BY <1>10, <2>1, <3>3, <3>8, <3>12 DEF Uses, Adds
  <2> QED
    BY <2>2, <2>3
<1> QED
  BY <1>9, <1>10

\* COPY: the copy is as recent as the lookup of the original.
LEMMA CopyUses ==
  ASSUME minute \in Nat, NEW h, Fits(h), NEW k \in Keys, NEW dest \in Keys,
         NEW counts \in BOOLEAN, NEW g, g = CopyTo(h, k, dest, counts)
  PROVE  IF k \in DOMAIN h.store.map /\ IsLive(h.store.map[k], now)
         THEN Uses(h, g, {k, dest}, {k, dest}) ELSE Uses(h, g, {}, {})
<1>1. PICK f : f = Lookup(h, k, counts)
  OBVIOUS
<1>2. /\ Follows(h, f, {k})
      /\ k \in DOMAIN f.store.map => f.access[k].at = f.clock /\ f.clock > h.clock
      /\ k \in DOMAIN f.store.map <=> k \in DOMAIN h.store.map /\ IsLive(h.store.map[k], now)
  BY <1>1, LookupFacts
<1>3. Fits(f)
  BY <1>2 DEF Follows
<1>4. CASE ~(k \in DOMAIN h.store.map /\ IsLive(h.store.map[k], now))
  <2>1. g = f /\ k \notin DOMAIN f.store.map
    BY <1>1, <1>2, <1>4 DEF CopyTo, Has
  <2>2. Follows(h, g, {})
    BY <1>2, <2>1, FollowsLess
  <2> QED
    BY <1>4, <2>2 DEF Uses
<1>5. CASE k \in DOMAIN h.store.map /\ IsLive(h.store.map[k], now)
  <2>1. k \in DOMAIN f.store.map /\ f.access[k].at = f.clock /\ f.clock > h.clock
    BY <1>2, <1>5
  <2>2. PICK v, at, a : v = f.store.map[k].value /\ at = f.store.map[k].expireAt
                          /\ a = f.access[k]
    OBVIOUS
  <2>3. g = InsertWith(f, dest, v, at, a)
    BY <1>1, <2>1, <2>2 DEF CopyTo, Has
  <2>4. Storable(v) /\ at \in Expiry
    BY <1>3, <2>1, <2>2, FitsStorable
  <2>5. Stamped(a, f.clock) /\ a.at = f.clock
    BY <1>3, <2>1, <2>2 DEF Fits
  <2>6. Follows(f, g, {dest}) /\ Adds(f, g, dest, a)
    BY <1>3, <2>3, <2>4, <2>5, InsertWithFacts
  <2>7. Follows(h, g, {k} \cup {dest})
    BY <1>2, <2>6, FollowsTrans
  <2>8. {k} \cup {dest} = {k, dest}
    OBVIOUS
  <2>9. k # dest /\ k \in DOMAIN g.store.map => g.access[k] = f.access[k]
    BY <2>6 DEF Follows
  <2>10. Follows(h, g, {k, dest})
    BY <2>7, <2>8
  <2> QED
    BY <1>5, <2>1, <2>2, <2>6, <2>9, <2>10 DEF Uses, Adds
<1> QED
  BY <1>4, <1>5

-----------------------------------------------------------------------------
(***************************************************************************)
(* The policies.                                                           *)
(***************************************************************************)
\* What the choice of a victim rests on.
Sound ==
  /\ minute \in Nat /\ now \in Nat
  /\ config \in Configs
  /\ Fits(Held)

\* The store, its indexes and its records, with their types.
LEMMA SoundFields ==
  ASSUME Sound
  PROVE  /\ Good(store, {}) /\ store \in Stores
         /\ KeyIndexConsistent(store) /\ VolatileIndexConsistent(store)
         /\ \A k \in DOMAIN store.map :
              /\ Stamped(access[k], clock)
              /\ access[k].at \in Nat
              /\ DecayedFreq(access[k]) \in Nat
              /\ store.map[k].expireAt \in Expiry
<1>1. Good(store, {}) /\ \A k \in DOMAIN store.map : Stamped(access[k], clock)
  BY DEF Sound, Fits, Held
<1>2. \A k \in DOMAIN store.map : store.map[k].expireAt \in Expiry
  BY <1>1, GoodFields
<1>3. \A k \in DOMAIN store.map : access[k].at \in Nat /\ DecayedFreq(access[k]) \in Nat
  BY <1>1, DecayedFreqFacts DEF Sound, Stamped, Access
<1> QED
  BY <1>1, <1>2, <1>3 DEF Good, Ok

\* Every draw is a key the policy may take.
LEMMA PoolFacts ==
  ASSUME Sound, NEW i \in 1 .. Len(Pool)
  PROVE  /\ Pool[i] \in DOMAIN store.map
         /\ config.policy.volatileOnly => store.map[Pool[i]].expireAt # Never
<1>1. KeyIndexConsistent(store) /\ VolatileIndexConsistent(store) /\ store \in Stores
  BY SoundFields
<1>2. CASE config.policy.volatileOnly
  <2>1. Pool = store.volatile
    BY <1>2 DEF Pool
  <2>2. store.volatile[i] \in DOMAIN store.map /\ store.map[store.volatile[i]].vslot = i /\ i # 0
    BY <1>1, <2>1 DEF VolatileIndexConsistent
  <2>3. store.map[store.volatile[i]].expireAt # Never
    BY <1>1, <2>2 DEF VolatileIndexConsistent
  <2> QED
    BY <2>1, <2>2, <2>3
<1>3. CASE ~config.policy.volatileOnly
  BY <1>1, <1>3 DEF Pool, KeyIndexConsistent
<1> QED
  BY <1>2, <1>3

\* Every key the policy may take can be drawn.
LEMMA PoolCovers ==
  ASSUME Sound, NEW k \in Eligible
  PROVE  \E i \in 1 .. Len(Pool) : Pool[i] = k
<1>1. KeyIndexConsistent(store) /\ VolatileIndexConsistent(store)
  BY SoundFields
<1> QED
  BY <1>1 DEF Eligible, Pool, KeyIndexConsistent, VolatileIndexConsistent

\* Numbers given to the members of a set are least somewhere.
LEMMA LeastValue ==
  ASSUME NEW S, S # {}, NEW f \in [S -> Nat]
  PROVE  \E i \in S : \A j \in S : f[i] <= f[j]
<1> DEFINE N == {f[i] : i \in S}
<1>1. N \in SUBSET Nat /\ N # {}
  OBVIOUS
<1>2. PICK x \in N : \A y \in N : x <= y
  BY <1>1, NatMin
<1> QED
  BY <1>2

\* min_by_key has a victim: among live draws one is beaten by none, for each
\* of the policies.
LEMMA BestExists ==
  ASSUME Sound, NEW S, S # {}, S \subseteq DOMAIN store.map
  PROVE  \E k \in S : \A j \in S : ~Before(j, k)
<1> DEFINE order == config.policy.order
<1>1. \A k \in S : /\ access[k].at \in Nat
                   /\ DecayedFreq(access[k]) \in Nat
                   /\ store.map[k].expireAt \in Expiry
  BY SoundFields
<1>2. CASE order = "lru"
  <2> DEFINE f == [k \in S |-> access[k].at]
  <2>1. f \in [S -> Nat]
    BY <1>1
  <2>2. PICK k \in S : \A j \in S : f[k] <= f[j]
    BY <2>1, LeastValue
  <2>3. \A j \in S : Before(j, k) <=> access[j].at < access[k].at
    BY <1>2 DEF Before
  <2> QED
    BY <1>1, <2>2, <2>3
<1>3. CASE order = "ttl"
  <2> DEFINE f == [k \in S |-> store.map[k].expireAt + 1]
  <2>1. f \in [S -> Nat]
    BY <1>1 DEF Expiry, Never
  <2>2. PICK k \in S : \A j \in S : f[k] <= f[j]
    BY <2>1, LeastValue
  <2>3. \A j \in S : Before(j, k) <=> store.map[j].expireAt < store.map[k].expireAt
    BY <1>3 DEF Before
  <2>4. \A j \in S : store.map[j].expireAt \in Int
    BY <1>1 DEF Expiry, Never
  <2> QED
    BY <2>2, <2>3, <2>4
<1>4. CASE order = "lfu"
  <2> DEFINE f == [k \in S |-> DecayedFreq(access[k])]
  <2>1. f \in [S -> Nat]
    BY <1>1
  <2>2. PICK l \in S : \A j \in S : f[l] <= f[j]
    BY <2>1, LeastValue
  <2> DEFINE T == {k \in S : f[k] = f[l]}
             g == [k \in T |-> access[k].at]
  <2>3. g \in [T -> Nat] /\ T # {}
    BY <1>1
  <2>4. PICK k \in T : \A j \in T : g[k] <= g[j]
    BY <2>3, LeastValue
  <2>5. \A j \in S : Before(j, k) <=>
          \/ DecayedFreq(access[j]) < DecayedFreq(access[k])
          \/ DecayedFreq(access[j]) = DecayedFreq(access[k]) /\ access[j].at < access[k].at
    BY <1>4 DEF Before
  <2>6. ASSUME NEW j \in S PROVE ~Before(j, k)
    <3>1. /\ DecayedFreq(access[j]) \in Nat /\ DecayedFreq(access[k]) \in Nat
          /\ access[j].at \in Nat /\ access[k].at \in Nat
      BY <1>1
    <3>2. DecayedFreq(access[k]) <= DecayedFreq(access[j])
      BY <2>2, <2>4
    <3>3. DecayedFreq(access[j]) = DecayedFreq(access[k]) => access[k].at <= access[j].at
      BY <2>4
    <3> QED
      BY <2>5, <3>1, <3>2, <3>3
  <2> QED
    BY <2>6
<1>5. CASE order \notin {"lru", "lfu", "ttl"}
  BY <1>5 DEF Before
<1> QED
  BY <1>2, <1>3, <1>4, <1>5

\* The victim of a round that draws a live key: one of the live draws, and
\* beaten by none of them.
LEMMA ChooseFacts ==
  ASSUME Sound, NEW draws \in Rounds
  PROVE  /\ Choose(draws) \in Compared(draws)
         /\ Choose(draws) \in DOMAIN store.map
         /\ config.policy.volatileOnly => store.map[Choose(draws)].expireAt # Never
         /\ \A k \in Compared(draws) : k \in DOMAIN store.map /\ ~Before(k, Choose(draws))
<1>1. draws \in [1 .. Samples -> 1 .. Len(Pool)] /\ Sampled(draws) # {}
  BY DEF Rounds, Draws
<1>2. \A i \in Sampled(draws) : /\ draws[i] \in 1 .. Len(Pool) /\ i \in Nat
                                /\ Pool[draws[i]] \in Compared(draws)
  BY <1>1 DEF Sampled, Compared
<1>3. \A k \in Compared(draws) : \E i \in Sampled(draws) : k = Pool[draws[i]]
  BY DEF Compared
<1>4. \A i \in Sampled(draws) :
        /\ Pool[draws[i]] \in DOMAIN store.map
        /\ config.policy.volatileOnly => store.map[Pool[draws[i]]].expireAt # Never
  BY <1>2, PoolFacts
<1>5. Compared(draws) # {} /\ Compared(draws) \subseteq DOMAIN store.map
  BY <1>1, <1>2, <1>3, <1>4
<1>6. PICK k \in Compared(draws) : \A j \in Compared(draws) : ~Before(j, k)
  BY <1>5, BestExists
<1> DEFINE best == {i \in Sampled(draws) : \A j \in Sampled(draws) :
                      ~Before(Pool[draws[j]], Pool[draws[i]])}
           first == CHOOSE i \in best : \A j \in best : i <= j
<1>7. best # {}
  BY <1>2, <1>3, <1>6
<1>8. best \in SUBSET Nat
  BY <1>2
<1>9. \E i \in best : \A j \in best : i <= j
  BY <1>7, <1>8, NatMin
<1>10. first \in best
  BY <1>9
<1>11. Choose(draws) = Pool[draws[first]]
  BY Zenon DEF Choose
<1> HIDE DEF first
<1>12. first \in Sampled(draws)
       /\ \A j \in Sampled(draws) : ~Before(Pool[draws[j]], Pool[draws[first]])
  BY <1>10
<1> HIDE DEF best
<1>13. \A j \in Compared(draws) : ~Before(j, Choose(draws))
  BY <1>3, <1>11, <1>12, Zenon
<1> QED
  BY <1>2, <1>4, <1>5, <1>11, <1>12, <1>13

-----------------------------------------------------------------------------
(***************************************************************************)
(* The inductive invariant.                                                *)
(***************************************************************************)
\* The observer is right: a key overtaken by another has the older record.
\* This is what the types leave out and what LRU rests on.
Ordered ==
  /\ overtaken \subseteq (DOMAIN store.map) \X (DOMAIN store.map)
  /\ \A p \in overtaken : access[p[1]].at < access[p[2]].at

\* The gate within its bounds.
Bounded ==
  /\ clock <= MaxClock /\ now \in Time /\ minute \in 0 .. MaxMinute
  /\ config \in Configs /\ beside \in Besides
  /\ pending \in 0 .. MaxBatch /\ rounds \in 0 .. MaxEvictionsPerPass

Inv == Fits(Held) /\ Ordered /\ Bounded

\* The invariant is enough for the choice of a victim.
LEMMA InvSound ==
  ASSUME Inv
  PROVE  Sound /\ clock \in Nat
BY EvictBoundsAssumption, MaxTimeAssumption DEF Inv, Sound, Bounded, Time, Fits, Held

\* The invariant has the types.
LEMMA InvTypeOK ==
  ASSUME Inv
  PROVE  TypeOK
<1>1. Good(store, {}) /\ access \in [DOMAIN store.map -> Access]
      /\ (\A k \in DOMAIN store.map : store.map[k].value.size \in Sizes)
      /\ \A k \in DOMAIN store.map : access[k].at <= clock /\ access[k].decayedAt <= minute
  BY DEF Inv, Fits, Held, Stamped
<1>2. store.map \in [DOMAIN store.map -> Entry] /\ DOMAIN store.map \subseteq Keys
  <2>1. store \in Stores
    BY <1>1 DEF Good, Ok
  <2> QED
    BY <2>1, BindingsFacts DEF Stores
<1>3. clock \in 0 .. MaxClock
  BY InvSound, EvictBoundsAssumption DEF Inv, Bounded
<1> QED
  BY <1>1, <1>2, <1>3 DEF TypeOK, Inv, Ordered, Bounded

\* An empty store fits.
LEMMA InitInv == Init => Inv
<1> SUFFICES ASSUME Init PROVE Inv
  OBVIOUS
<1>1. Good(store, {}) /\ DOMAIN store.map = {}
  BY EmptyStoreGood DEF Init, EmptyStore
<1>2. access \in [DOMAIN store.map -> Access] /\ clock = 0
  BY <1>1 DEF Init
<1>3. Fits(Held)
  BY <1>1, <1>2 DEF Fits, Held
<1>4. Ordered
  BY <1>1 DEF Init, Ordered
<1>5. Bounded
  BY EvictBoundsAssumption, MaxTimeAssumption, SamplesAssumption DEF Init, Bounded, Time
<1> QED
  BY <1>3, <1>4, <1>5 DEF Inv

\* What the variables become fits if it did as a record.
LEMMA BecomesFits ==
  ASSUME NEW h, Fits(h), Becomes(h), minute' = minute
  PROVE  Fits(Held)'
<1>1. store' = h.store /\ access' = h.access /\ clock' = h.clock
  BY DEF Becomes
<1>2. Good(store', {})
  BY <1>1 DEF Fits
<1>3. \A k \in DOMAIN store'.map : Stamped(h.access[k], h.clock)
  BY <1>1 DEF Fits
<1>4. \A k \in DOMAIN store'.map : Stamped(access[k], clock)'
  BY <1>1, <1>3 DEF Stamped
<1> QED
  BY <1>1, <1>2, <1>4 DEF Fits, Held

\* A command that uses the keys it says it uses.
LEMMA RunInv ==
  ASSUME Inv, NEW op, NEW h, NEW used, NEW found, Uses(Held, h, used, found),
         Run(op, h, used, found)
  PROVE  Inv'
<1> DEFINE bound == DOMAIN h.store.map
<1>1. /\ Becomes(h) /\ h.clock <= MaxClock
      /\ overtaken' = {p \in overtaken : p[1] \notin used /\ {p[1], p[2]} \subseteq bound}
                        \cup (bound \ used) \X (found \cap bound)
  BY DEF Run
<1>2. store' = h.store /\ access' = h.access /\ clock' = h.clock
  BY <1>1 DEF Becomes
<1>3. Fits(h) /\ Fits(Held) /\ Follows(Held, h, used)
  BY DEF Uses, Follows, Inv
<1>4. Fits(Held)'
  BY <1>1, <1>3, BecomesFits DEF Run
<1>5. Bounded'
  <2>1. pending' \in 0 .. MaxBatch /\ rounds' \in 0 .. MaxEvictionsPerPass
    BY EvictBoundsAssumption, SamplesAssumption DEF Run, Inv, Bounded
  <2> QED
    BY <1>1, <1>2, <2>1 DEF Run, Inv, Bounded
<1>6. /\ \A k \in bound \ used : k \in DOMAIN store.map /\ h.access[k] = access[k]
      /\ \A k \in bound : \/ k \in DOMAIN store.map /\ h.access[k].at >= access[k].at
                          \/ h.access[k].at >= clock
      /\ \A k \in found \cap bound : h.access[k].at > clock
  BY DEF Uses, Follows, Held
<1>7. /\ \A k \in bound : h.access[k].at \in Nat
      /\ clock \in Nat
      /\ \A k \in DOMAIN store.map : access[k].at \in Nat /\ access[k].at <= clock
  BY <1>3, FitsFields DEF Held
<1>8. ASSUME NEW p \in overtaken'
      PROVE  p \in bound \X bound /\ h.access[p[1]].at < h.access[p[2]].at
  <2>1. CASE p \in overtaken /\ p[1] \notin used /\ {p[1], p[2]} \subseteq bound
    <3>1. /\ p \in (DOMAIN store.map) \X (DOMAIN store.map)
          /\ access[p[1]].at < access[p[2]].at
      BY <2>1 DEF Inv, Ordered
    <3>2. PICK x \in DOMAIN store.map, y \in DOMAIN store.map : p = <<x, y>>
      BY <3>1
    <3>3. x \in bound /\ y \in bound /\ x \notin used
      BY <2>1, <3>2
    <3>4. h.access[x] = access[x] /\ access[x].at < access[y].at
      BY <1>6, <3>1, <3>2, <3>3
    <3>5. h.access[y].at >= access[y].at
      BY <1>6, <1>7, <3>2, <3>3
    <3>6. h.access[x].at < h.access[y].at
      BY <1>7, <3>2, <3>3, <3>4, <3>5
    <3> QED
      BY <3>2, <3>3, <3>6
  <2>2. CASE p \in (bound \ used) \X (found \cap bound)
    <3>1. PICK x \in bound \ used, y \in found \cap bound : p = <<x, y>>
      BY <2>2
    <3>2. h.access[x] = access[x] /\ x \in DOMAIN store.map /\ h.access[y].at > clock
      BY <1>6, <3>1
    <3>3. h.access[x].at < h.access[y].at
      BY <1>7, <3>1, <3>2
    <3> QED
      BY <3>1, <3>3
  <2> QED
    BY <1>1, <2>1, <2>2
<1>9. Ordered'
  BY <1>2, <1>8 DEF Ordered
<1> QED
  BY <1>4, <1>5, <1>9 DEF Inv

\* The store without one of its keys.
LEMMA DropFacts ==
  ASSUME Inv, NEW k \in DOMAIN store.map, NEW s, s = MarkDirty(RemoveEntry(store, k)),
         NEW g, g = Kept(Held, s)
  PROVE  /\ Follows(Held, g, {}) /\ g.store = s
         /\ DOMAIN s.map = DOMAIN store.map \ {k}
         /\ Frees(store, s)
         /\ g.clock = clock
         /\ \A x \in DOMAIN s.map : g.access[x] = access[x]
<1>1. Fits(Held) /\ Good(store, {}) /\ Held.store = store
      /\ Held.access = access /\ Held.clock = clock
  BY DEF Inv, Fits, Held
<1>2. Good(s, {}) /\ Frees(store, s) /\ DOMAIN s.map = DOMAIN store.map \ {k}
  BY <1>1, RemoveFrees
<1>3. Good(s, {}) /\ Frees(Held.store, s)
  BY <1>1, <1>2
<1>4. /\ Follows(Held, g, {}) /\ g.store = s /\ g.clock = Held.clock
      /\ \A x \in DOMAIN s.map : g.access[x] = Held.access[x]
  BY <1>1, <1>3, KeptFacts
<1> QED
  BY <1>1, <1>2, <1>3, <1>4

\* An eviction or a sweep: whatever key goes, the order of the others stays.
LEMMA DropInv ==
  ASSUME Inv, NEW k \in DOMAIN store.map, Drop(k),
         UNCHANGED <<now, minute, config, beside, pending>>,
         rounds' \in 0 .. MaxEvictionsPerPass
  PROVE  Inv'
<1>1. PICK s : s = MarkDirty(RemoveEntry(store, k))
  OBVIOUS
<1>2. PICK g : g = Kept(Held, s)
  OBVIOUS
<1>3. /\ Follows(Held, g, {}) /\ g.store = s
      /\ DOMAIN s.map = DOMAIN store.map \ {k}
      /\ g.clock = clock
      /\ \A x \in DOMAIN s.map : g.access[x] = access[x]
  BY <1>1, <1>2, DropFacts
<1>4. Becomes(g) /\ overtaken' = {p \in overtaken : k \notin {p[1], p[2]}}
  BY <1>1, <1>2, Zenon DEF Drop
<1>5. store' = s /\ access' = g.access /\ clock' = clock
  BY <1>3, <1>4 DEF Becomes
<1>6. Fits(g)
  BY <1>3 DEF Follows
<1>7. Fits(Held)'
  BY <1>4, <1>6, BecomesFits
<1>8. Bounded'
  BY <1>5 DEF Inv, Bounded
<1>9. ASSUME NEW p \in overtaken'
      PROVE  p \in (DOMAIN s.map) \X (DOMAIN s.map) /\ g.access[p[1]].at < g.access[p[2]].at
  <2>1. p \in overtaken /\ k \notin {p[1], p[2]}
    BY <1>4
  <2>2. PICK x \in DOMAIN store.map, y \in DOMAIN store.map : p = <<x, y>>
    BY <2>1 DEF Inv, Ordered
  <2>3. x \in DOMAIN s.map /\ y \in DOMAIN s.map /\ access[x].at < access[y].at
    BY <1>3, <2>1, <2>2 DEF Inv, Ordered
  <2> QED
    BY <1>3, <2>2, <2>3
<1>10. Ordered'
  BY <1>5, <1>9 DEF Ordered
<1> QED
  BY <1>7, <1>8, <1>10 DEF Inv

\* A step that leaves the store and the observer alone.
LEMMA SameStoreInv ==
  ASSUME Inv, UNCHANGED <<store, access, clock, overtaken>>, minute' >= minute, Bounded'
  PROVE  Inv'
<1>1. Ordered'
  BY DEF Inv, Ordered
<1>2. \A k \in DOMAIN store.map : Stamped(access[k], clock)'
  <2>1. minute \in Nat /\ minute' \in Nat
    BY EvictBoundsAssumption DEF Inv, Bounded
  <2> QED
    BY <2>1 DEF Inv, Fits, Held, Stamped, Access
<1>3. Fits(Held)'
  BY <1>2 DEF Inv, Fits, Held
<1> QED
  BY <1>1, <1>3 DEF Inv

\* The keys a lookup finds are those that are there and live.
LEMMA FoundFacts ==
  ASSUME NEW k
  PROVE  /\ Found(k) \in SUBSET {k}
         /\ Found(k) # {} <=> k \in DOMAIN Held.store.map /\ IsLive(Held.store.map[k], now)
BY DEF Found, Has, Live, Held

\* The commands.
LEMMA CommandInv ==
  ASSUME Inv, Command
  PROVE  Inv'
<1>1. minute \in Nat /\ Fits(Held)
  BY InvSound DEF Sound
<1>2. ASSUME NEW k \in Keys, NEW counts \in BOOLEAN, NEW n \in Sizes,
             NEW at \in Deadlines \cup {Never}, Set(k, n, at, counts)
      PROVE  Inv'
  <2>1. PICK h : h = SetString(Held, k, n, at, counts)
    OBVIOUS
  <2>2. PICK F : F = IF at # Never THEN {k} ELSE Found(k)
    OBVIOUS
  <2>3. Run("set", h, {k}, F)
    BY <1>2, <2>1, <2>2, Zenon DEF Set
  <2>4. F \in SUBSET {k}
        /\ (F = {} \/ at # Never
              \/ (k \in DOMAIN Held.store.map /\ IsLive(Held.store.map[k], now)))
    BY <2>2, FoundFacts
  <2>5. at \in Nat \cup {Never}
    BY EvictInputsAssumption
  <2>6. Uses(Held, h, {k}, F)
    BY <1>1, <2>1, <2>4, <2>5, SetUses
  <2> QED
    BY <2>3, <2>6, RunInv
<1>3. ASSUME NEW k \in Keys, NEW counts \in BOOLEAN, Get(k, counts)
      PROVE  Inv'
  <2>1. PICK h : h = Lookup(Held, k, counts)
    OBVIOUS
  <2>2. Run("get", h, {k}, {k})
    BY <1>3, <2>1 DEF Get
  <2>3. Uses(Held, h, {k}, {k})
    BY <1>1, <2>1, GetUses
  <2> QED
    BY <2>2, <2>3, RunInv
<1>4. ASSUME NEW k \in Keys, NEW counts \in BOOLEAN, DelKey(k, counts)
      PROVE  Inv'
  <2>1. PICK h : h = Delete(Held, k, counts)
    OBVIOUS
  <2>2. Run("del", h, {k}, {k})
    BY <1>4, <2>1 DEF DelKey
  <2>3. Uses(Held, h, {k}, {k})
    BY <1>1, <2>1, DeleteUses
  <2> QED
    BY <2>2, <2>3, RunInv
<1>5. ASSUME NEW k \in Keys, NEW counts \in BOOLEAN, NEW at \in Deadlines, Expire(k, at, counts)
      PROVE  Inv'
  <2>1. PICK h : h = ExpireAt(Held, k, at, counts)
    OBVIOUS
  <2>2. Run("expire", h, {k}, {k})
    BY <1>5, <2>1 DEF Expire
  <2>3. at \in Nat
    BY EvictInputsAssumption
  <2>4. Uses(Held, h, {k}, {k})
    BY <1>1, <2>1, <2>3, ExpireUses
  <2> QED
    BY <2>2, <2>4, RunInv
<1>6. ASSUME NEW k \in Keys, NEW counts \in BOOLEAN, NEW new \in Keys, NEW again \in BOOLEAN,
             RenameKey(k, new, counts, again)
      PROVE  Inv'
  <2>1. PICK h : h = RenameTo(Held, k, new, counts, again)
    OBVIOUS
  <2>2. PICK moved : moved = IF Found(k) # {} THEN {new} ELSE {}
    OBVIOUS
  <2>3. Run("rename", h, moved, moved)
    BY <1>6, <2>1, <2>2, Zenon DEF RenameKey
  <2>4. IF k \in DOMAIN Held.store.map /\ IsLive(Held.store.map[k], now)
        THEN Uses(Held, h, {new}, {new}) ELSE Uses(Held, h, {}, {})
    BY <1>1, <2>1, RenameUses
  <2>5. Uses(Held, h, moved, moved)
    BY <2>2, <2>4, FoundFacts
  <2> QED
    BY <2>3, <2>5, RunInv
<1>7. ASSUME NEW k \in Keys, NEW counts \in BOOLEAN, NEW dest \in Keys, Copy(k, dest, counts)
      PROVE  Inv'
  <2>1. PICK h : h = CopyTo(Held, k, dest, counts)
    OBVIOUS
  <2>2. PICK both : both = IF Found(k) # {} THEN {k, dest} ELSE {}
    OBVIOUS
  <2>3. Run("copy", h, both, both)
    BY <1>7, <2>1, <2>2, Zenon DEF Copy
  <2>4. IF k \in DOMAIN Held.store.map /\ IsLive(Held.store.map[k], now)
        THEN Uses(Held, h, {k, dest}, {k, dest}) ELSE Uses(Held, h, {}, {})
    BY <1>1, <2>1, CopyUses
  <2>5. Uses(Held, h, both, both)
    BY <2>2, <2>4, FoundFacts
  <2> QED
    BY <2>3, <2>5, RunInv
<1>8. ASSUME Other PROVE Inv'
  <2>1. PICK h : h = Held
    OBVIOUS
  <2>2. Run("other", h, {}, {})
    BY <1>8, <2>1, Zenon DEF Other
  <2>3. Uses(Held, h, {}, {})
    BY <1>1, <2>1, FollowsSelf DEF Uses
  <2> QED
    BY <2>2, <2>3, RunInv
<1> QED
  BY <1>2, <1>3, <1>4, <1>5, <1>6, <1>7, <1>8, Zenon DEF Command

\* One more round of make_room.
LEMMA EvictRoundInv ==
  ASSUME Inv, NEW draws \in Draws, EvictRound(draws)
  PROVE  Inv' /\ draws \in Rounds /\ Choose(draws) \in DOMAIN store.map
<1>1. draws \in Rounds
  BY DEF Rounds, EvictRound
<1>2. Choose(draws) \in DOMAIN store.map
  BY <1>1, InvSound, ChooseFacts
<1>3. rounds' \in 0 .. MaxEvictionsPerPass
  BY SamplesAssumption DEF EvictRound, Inv, Bounded
<1>4. Drop(Choose(draws)) /\ UNCHANGED <<now, minute, config, beside, pending>>
  BY DEF EvictRound
<1> QED
  BY <1>1, <1>2, <1>3, <1>4, DropInv

\* The steps that leave the store alone.
LEMMA AroundInv ==
  ASSUME Inv,
         \/ \E n \in 1 .. MaxBatch : Dispatch(n)
         \/ \E op \in DenyOom : Refuse(op)
         \/ \E c \in Configs : ConfigSet(c)
         \/ \E n \in Besides : Allocate(n)
         \/ Tick
         \/ Minute
         \/ UNCHANGED vars
  PROVE  Inv' /\ store' = store
<1>1. minute \in 0 .. MaxMinute /\ pending \in 0 .. MaxBatch
      /\ rounds \in 0 .. MaxEvictionsPerPass /\ now \in Time
  BY DEF Inv, Bounded
<1>2. /\ UNCHANGED <<store, access, clock, overtaken>>
      /\ minute' >= minute /\ Bounded'
  <2>1. ASSUME NEW n \in 1 .. MaxBatch, Dispatch(n)
        PROVE  UNCHANGED <<store, access, clock, overtaken>> /\ minute' >= minute /\ Bounded'
    BY <1>1, <2>1, EvictBoundsAssumption, SamplesAssumption DEF Dispatch, Inv, Bounded
  <2>2. ASSUME NEW op \in DenyOom, Refuse(op)
        PROVE  UNCHANGED <<store, access, clock, overtaken>> /\ minute' >= minute /\ Bounded'
    BY <1>1, <2>2, EvictBoundsAssumption, SamplesAssumption DEF Refuse, Inv, Bounded
  <2>3. ASSUME NEW c \in Configs, ConfigSet(c)
        PROVE  UNCHANGED <<store, access, clock, overtaken>> /\ minute' >= minute /\ Bounded'
    BY <1>1, <2>3, EvictBoundsAssumption DEF ConfigSet, Inv, Bounded
  <2>4. ASSUME NEW n \in Besides, Allocate(n)
        PROVE  UNCHANGED <<store, access, clock, overtaken>> /\ minute' >= minute /\ Bounded'
    BY <1>1, <2>4, EvictBoundsAssumption DEF Allocate, Inv, Bounded
  <2>5. ASSUME Tick
        PROVE  UNCHANGED <<store, access, clock, overtaken>> /\ minute' >= minute /\ Bounded'
    BY <1>1, <2>5, EvictBoundsAssumption, MaxTimeAssumption DEF Tick, Inv, Bounded, Time
  <2>6. ASSUME Minute
        PROVE  UNCHANGED <<store, access, clock, overtaken>> /\ minute' >= minute /\ Bounded'
    BY <1>1, <2>6, EvictBoundsAssumption DEF Minute, Inv, Bounded
  <2>7. ASSUME UNCHANGED vars
        PROVE  UNCHANGED <<store, access, clock, overtaken>> /\ minute' >= minute /\ Bounded'
    BY <1>1, <2>7, EvictBoundsAssumption DEF vars, Inv, Bounded
  <2> QED
    BY <2>1, <2>2, <2>3, <2>4, <2>5, <2>6, <2>7
<1> QED
  BY <1>2, SameStoreInv

\* Every step preserves the invariant.
LEMMA NextInv ==
  ASSUME Inv, [Next]_vars
  PROVE  Inv'
<1>1. ASSUME NEW draws \in Draws, EvictRound(draws) PROVE Inv'
  BY <1>1, EvictRoundInv
<1>2. ASSUME NEW k \in DueKeys(store, now), SweepKey(k) PROVE Inv'
  <2>1. k \in DOMAIN store.map
    BY DEF DueKeys
  <2>2. Drop(k) /\ UNCHANGED <<now, minute, config, beside, pending>>
        /\ rounds' \in 0 .. MaxEvictionsPerPass
    BY <1>2 DEF SweepKey, Inv, Bounded
  <2> QED
    BY <2>1, <2>2, DropInv
<1> QED
  BY <1>1, <1>2, CommandInv, AroundInv DEF Next

\* Inv is an invariant of every instance.
THEOREM EvictInvariant == Spec => []Inv
<1>1. Inv /\ [Next]_vars => Inv'
  BY NextInv
<1> QED
  BY InitInv, <1>1, PTL DEF Spec

-----------------------------------------------------------------------------
(***************************************************************************)
(* What the invariant is for.                                              *)
(***************************************************************************)
\* Types, for every number of keys, samples, rounds and bits: every entry
\* has one access record, whatever RENAME, COPY, lazy expiry and eviction
\* did, and the counter stays within its width.
THEOREM EvictTypeCorrect == Spec => []TypeOK
<1>1. Inv => TypeOK
  BY InvTypeOK
<1> QED
  BY EvictInvariant, <1>1, PTL

\* A volatile policy takes no key without an expiry.
LEMMA VolatileSparedHolds ==
  ASSUME Inv
  PROVE  VolatileSpared
<1>1. Sound
  BY InvSound
<1> QED
  BY <1>1, ChooseFacts DEF VolatileSpared

\* A pass that ends early has nothing left to take, or a due key in the way.
LEMMA GivesUpHolds ==
  ASSUME Inv
  PROVE  GivesUpWithNothingLeft
<1> SUFFICES ASSUME GivesUp, Evicts, rounds < MaxEvictionsPerPass,
                    Eligible \cap LiveKeys(store, now) # {}
             PROVE  Eligible \cap DueKeys(store, now) # {}
  BY DEF GivesUpWithNothingLeft
<1>1. Sound /\ 1 \in 1 .. Samples
  BY InvSound, SamplesAssumption
<1>2. PICK k \in Eligible : TRUE
  OBVIOUS
<1>3. Pool # <<>>
  BY <1>1, <1>2, PoolCovers
<1>4. rounds # MaxEvictionsPerPass
  BY SamplesAssumption DEF Inv, Bounded
<1>5. PICK draws \in Draws : Sampled(draws) = {}
  BY <1>3, <1>4 DEF GivesUp
<1>6. draws[1] \in 1 .. Len(Pool)
  BY <1>1 DEF Draws
<1>7. ~Live(Pool[draws[1]])
  BY <1>1, <1>5 DEF Sampled
<1>8. /\ Pool[draws[1]] \in DOMAIN store.map
      /\ config.policy.volatileOnly => store.map[Pool[draws[1]]].expireAt # Never
  BY <1>1, <1>6, PoolFacts
<1>9. Pool[draws[1]] \in Eligible /\ Pool[draws[1]] \in DueKeys(store, now)
  BY <1>7, <1>8 DEF Eligible, DueKeys, Live
<1> QED
  BY <1>9

\* TakesWhatItMay for every instance: the two indexes that eviction draws
\* from list exactly the keys the policy may take.
THEOREM EvictTakesWhatItMay == Spec => []TakesWhatItMay
<1>1. Inv => TakesWhatItMay
  BY VolatileSparedHolds, GivesUpHolds DEF TakesWhatItMay
<1> QED
  BY EvictInvariant, <1>1, PTL

\* LruKeepsTheReRead for every instance: the logical clock orders lookups,
\* and no write, rename, copy or eviction undoes the order.
THEOREM EvictLru == Spec => []LruKeepsTheReRead
<1>1. ASSUME Inv PROVE LruKeepsTheReRead
  <2> SUFFICES ASSUME config.policy.order = "lru", NEW draws \in Rounds,
                      NEW k \in Compared(draws), <<k, Choose(draws)>> \in overtaken
               PROVE  FALSE
    BY DEF LruKeepsTheReRead
  <2>1. PICK v : v = Choose(draws)
    OBVIOUS
  <2>2. ~Before(k, v)
    BY <1>1, <2>1, InvSound, ChooseFacts
  <2>3. access[k].at < access[v].at
    BY <1>1, <2>1 DEF Inv, Ordered
  <2> QED
    BY <2>2, <2>3 DEF Before
<1> QED
  BY EvictInvariant, <1>1, PTL

\* IdleGoesFirst for every width of the counter: after as many minutes as it
\* has bits nothing is left of it, and a key in use never rests on zero.
THEOREM EvictIdleGoesFirst == Spec => []IdleGoesFirst
<1>1. ASSUME Inv PROVE IdleGoesFirst
  <2> SUFFICES ASSUME config.policy.order = "lfu", NEW draws \in Rounds,
                      access[Choose(draws)].decayedAt = minute,
                      NEW k \in Compared(draws), ~(minute - access[k].decayedAt < Bits)
               PROVE  FALSE
    BY DEF IdleGoesFirst
  <2>1. PICK v : v = Choose(draws)
    OBVIOUS
  <2>2. ~Before(k, v) /\ k \in DOMAIN store.map /\ v \in DOMAIN store.map
    BY <1>1, <2>1, InvSound, ChooseFacts
  <2>3. Stamped(access[k], clock) /\ Stamped(access[v], clock) /\ minute \in Nat
    BY <1>1, <2>2, InvSound, SoundFields DEF Sound
  <2>4. minute - access[k].decayedAt >= Bits
    BY <2>3, BitsAssumption DEF Stamped, Access
  <2>5. DecayedFreq(access[k]) = 0
    BY <2>3, <2>4, DecayedFreqFacts DEF Stamped
  <2>6. DecayedFreq(access[v]) = access[v].freq
    BY <2>1, <2>3, DecayedFreqFacts DEF Stamped
  <2>7. access[v].freq > 0
    BY <2>3, TopFacts DEF Stamped, Access
  <2>8. DecayedFreq(access[k]) < DecayedFreq(access[v])
    BY <2>5, <2>6, <2>7
  <2> QED
    BY <2>2, <2>8 DEF Before
<1> QED
  BY EvictInvariant, <1>1, PTL

\* Freeing values frees bytes: what is left is part of what there was.
LEMMA FreesTotal ==
  ASSUME NEW s, Good(s, {}), NEW r, Frees(s, r)
  PROVE  Total(r) <= Total(s)
<1>1. s \in Stores /\ KeyIndexConsistent(s) /\ s.keys \in Seq(Keys) /\ Len(s.keys) \in Nat
  BY StoreFields DEF Good, Ok
<1>2. IsFiniteSet(DOMAIN s.map)
  <2>1. IsFiniteSet(1 .. Len(s.keys))
    BY <1>1, FS_Interval
  <2> DEFINE place == [k \in DOMAIN s.map |-> s.map[k].slot]
  <2>2. place \in Injection(DOMAIN s.map, 1 .. Len(s.keys))
    BY <1>1 DEF KeyIndexConsistent, Injection, IsInjective
  <2> QED
    BY <2>1, <2>2, FS_Injection
<1>3. IsFiniteSet((DOMAIN s.map) \X (1 .. MaxLen))
  <2>1. IsFiniteSet(1 .. MaxLen)
    BY FS_Interval, MaxLenAssumption
  <2> QED
    BY <1>2, <2>1, FS_Product
<1>4. Bytes(s) \in SUBSET ((DOMAIN s.map) \X (1 .. MaxLen))
  BY DEF Bytes
<1>5. IsFiniteSet(Bytes(s))
  BY <1>3, <1>4, FS_Subset
<1>6. Bytes(r) \in SUBSET Bytes(s)
  BY DEF Bytes, Frees
<1> QED
  BY <1>5, <1>6, FS_Subset DEF Total

\* A store that stays frees nothing and adds nothing.
LEMMA SameTotal ==
  ASSUME Inv, store' = store
  PROVE  Total(store') <= Total(store)
<1>1. Good(store, {}) /\ Frees(store, store')
  BY DEF Inv, Fits, Held, Frees
<1> QED
  BY <1>1, FreesTotal

\* Over the limit only commands that free or keep pass the gate.
LEMMA CommandFrees ==
  ASSUME Inv, Command, ~WithinLimit
  PROVE  Frees(store, store')
<1>1. minute \in Nat /\ Fits(Held) /\ Held.store = store
  BY InvSound DEF Sound, Held
<1>2. ASSUME NEW op, NEW h, NEW used, NEW found, Run(op, h, used, found)
      PROVE  op \notin DenyOom /\ store' = h.store
  BY <1>2 DEF Run, Becomes
<1>3. ASSUME NEW k \in Keys, NEW counts \in BOOLEAN, Get(k, counts)
      PROVE  Frees(store, store')
  <2>1. PICK h : h = Lookup(Held, k, counts)
    OBVIOUS
  <2>2. Run("get", h, {k}, {k})
    BY <1>3, <2>1 DEF Get
  <2>3. Frees(Held.store, h.store)
    BY <1>1, <2>1, GetUses
  <2> QED
    BY <1>1, <1>2, <2>2, <2>3
<1>4. ASSUME NEW k \in Keys, NEW counts \in BOOLEAN, DelKey(k, counts)
      PROVE  Frees(store, store')
  <2>1. PICK h : h = Delete(Held, k, counts)
    OBVIOUS
  <2>2. Run("del", h, {k}, {k})
    BY <1>4, <2>1 DEF DelKey
  <2>3. Frees(Held.store, h.store)
    BY <1>1, <2>1, DeleteUses
  <2> QED
    BY <1>1, <1>2, <2>2, <2>3
<1>5. ASSUME NEW k \in Keys, NEW counts \in BOOLEAN, NEW at \in Deadlines, Expire(k, at, counts)
      PROVE  Frees(store, store')
  <2>1. PICK h : h = ExpireAt(Held, k, at, counts)
    OBVIOUS
  <2>2. Run("expire", h, {k}, {k})
    BY <1>5, <2>1 DEF Expire
  <2>3. at \in Nat
    BY EvictInputsAssumption
  <2>4. Frees(Held.store, h.store)
    BY <1>1, <2>1, <2>3, ExpireUses
  <2> QED
    BY <1>1, <1>2, <2>2, <2>4
<1>6. ASSUME Other PROVE Frees(store, store')
  <2>1. store' = store
    BY <1>1, <1>2, <1>6 DEF Other
  <2> QED
    BY <2>1 DEF Frees
<1>7. ASSUME NEW k, NEW n, NEW at, NEW counts, Set(k, n, at, counts) PROVE FALSE
  <2>1. "set" \notin DenyOom
    BY <1>2, <1>7 DEF Set
  <2> QED
    BY <2>1 DEF DenyOom
<1>8. ASSUME NEW k, NEW new, NEW counts, NEW again, RenameKey(k, new, counts, again) PROVE FALSE
  <2>1. "rename" \notin DenyOom
    BY <1>2, <1>8 DEF RenameKey
  <2> QED
    BY <2>1 DEF DenyOom
<1>9. ASSUME NEW k, NEW dest, NEW counts, Copy(k, dest, counts) PROVE FALSE
  <2>1. "copy" \notin DenyOom
    BY <1>2, <1>9 DEF Copy
  <2> QED
    BY <2>1 DEF DenyOom
<1> QED
  BY <1>3, <1>4, <1>5, <1>6, <1>7, <1>8, <1>9 DEF Command

\* A key dropped is a value freed.
LEMMA DropFrees ==
  ASSUME Inv, NEW k \in DOMAIN store.map, Drop(k)
  PROVE  Frees(store, store')
<1>1. PICK s : s = MarkDirty(RemoveEntry(store, k))
  OBVIOUS
<1>2. PICK g : g = Kept(Held, s)
  OBVIOUS
<1>3. g.store = s /\ Frees(store, s)
  BY <1>1, <1>2, DropFacts
<1>4. Becomes(g)
  BY <1>1, <1>2, Zenon DEF Drop
<1> QED
  BY <1>3, <1>4 DEF Becomes

\* NoGrowthOverLimit for every instance: the gate turns every command away
\* that could add to what is stored, and what it lets through, like each
\* eviction and each sweep, leaves part of the bytes there were.
THEOREM EvictNoGrowth == Spec => NoGrowthOverLimit
<1>1. ASSUME Inv, [Next]_vars
      PROVE  [~WithinLimit => Total(store') <= Total(store)]_vars
  <2>1. SUFFICES ASSUME Next, ~WithinLimit PROVE Total(store') <= Total(store)
    BY <1>1
  <2>2. ASSUME Frees(store, store') PROVE Total(store') <= Total(store)
    <3>1. Good(store, {})
      BY <1>1 DEF Inv, Fits, Held
    <3> QED
      BY <2>2, <3>1, FreesTotal
  <2>3. ASSUME store' = store PROVE Total(store') <= Total(store)
    BY <1>1, <2>3, SameTotal
  <2>4. ASSUME NEW draws \in Draws, EvictRound(draws) PROVE Frees(store, store')
    <3>1. Choose(draws) \in DOMAIN store.map /\ Drop(Choose(draws))
      BY <1>1, <2>4, EvictRoundInv DEF EvictRound
    <3> QED
      BY <1>1, <3>1, DropFrees
  <2>5. ASSUME NEW k \in DueKeys(store, now), SweepKey(k) PROVE Frees(store, store')
    <3>1. k \in DOMAIN store.map /\ Drop(k)
      BY <2>5 DEF SweepKey, DueKeys
    <3> QED
      BY <1>1, <3>1, DropFrees
  <2>6. ASSUME Command PROVE Frees(store, store')
    BY <1>1, <2>1, <2>6, CommandFrees
  <2>7. CASE \/ \E n \in 1 .. MaxBatch : Dispatch(n)
             \/ \E op \in DenyOom : Refuse(op)
             \/ \E c \in Configs : ConfigSet(c)
             \/ \E n \in Besides : Allocate(n)
             \/ Tick
             \/ Minute
    <3>1. store' = store
      BY <1>1, <2>7, AroundInv
    <3> QED
      BY <2>3, <3>1
  <2>8. CASE \/ \E draws \in Draws : EvictRound(draws)
             \/ Command
             \/ \E k \in DueKeys(store, now) : SweepKey(k)
    BY <2>2, <2>4, <2>5, <2>6, <2>8
  <2> QED
    BY <2>1, <2>7, <2>8 DEF Next
<1>2. Inv /\ [Next]_vars => [~WithinLimit => Total(store') <= Total(store)]_vars
  BY <1>1
<1> QED
  BY EvictInvariant, <1>2, PTL DEF Spec, NoGrowthOverLimit

=============================================================================
