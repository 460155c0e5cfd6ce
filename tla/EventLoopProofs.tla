-------------------------- MODULE EventLoopProofs --------------------------
(***************************************************************************)
(* The event loop, proved for any number of clients, keys and commands.    *)
(* First what a command does to the keyspace, then the invariant: types    *)
(* and phases, who waits, and which keys are still to be looked at.        *)
(***************************************************************************)
EXTENDS EventLoop, TLAPS, FiniteSetTheorems, FunctionTheorems, SequenceTheorems

Queues == {"list", "zset"}

\* A keyspace in which what is a queue has an element: an emptied list or
\* sorted set is deleted.
Sound(d) ==
  /\ d \in [Keys -> Content]
  /\ \A k \in Keys : d[k].size = 0 <=> d[k].type \notin Queues

-----------------------------------------------------------------------------
(***************************************************************************)
(* What a selection keeps: the elements at the places selected, each once, *)
(* in their order.  The ranks of the places are an injection of the places *)
(* into as many numbers, and so a bijection: no induction is needed.       *)
(***************************************************************************)
\* A set of numbers that has a member has a least one.
LEMMA NatMin ==
  ASSUME NEW S \in SUBSET Nat, S # {}
  PROVE  \E x \in S : \A y \in S : x <= y
<1> DEFINE R == OpToRel(<, Nat)
<1>1. IsWellFoundedOn(R, Nat)
  BY NatLessThanWellFounded
<1>2. \A x, y \in Nat : x < y => <<x, y>> \in R
  BY Zenon DEF OpToRel
<1> HIDE DEF R
<1>3. PICK x \in S : \A y \in S : ~(<<y, x>> \in R)
  BY <1>1, WFMin
<1>4. ASSUME NEW y \in S
      PROVE  x <= y
  <2>1. x \in Nat /\ y \in Nat
    OBVIOUS
  <2>2. ~(y < x)
    BY <1>2, <1>3, <2>1, Zenon
  <2> QED
    BY <2>1, <2>2
<1> QED
  BY <1>4

\* The places of a sequence are finitely many.
LEMMA PlacesFinite ==
  ASSUME NEW m \in Nat, NEW I \in SUBSET (1 .. m)
  PROVE  /\ IsFiniteSet(I)
         /\ Cardinality(I) \in Nat
         /\ \A i \in I : i \in Int
<1>1. IsFiniteSet(1 .. m)
  BY FS_Interval
<1>2. IsFiniteSet(I)
  BY <1>1, FS_Subset
<1>3. \A i \in I : i \in Int
  OBVIOUS
<1> QED
  BY <1>2, <1>3, FS_CardinalityType

\* The rank of a place counts from 1 up to the number of places.
LEMMA RankType ==
  ASSUME NEW m \in Nat, NEW I \in SUBSET (1 .. m)
  PROVE  \A i \in I : Rank(I, i) \in Nat /\ Rank(I, i) \in 1 .. Cardinality(I)
<1> SUFFICES ASSUME NEW i \in I
             PROVE  Rank(I, i) \in Nat /\ Rank(I, i) \in 1 .. Cardinality(I)
  OBVIOUS
<1> DEFINE U == {j \in I : j <= i}
<1>1. IsFiniteSet(I)
  BY PlacesFinite
<1>2. /\ IsFiniteSet(U)
      /\ Cardinality(U) <= Cardinality(I)
  BY <1>1, FS_Subset
<1>3. U # {}
  BY PlacesFinite
<1>4. Cardinality(U) # 0 /\ Cardinality(U) \in Nat /\ Cardinality(I) \in Nat
  BY <1>1, <1>2, <1>3, FS_EmptySet, FS_CardinalityType
<1> QED
  BY <1>2, <1>4 DEF Rank

\* A later place has a higher rank.
LEMMA RankMonotone ==
  ASSUME NEW m \in Nat, NEW I \in SUBSET (1 .. m)
  PROVE  \A i, j \in I : i < j => Rank(I, i) < Rank(I, j)
<1> SUFFICES ASSUME NEW i \in I, NEW j \in I, i < j
             PROVE  Rank(I, i) < Rank(I, j)
  OBVIOUS
<1> DEFINE U == {x \in I : x <= i}
           V == {x \in I : x <= j}
<1>1. IsFiniteSet(V)
  BY PlacesFinite, FS_Subset
<1>2. \A x \in I : x \in Int
  BY PlacesFinite
<1>3. U \in SUBSET V /\ j \in V /\ j \notin U
  <2>1. \A x \in I : x <= i => x <= j
    BY <1>2
  <2>2. j <= j /\ ~(j <= i)
    BY <1>2
  <2> QED
    BY <2>1, <2>2
<1>4. /\ Cardinality(U) <= Cardinality(V)
      /\ Cardinality(U) # Cardinality(V)
      /\ IsFiniteSet(U)
  BY <1>1, <1>3, FS_Subset
<1>5. Cardinality(U) \in Nat /\ Cardinality(V) \in Nat
  BY <1>1, <1>4, FS_CardinalityType
<1> QED
  BY <1>4, <1>5 DEF Rank

\* Places of the same rank are the same place.
LEMMA RankInjective ==
  ASSUME NEW m \in Nat, NEW I \in SUBSET (1 .. m)
  PROVE  \A i, j \in I : Rank(I, i) = Rank(I, j) => i = j
<1> SUFFICES ASSUME NEW i \in I, NEW j \in I, Rank(I, i) = Rank(I, j)
             PROVE  i = j
  OBVIOUS
<1>1. Rank(I, i) \in Nat /\ Rank(I, j) \in Nat
  BY RankType
<1>2. i \in Int /\ j \in Int
  BY PlacesFinite
<1>3. \A x, y \in I : x < y => Rank(I, x) < Rank(I, y)
  BY RankMonotone
<1>4. ~(i < j) /\ ~(j < i)
  BY <1>1, <1>3
<1> QED
  BY <1>2, <1>4

\* Every rank is taken.
LEMMA PlaceFacts ==
  ASSUME NEW m \in Nat, NEW I \in SUBSET (1 .. m)
  PROVE  \A n \in 1 .. Cardinality(I) : Place(I, n) \in I /\ Rank(I, Place(I, n)) = n
<1> DEFINE T == 1 .. Cardinality(I)
           f == [i \in I |-> Rank(I, i)]
<1>1. IsFiniteSet(I) /\ Cardinality(I) \in Nat
  BY PlacesFinite
<1>2. IsFiniteSet(T) /\ Cardinality(T) = Cardinality(I)
  BY <1>1, FS_Interval
<1>3. f \in [I -> T]
  BY RankType
<1>4. \A i, j \in I : f[i] = f[j] => i = j
  BY RankInjective
<1>5. \A i \in I : f[i] = Rank(I, i)
  OBVIOUS
<1> HIDE DEF f
<1>6. f \in Injection(I, T)
  BY <1>3, <1>4, Fun_IsInj
<1>7. f \in Surjection(I, T)
  BY <1>2, <1>6, FS_Injection
<1>8. \A n \in T : \E i \in I : f[i] = n
  BY <1>7, Fun_SurjectionProperties
<1> QED
  BY <1>5, <1>8 DEF Place

\* A selection of a sequence is a sequence: of the elements selected, all of
\* them, each once and in their order.
LEMMA AtFacts ==
  ASSUME NEW S, NEW s \in Seq(S), NEW I \in SUBSET DOMAIN s
  PROVE  /\ At(s, I) \in Seq(S)
         /\ DOMAIN At(s, I) = 1 .. Cardinality(I)
         /\ Cardinality(I) \in Nat
         /\ \A n \in DOMAIN At(s, I) : Place(I, n) \in I /\ At(s, I)[n] = s[Place(I, n)]
         /\ \A n, o \in DOMAIN At(s, I) : n < o => Place(I, n) < Place(I, o)
<1>1. Len(s) \in Nat /\ I \in SUBSET (1 .. Len(s))
  OBVIOUS
<1>2. Cardinality(I) \in Nat /\ \A i \in I : i \in Int
  BY <1>1, PlacesFinite
<1>3. \A n \in 1 .. Cardinality(I) : Place(I, n) \in I /\ Rank(I, Place(I, n)) = n
  BY <1>1, PlaceFacts
<1>4. DOMAIN At(s, I) = 1 .. Cardinality(I)
  BY DEF At
<1>5. At(s, I) \in [1 .. Cardinality(I) -> S]
  BY <1>3 DEF At
<1>6. At(s, I) \in Seq(S)
  BY <1>2, <1>5
<1>7. \A n \in DOMAIN At(s, I) : Place(I, n) \in I /\ At(s, I)[n] = s[Place(I, n)]
  BY <1>3, <1>4 DEF At
<1>8. ASSUME NEW n \in 1 .. Cardinality(I), NEW o \in 1 .. Cardinality(I), n < o
      PROVE  Place(I, n) < Place(I, o)
  <2>1. Place(I, n) \in I /\ Place(I, o) \in I
    BY <1>3
  <2>2. Rank(I, Place(I, n)) = n /\ Rank(I, Place(I, o)) = o
    BY <1>3
  <2>3. \A i, j \in I : i < j => Rank(I, i) < Rank(I, j)
    BY <1>1, RankMonotone
  <2>4. ~(Place(I, o) < Place(I, n))
    BY <1>2, <1>8, <2>1, <2>2, <2>3
  <2>5. Place(I, n) # Place(I, o)
    BY <1>2, <1>8, <2>2
  <2> QED
    BY <1>2, <2>1, <2>4, <2>5
<1> QED
  BY <1>2, <1>4, <1>6, <1>7, <1>8

\* Every element selected is there.
LEMMA AtCovers ==
  ASSUME NEW S, NEW s \in Seq(S), NEW I \in SUBSET DOMAIN s, NEW i \in I
  PROVE  \E n \in DOMAIN At(s, I) : Place(I, n) = i /\ At(s, I)[n] = s[i]
<1>1. Len(s) \in Nat /\ I \in SUBSET (1 .. Len(s))
  OBVIOUS
<1>2. Rank(I, i) \in 1 .. Cardinality(I)
  BY <1>1, RankType
<1>3. Place(I, Rank(I, i)) \in I /\ Rank(I, Place(I, Rank(I, i))) = Rank(I, i)
  BY <1>1, <1>2, PlaceFacts
<1>4. \A j, k \in I : Rank(I, j) = Rank(I, k) => j = k
  BY <1>1, RankInjective
<1>5. Place(I, Rank(I, i)) = i
  BY <1>3, <1>4
<1> QED
  BY <1>2, <1>5 DEF At

-----------------------------------------------------------------------------
(***************************************************************************)
(* Commands.                                                               *)
(***************************************************************************)
LEMMA CommandFacts ==
  ASSUME NEW cmd \in Commands
  PROVE  /\ cmd.keys \in Seq(Keys)
         /\ cmd.kind \in Queues /\ cmd.count \in Nat \ {0}
         /\ cmd.op \in {"push", "set", "del", "move"} => cmd.keys[1] \in Keys /\ cmd.keys[1] \in ToSet(cmd.keys)
         /\ cmd.op = "move" => cmd.keys[2] \in Keys /\ cmd.keys[2] \in ToSet(cmd.keys)
         /\ ToSet(cmd.keys) \subseteq Keys
         /\ WaitsOn(cmd) \subseteq ToSet(cmd.keys)
<1>1. cmd.keys \in Seq(Keys) /\ cmd.kind \in Queues /\ cmd.count \in Nat \ {0}
  BY CommandsAssumption DEF Command, Queues
<1>2. DOMAIN cmd.keys = 1 .. Len(cmd.keys) /\ \A i \in DOMAIN cmd.keys : cmd.keys[i] \in Keys
  BY <1>1
<1>3. /\ cmd.op \in {"push", "set", "del"} => Len(cmd.keys) = 1
      /\ cmd.op = "move" => Len(cmd.keys) = 2
  BY CommandsAssumption
<1>5. /\ cmd.op \in {"push", "set", "del", "move"} => 1 \in DOMAIN cmd.keys
      /\ cmd.op = "move" => 2 \in DOMAIN cmd.keys
  <2>1. 1 \in 1 .. 1 /\ 1 \in 1 .. 2 /\ 2 \in 1 .. 2
    OBVIOUS
  <2> QED
    BY <1>2, <1>3, <2>1
<1>4. ToSet(cmd.keys) \subseteq Keys
  BY <1>2 DEF ToSet
<1> QED
  BY <1>1, <1>2, <1>4, <1>5 DEF WaitsOn, ToSet

\* push_to makes a queue longer.
LEMMA GrowFacts ==
  ASSUME NEW d, Sound(d), NEW k \in Keys, NEW kind \in Queues, NEW n \in Nat \ {0}
  PROVE  /\ Sound(Grow(d, k, kind, n))
         /\ \A x \in Keys \ {k} : Grow(d, k, kind, n)[x] = d[x]
         /\ Grow(d, k, kind, n)[k].type = kind
         /\ Grow(d, k, kind, n)[k].size = d[k].size + n
<1>1. d[k].size \in Nat
  BY DEF Sound, Content
<1>2. [type |-> kind, size |-> d[k].size + n] \in Content
  BY <1>1 DEF Content, Queues
<1>3. Grow(d, k, kind, n) = [d EXCEPT ![k] = [type |-> kind, size |-> d[k].size + n]]
  BY DEF Grow
<1> QED
  BY <1>1, <1>2, <1>3 DEF Sound

\* pop_from takes elements and deletes an empty queue.
LEMMA ShrinkFacts ==
  ASSUME NEW d, Sound(d), NEW k \in Keys, d[k].type \in Queues, NEW n \in Nat \ {0}
  PROVE  /\ Sound(Shrink(d, k, n))
         /\ \A x \in Keys \ {k} : Shrink(d, k, n)[x] = d[x]
         /\ Shrink(d, k, n)[k].type \in {d[k].type, "none"}
<1>1. d \in [Keys -> Content] /\ d[k] \in Content /\ d[k].size \in Nat /\ d[k].size # 0
  BY DEF Sound, Content
<1> DEFINE e == IF d[k].size <= n THEN Missing ELSE [type |-> d[k].type, size |-> d[k].size - n]
<1>2. /\ e \in Content
      /\ e.type \in {d[k].type, "none"}
      /\ e.size = 0 <=> e.type \notin Queues
  <2>1. CASE d[k].size <= n
    BY <2>1 DEF Missing, Content, Queues
  <2>2. CASE ~(d[k].size <= n)
    <3>1. d[k].size - n \in Nat \ {0}
      BY <1>1, <2>2
    <3> QED
      BY <1>1, <2>2, <3>1 DEF Content, Queues
  <2> QED
    BY <2>1, <2>2
<1>3. Shrink(d, k, n) = [d EXCEPT ![k] = e]
  BY DEF Shrink
<1> HIDE DEF e
<1> QED
  BY <1>1, <1>2, <1>3 DEF Sound

\* What the provers need of the answer of a command.
Answered(cmd, d, r) ==
  /\ Sound(r.db)
  /\ r.reply \in {"ok", "nil", "value", "error", "park"}
  /\ r.reply \in {"error", "park", "nil"} => r.db = d
  /\ r.reply = "park" => \A k \in WaitsOn(cmd) : d[k].type \notin Queues
  /\ r.reply = "value" => \E k \in WaitsOn(cmd) : d[k].type \in Queues
  /\ cmd.op = "flush" => r.db = Nothing
  /\ \A k \in Keys \ ToSet(cmd.keys) : r.db[k].type \in Queues => d[k].type \in Queues

LEMMA NothingSound == Sound(Nothing) /\ \A k \in Keys : Nothing[k].type \notin Queues
BY DEF Sound, Nothing, Missing, Content, Queues

LEMMA PushFacts ==
  ASSUME NEW d, Sound(d), NEW cmd \in Commands, cmd.op = "push"
  PROVE  Answered(cmd, d, Push(cmd, d))
<1>1. /\ cmd.keys[1] \in Keys /\ cmd.keys[1] \in ToSet(cmd.keys) /\ cmd.kind \in Queues
      /\ cmd.count \in Nat \ {0}
  BY CommandFacts
<1>2. CASE TypeAllows(d, cmd.keys[1], cmd.kind)
  <2>1. /\ Push(cmd, d).db = Grow(d, cmd.keys[1], cmd.kind, cmd.count) /\ Push(cmd, d).reply = "ok"
    BY <1>2 DEF Push, Answer
  <2> DEFINE e == Grow(d, cmd.keys[1], cmd.kind, cmd.count)
  <2>2. Sound(e) /\ \A k \in Keys \ {cmd.keys[1]} : e[k] = d[k]
    BY <1>1, GrowFacts
  <2> HIDE DEF e
  <2>3. Push(cmd, d).db = e
    BY <2>1 DEF e
  <2> QED
    BY <1>1, <2>1, <2>2, <2>3 DEF Answered
<1>3. CASE ~TypeAllows(d, cmd.keys[1], cmd.kind)
  <2>1. Push(cmd, d).db = d /\ Push(cmd, d).reply = "error"
    BY <1>3 DEF Push, Answer
  <2> QED
    BY <2>1 DEF Answered
<1> QED
  BY <1>2, <1>3

\* A key that is missing is one of no type.
LEMMA MissingFacts ==
  ASSUME NEW d, Sound(d), NEW k \in Keys
  PROVE  d[k] = Missing <=> d[k].type = "none"
<1>1. d[k] \in Content /\ (d[k].size = 0 <=> d[k].type \notin Queues)
  BY DEF Sound
<1>2. d[k] = [type |-> d[k].type, size |-> d[k].size]
  BY <1>1 DEF Content
<1> QED
  BY <1>1, <1>2 DEF Missing, Queues

LEMMA PopFacts ==
  ASSUME NEW d, Sound(d), NEW cmd \in Commands, cmd.op = "pop"
  PROVE  Answered(cmd, d, Pop(cmd, d))
<1> DEFINE keys == cmd.keys
           I == {i \in 1 .. Len(keys) : d[keys[i]] # Missing}
           first == SelectInSeq(keys, LAMBDA k : d[k] # Missing)
<1>1. /\ keys \in Seq(Keys) /\ cmd.kind \in Queues /\ WaitsOn(cmd) = ToSet(keys)
      /\ cmd.count \in Nat \ {0}
  BY CommandFacts DEF WaitsOn
<1>2. first = IF I # {} THEN Min(I) ELSE 0
  BY DEF SelectInSeq
<1>3. DOMAIN keys = 1 .. Len(keys) /\ \A i \in DOMAIN keys : keys[i] \in Keys
  BY <1>1
<1>4. CASE I = {}
  <2>1. \A k \in ToSet(keys) : d[k] = Missing /\ d[k].type \notin Queues
    BY <1>3, <1>4 DEF ToSet, Missing, Queues
  <2>2. Pop(cmd, d) = NotFound(cmd, d)
    BY <1>2, <1>4 DEF Pop
  <2>3. Pop(cmd, d).db = d /\ Pop(cmd, d).reply \in {"nil", "park"}
    BY <2>2 DEF NotFound, Answer
  <2> QED
    BY <1>1, <2>1, <2>3 DEF Answered
<1>5. CASE I # {}
  <2>1. I \in SUBSET Nat
    OBVIOUS
  <2>2. \E x \in I : \A y \in I : x <= y
    BY <1>5, <2>1, NatMin
  <2>3. Min(I) \in I
    BY <2>2 DEF Min
  <2>4. first \in 1 .. Len(keys) /\ first # 0
    BY <1>2, <1>5, <2>3
  <2>5. keys[first] \in Keys /\ keys[first] \in ToSet(keys)
    BY <1>3, <2>4 DEF ToSet
  <2> HIDE DEF first
  <2>6. CASE d[keys[first]].type = cmd.kind
    <3>1. Pop(cmd, d) = Answer(Shrink(d, keys[first], cmd.count), "value")
      BY <2>4, <2>6 DEF Pop, first
    <3>2. Pop(cmd, d).db = Shrink(d, keys[first], cmd.count) /\ Pop(cmd, d).reply = "value"
      BY <3>1 DEF Answer
    <3> QED
      BY <1>1, <2>5, <2>6, <3>2, ShrinkFacts DEF Answered
  <2>7. CASE d[keys[first]].type # cmd.kind
    <3>1. Pop(cmd, d) = Answer(d, "error")
      BY <2>4, <2>7 DEF Pop, first
    <3>2. Pop(cmd, d).db = d /\ Pop(cmd, d).reply = "error"
      BY <3>1 DEF Answer
    <3> QED
      BY <3>2 DEF Answered
  <2> QED
    BY <2>6, <2>7
<1> QED
  BY <1>4, <1>5

LEMMA MoveFacts ==
  ASSUME NEW d, Sound(d), NEW cmd \in Commands, cmd.op = "move"
  PROVE  Answered(cmd, d, Move(cmd, d))
<1> DEFINE from == cmd.keys[1]
           to == cmd.keys[2]
<1>1. /\ from \in Keys /\ to \in Keys /\ from \in ToSet(cmd.keys) /\ to \in ToSet(cmd.keys)
      /\ WaitsOn(cmd) = {from}
  BY CommandFacts DEF WaitsOn
<1>2. CASE ~TypeAllows(d, from, "list") \/ ~TypeAllows(d, to, "list")
  <2>1. Move(cmd, d).db = d /\ Move(cmd, d).reply = "error"
    BY <1>2 DEF Move, Answer
  <2> QED
    BY <2>1 DEF Answered
<1>3. CASE TypeAllows(d, from, "list") /\ TypeAllows(d, to, "list") /\ d[from] = Missing
  <2>1. Move(cmd, d).db = d /\ Move(cmd, d).reply \in {"nil", "park"}
    BY <1>3 DEF Move, NotFound, Answer
  <2>2. d[from].type \notin Queues
    BY <1>3 DEF Missing, Queues
  <2> QED
    BY <1>1, <2>1, <2>2 DEF Answered
<1>4. CASE TypeAllows(d, from, "list") /\ TypeAllows(d, to, "list") /\ d[from] # Missing
  <2> DEFINE e == Shrink(d, from, 1)
  <2>1. /\ Move(cmd, d).db = Grow(e, to, "list", 1) /\ Move(cmd, d).reply = "value"
    BY <1>4 DEF Move, Answer
  <2>2. d[from].type \in Queues
    BY <1>1, <1>4, MissingFacts DEF TypeAllows, Queues
  <2>3. /\ Sound(e) /\ \A k \in Keys \ {from} : e[k] = d[k]
    BY <1>1, <2>2, ShrinkFacts
  <2> HIDE DEF e
  <2>4. /\ Sound(Grow(e, to, "list", 1)) /\ \A k \in Keys \ {to} : Grow(e, to, "list", 1)[k] = e[k]
    BY <1>1, <2>3, GrowFacts DEF Queues
  <2> QED
    BY <1>1, <2>1, <2>2, <2>3, <2>4 DEF Answered
<1> QED
  BY <1>2, <1>3, <1>4

\* Every command answers, and says with its answer what it found.
LEMMA RunFacts ==
  ASSUME NEW d, Sound(d), NEW cmd \in Commands
  PROVE  Answered(cmd, d, Run(cmd, d))
<1>1. cmd.op \in {"push", "pop", "move", "set", "del", "flush", "quit", "bad"}
  BY CommandsAssumption DEF Command
<1>2. CASE cmd.op = "push"
  BY <1>2, PushFacts DEF Run
<1>3. CASE cmd.op = "pop"
  BY <1>3, PopFacts DEF Run
<1>4. CASE cmd.op = "move"
  BY <1>4, MoveFacts DEF Run
<1>5. CASE cmd.op \in {"set", "del"}
  <2> DEFINE e == IF cmd.op = "set" THEN [type |-> "string", size |-> 0] ELSE Missing
  <2>1. cmd.keys[1] \in Keys /\ cmd.keys[1] \in ToSet(cmd.keys)
    BY <1>5, CommandFacts
  <2>2. e \in Content /\ e.size = 0 /\ e.type \notin Queues
    BY DEF Missing, Content, Queues
  <2>3. Run(cmd, d).db = [d EXCEPT ![cmd.keys[1]] = e] /\ Run(cmd, d).reply = "ok"
    BY <1>5 DEF Run, Answer
  <2> HIDE DEF e
  <2>4. Sound([d EXCEPT ![cmd.keys[1]] = e])
    BY <2>1, <2>2 DEF Sound
  <2> QED
    BY <1>5, <2>1, <2>3, <2>4 DEF Answered, Sound
<1>6. CASE cmd.op = "flush"
  <2>1. Run(cmd, d).db = Nothing /\ Run(cmd, d).reply = "ok"
    BY <1>6 DEF Run, Answer
  <2> QED
    BY <2>1, NothingSound DEF Answered
<1>7. CASE cmd.op \in {"quit", "bad"}
  <2>1. Run(cmd, d).db = d /\ Run(cmd, d).reply = "ok"
    BY <1>7 DEF Run, Answer
  <2> QED
    BY <1>7, <2>1 DEF Answered
<1> QED
  BY <1>1, <1>2, <1>3, <1>4, <1>5, <1>6, <1>7

\* signal_writes: a queue that a command made is ready if anybody waits.
LEMMA ReadiedFacts ==
  ASSUME NEW d, Sound(d), NEW cmd \in Commands, NEW waiters \in Seq(Waiter)
  PROVE  LET r == Run(cmd, d)
         IN  /\ Readied(cmd, r, waiters) \subseteq Keys
             /\ waiters # <<>> =>
                  \A k \in Keys : r.db[k].type \in Queues =>
                    d[k].type \in Queues \/ k \in Readied(cmd, r, waiters)
<1> DEFINE r == Run(cmd, d)
<1>1. Answered(cmd, d, r)
  BY RunFacts
<1> HIDE DEF r
<1>2. ToSet(cmd.keys) \subseteq Keys
  BY CommandFacts
<1>3. \A i \in DOMAIN waiters : WaitsOn(waiters[i].cmd) \subseteq Keys
  <2>1. \A i \in DOMAIN waiters : waiters[i] \in Waiter
    OBVIOUS
  <2>2. \A i \in DOMAIN waiters : waiters[i].cmd \in Commands
    BY <2>1 DEF Waiter
  <2> QED
    BY <2>2, CommandFacts
<1>4. UNION {WaitsOn(waiters[i].cmd) : i \in DOMAIN waiters} \subseteq Keys
  BY <1>3
<1>5. Readied(cmd, r, waiters) \subseteq Keys
  BY <1>2, <1>4 DEF Readied
<1>6. ASSUME waiters # <<>>, NEW k \in Keys, r.db[k].type \in Queues, d[k].type \notin Queues
      PROVE  k \in Readied(cmd, r, waiters)
  <2>1. k \in ToSet(cmd.keys) /\ r.reply \notin {"error", "park"} /\ cmd.op # "flush"
    BY <1>1, <1>6, NothingSound DEF Answered
  <2> QED
    BY <1>6, <2>1 DEF Readied, Queues
<1> QED
  BY <1>5, <1>6 DEF r

-----------------------------------------------------------------------------
(***************************************************************************)
(* The invariant.                                                          *)
(***************************************************************************)
WireTyped ==
  /\ conns \subseteq Clients
  /\ peer \in [Clients -> {"up", "eof", "reset"}]
  /\ sent \in [Clients -> Seq(Commands)]
  /\ nsent \in [Clients -> 0 .. MaxSent]
  /\ rbuf \in [Clients -> Seq(Commands)]
  /\ owed \in [Clients -> Int]
  /\ out \subseteq conns /\ closing \subseteq conns /\ parked \subseteq conns
  /\ blocked \in Seq(Waiter)
  /\ ready \subseteq Keys /\ batch \subseteq Keys

LoopTyped ==
  /\ phase \in Phases
  /\ order \subseteq conns /\ writable \subseteq conns
  /\ running = {} \/ \E c \in conns : running = {c}
  /\ index \in Nat
  /\ woken \in Seq(conns)

\* What a phase uses is empty outside it; no connection is removed while one
\* of them names it.
Phased ==
  /\ order # {} \/ writable # {} => phase \in {"accept", "io"}
  /\ running # {} => phase \in {"io", "resume", "resume timeouts"}
  /\ woken # <<>> => phase \in {"serve", "resume", "resume timeouts"}

\* A new connection starts with an empty buffer, owing nothing.
GoneClean == \A c \in Clients \ conns : rbuf[c] = <<>> /\ owed[c] = 0

\* Whoever runs or is to be resumed is not parked, and is so only once.
WokenOnce ==
  /\ IsInjective(woken)
  /\ running \cap parked = {}
  /\ \A i \in DOMAIN woken : woken[i] \notin parked \cup running

\* Pipelined commands wait only behind a parked one, or for their turn.
Drained ==
  \A c \in conns \ (parked \cup closing \cup running \cup ToSet(woken)) : rbuf[c] = <<>>

\* A queue that a waiter waits on is to be looked at: with the next batch, or
\* in this one, which has not got to the waiter yet.
WakeUpKept ==
  \A i \in DOMAIN blocked : \A k \in WaitsOn(blocked[i].cmd) :
    blocked[i].id \notin closing /\ db[k].type \in Queues =>
      k \in ready \/ (phase = "serve" /\ i >= index /\ k \in batch)

Typed == Sound(db) /\ WireTyped /\ LoopTyped /\ Phased /\ GoneClean
Waiting == ParkedOnce /\ AnsweredOnce /\ WokenOnce /\ Drained
IInv == Typed /\ Waiting /\ WakeUpKept

-----------------------------------------------------------------------------
(***************************************************************************)
(* The registry of parked commands.                                        *)
(***************************************************************************)
IdsOf(b) == {b[i].id : i \in DOMAIN b}
OnceIn(b) == \A i, j \in DOMAIN b : b[i].id = b[j].id => i = j

LEMMA ParkedOnceFacts ==
  ParkedOnce <=> /\ OnceIn(blocked)
                 /\ IdsOf(blocked) \subseteq parked
                 /\ parked \ closing \subseteq IdsOf(blocked)
BY DEF ParkedOnce, OnceIn, IdsOf

\* Taking one waiter out leaves the others, in their order.
LEMMA RemoveAtFacts ==
  ASSUME NEW S, NEW s \in Seq(S), NEW i \in DOMAIN s
  PROVE  /\ RemoveAt(s, i) \in Seq(S)
         /\ DOMAIN RemoveAt(s, i) = 1 .. Len(s) - 1
         /\ \A n \in DOMAIN RemoveAt(s, i) :
              \/ n < i /\ n \in DOMAIN s /\ RemoveAt(s, i)[n] = s[n]
              \/ n >= i /\ n + 1 \in DOMAIN s /\ RemoveAt(s, i)[n] = s[n + 1]
<1> DEFINE q == SubSeq(s, 1, i - 1)
           r == SubSeq(s, i + 1, Len(s))
<1>1. Len(s) \in Nat /\ DOMAIN s = 1 .. Len(s) /\ i \in 1 .. Len(s)
  OBVIOUS
<1>2. /\ q \in Seq(S) /\ Len(q) = i - 1 /\ \A n \in 1 .. i - 1 : q[n] = s[n]
  BY <1>1
<1>3. /\ r \in Seq(S) /\ Len(r) = Len(s) - i /\ \A n \in 1 .. Len(s) - i : r[n] = s[i + n]
  BY <1>1, SubSeqProperties, SMTT(30)
<1> HIDE DEF q, r
<1>4. /\ q \o r \in Seq(S)
      /\ Len(q \o r) = Len(q) + Len(r)
      /\ \A n \in 1 .. Len(q) + Len(r) : (q \o r)[n] = IF n <= Len(q) THEN q[n] ELSE r[n - Len(q)]
  BY <1>2, <1>3, ConcatProperties
<1>5. RemoveAt(s, i) = q \o r
  BY DEF RemoveAt, q, r
<1>6. DOMAIN RemoveAt(s, i) = 1 .. Len(s) - 1
  <2>1. DOMAIN (q \o r) = 1 .. Len(q \o r)
    BY <1>4
  <2>2. Len(q) + Len(r) = Len(s) - 1
    BY <1>1, <1>2, <1>3
  <2> QED
    BY <1>4, <1>5, <2>1, <2>2
<1>7. \A n \in 1 .. Len(s) - 1 : n < i => n \in DOMAIN s /\ RemoveAt(s, i)[n] = s[n]
  BY <1>1, <1>2, <1>3, <1>4, <1>5
<1>8. ASSUME NEW n \in 1 .. Len(s) - 1, n >= i
      PROVE  n + 1 \in DOMAIN s /\ RemoveAt(s, i)[n] = s[n + 1]
  <2>1. /\ n \in 1 .. Len(q) + Len(r) /\ ~(n <= Len(q))
        /\ n - Len(q) \in 1 .. Len(s) - i /\ i + (n - Len(q)) = n + 1
    BY <1>1, <1>2, <1>3, <1>8
  <2>2. RemoveAt(s, i)[n] = r[n - Len(q)]
    BY <1>4, <1>5, <2>1
  <2>3. r[n - Len(q)] = s[i + (n - Len(q))]
    BY ONLY <1>3, <2>1
  <2>4. n + 1 \in DOMAIN s
    BY <1>1
  <2> QED
    BY ONLY <2>1, <2>2, <2>3, <2>4
<1>9. \A n \in 1 .. Len(s) - 1 : n < i \/ n >= i
  BY <1>1
<1> QED
  BY <1>4, <1>5, <1>6, <1>7, <1>8, <1>9

LEMMA RemoveAtCovers ==
  ASSUME NEW S, NEW s \in Seq(S), NEW i \in DOMAIN s, NEW j \in DOMAIN s \ {i}
  PROVE  \E n \in DOMAIN RemoveAt(s, i) : RemoveAt(s, i)[n] = s[j]
<1> DEFINE q == RemoveAt(s, i)
<1>1. /\ DOMAIN q = 1 .. Len(s) - 1
      /\ \A n \in DOMAIN q :
           \/ n < i /\ n \in DOMAIN s /\ q[n] = s[n]
           \/ n >= i /\ n + 1 \in DOMAIN s /\ q[n] = s[n + 1]
  <2>1. DOMAIN RemoveAt(s, i) = 1 .. Len(s) - 1
    BY RemoveAtFacts
  <2>2. \A n \in DOMAIN RemoveAt(s, i) :
          \/ n < i /\ n \in DOMAIN s /\ RemoveAt(s, i)[n] = s[n]
          \/ n >= i /\ n + 1 \in DOMAIN s /\ RemoveAt(s, i)[n] = s[n + 1]
    BY RemoveAtFacts
  <2> QED
    BY <2>1, <2>2
<1> HIDE DEF q
<1>2. Len(s) \in Nat /\ i \in 1 .. Len(s) /\ j \in 1 .. Len(s) /\ i # j
  OBVIOUS
<1>3. CASE j < i
  <2>1. j \in 1 .. Len(s) - 1 /\ ~(j >= i)
    BY <1>2, <1>3
  <2> QED
    BY <1>1, <2>1 DEF q
<1>4. CASE j > i
  <2>1. j - 1 \in 1 .. Len(s) - 1 /\ ~(j - 1 < i) /\ (j - 1) + 1 = j
    BY <1>2, <1>4
  <2>2. q[j - 1] = s[j]
    BY <1>1, <2>1
  <2> QED
    BY <1>1, <2>1, <2>2 DEF q
<1> QED
  BY <1>2, <1>3, <1>4

LEMMA RemoveAtIds ==
  ASSUME NEW b \in Seq(Waiter), OnceIn(b), NEW i \in DOMAIN b
  PROVE  /\ OnceIn(RemoveAt(b, i))
         /\ IdsOf(RemoveAt(b, i)) = IdsOf(b) \ {b[i].id}
<1> DEFINE q == RemoveAt(b, i)
<1>1. /\ q \in Seq(Waiter)
      /\ \A n \in DOMAIN q :
           \/ n < i /\ n \in DOMAIN b /\ q[n] = b[n]
           \/ n >= i /\ n + 1 \in DOMAIN b /\ q[n] = b[n + 1]
  <2>1. RemoveAt(b, i) \in Seq(Waiter)
    BY RemoveAtFacts
  <2>2. \A n \in DOMAIN RemoveAt(b, i) :
          \/ n < i /\ n \in DOMAIN b /\ RemoveAt(b, i)[n] = b[n]
          \/ n >= i /\ n + 1 \in DOMAIN b /\ RemoveAt(b, i)[n] = b[n + 1]
    BY RemoveAtFacts
  <2> QED
    BY <2>1, <2>2
<1>7. \A j \in DOMAIN b \ {i} : \E n \in DOMAIN q : q[n] = b[j]
  BY RemoveAtCovers
<1> HIDE DEF q
<1>2. DOMAIN q = 1 .. Len(q) /\ i \in Int
  BY <1>1
<1>3. OnceIn(q)
  BY <1>1, <1>2, SMTT(30) DEF OnceIn
<1>4. \A n \in DOMAIN q : \E j \in DOMAIN b \ {i} : q[n] = b[j]
  BY <1>1, <1>2
<1>5. \A j \in DOMAIN b \ {i} : b[j].id # b[i].id
  BY DEF OnceIn
<1>6. IdsOf(q) = IdsOf(b) \ {b[i].id}
  <2>1. IdsOf(q) \subseteq IdsOf(b) \ {b[i].id}
    BY <1>4, <1>5 DEF IdsOf
  <2>2. IdsOf(b) \ {b[i].id} \subseteq IdsOf(q)
    BY <1>7 DEF IdsOf
  <2> QED
    BY <2>1, <2>2
<1> QED
  BY <1>3, <1>6 DEF q

LEMMA AtIds ==
  ASSUME NEW b \in Seq(Waiter), OnceIn(b), NEW I \in SUBSET DOMAIN b
  PROVE  /\ OnceIn(At(b, I))
         /\ IdsOf(At(b, I)) = {b[i].id : i \in I}
<1> DEFINE q == At(b, I)
<1>1. /\ \A n \in DOMAIN q : Place(I, n) \in I /\ q[n] = b[Place(I, n)]
      /\ \A n, o \in DOMAIN q : n < o => Place(I, n) < Place(I, o)
      /\ DOMAIN q = 1 .. Cardinality(I) /\ Cardinality(I) \in Nat
  BY AtFacts
<1>2. \A i \in I : \E n \in DOMAIN q : q[n] = b[i]
  BY AtCovers
<1> HIDE DEF q
<1>3. ASSUME NEW n \in DOMAIN q, NEW o \in DOMAIN q, q[n].id = q[o].id
      PROVE  n = o
  <2>1. Place(I, n) = Place(I, o)
    BY <1>1, <1>3 DEF OnceIn
  <2>2. Place(I, n) \in Int
    BY <1>1
  <2>3. ~(n < o) /\ ~(o < n)
    BY <1>1, <2>1, <2>2
  <2> QED
    BY <1>1, <2>3
<1>4. OnceIn(q)
  BY <1>3 DEF OnceIn
<1>5. IdsOf(q) = {b[i].id : i \in I}
  BY <1>1, <1>2 DEF IdsOf
<1> QED
  BY <1>4, <1>5 DEF q

-----------------------------------------------------------------------------
(***************************************************************************)
(* The steps that leave the waiters, or the keys they wait on, alone.      *)
(***************************************************************************)
LEMMA WaitingKept ==
  ASSUME Waiting, UNCHANGED <<blocked, parked, conns, owed, woken, running, rbuf>>,
         closing \subseteq closing'
  PROVE  Waiting'
BY DEF Waiting, ParkedOnce, AnsweredOnce, WokenOnce, Drained

LEMMA WakeUpKeptKept ==
  ASSUME WakeUpKept, UNCHANGED <<blocked, db, ready, index, batch>>,
         closing \subseteq closing', phase = phase' \/ phase # "serve"
  PROVE  WakeUpKept'
BY DEF WakeUpKept

LEMMA TypedFacts ==
  ASSUME Typed
  PROVE  /\ \A c \in conns : c \in Clients
         /\ \A c \in Clients : sent[c] \in Seq(Commands) /\ rbuf[c] \in Seq(Commands)
         /\ \A i \in DOMAIN blocked : blocked[i] \in Waiter
BY DEF Typed, WireTyped

LEMMA InitInv == Init => IInv
<1> SUFFICES ASSUME Init
             PROVE  IInv
  OBVIOUS
<1>1. Sound(db) /\ DOMAIN blocked = {} /\ DOMAIN woken = {}
  BY NothingSound DEF Init
<1>2. /\ <<>> \in Seq(Commands) /\ <<>> \in Seq(Waiter) /\ <<>> \in Seq(conns)
      /\ 0 \in 0 .. MaxSent
  BY MaxSentAssumption
<1>3. Typed
  BY <1>1, <1>2 DEF Init, Typed, WireTyped, LoopTyped, Phased, GoneClean, Phases
<1>4. Waiting /\ WakeUpKept
  BY <1>1 DEF Init, Waiting, WakeUpKept, ParkedOnce, AnsweredOnce, WokenOnce, Drained, IsInjective
<1> QED
  BY <1>3, <1>4 DEF IInv

LEMMA SendInv ==
  ASSUME IInv, NEW c \in Clients, NEW cmd \in Commands, Send(c, cmd)
  PROVE  IInv'
<1>1. UNCHANGED <<db, conns, peer, rbuf, out, closing, parked, blocked, ready, running, owed,
                  phase, order, writable, batch, index, woken>>
  BY DEF Send, loop
<1>2. Append(sent[c], cmd) \in Seq(Commands)
  BY TypedFacts DEF IInv
<1>3. sent' \in [Clients -> Seq(Commands)] /\ nsent' \in [Clients -> 0 .. MaxSent]
  BY <1>2, MaxSentAssumption DEF IInv, Typed, WireTyped, Send
<1>4. Typed'
  BY <1>1, <1>3 DEF IInv, Typed, WireTyped, LoopTyped, Phased, GoneClean
<1> QED
  BY <1>1, <1>4, WaitingKept, WakeUpKeptKept DEF IInv

LEMMA PeerLeavesInv ==
  ASSUME IInv, NEW c \in Clients, NEW how \in Leaves, PeerLeaves(c, how)
  PROVE  IInv'
<1>1. UNCHANGED <<db, conns, sent, nsent, rbuf, out, closing, parked, blocked, ready, running, owed,
                  phase, order, writable, batch, index, woken>>
  BY DEF PeerLeaves, loop
<1>2. Typed'
  BY <1>1, LeavesAssumption DEF IInv, Typed, WireTyped, LoopTyped, Phased, GoneClean, PeerLeaves
<1> QED
  BY <1>1, <1>2, WaitingKept, WakeUpKeptKept DEF IInv

LEMMA DeadlinePassesInv ==
  ASSUME IInv, NEW i \in DOMAIN blocked, DeadlinePasses(i)
  PROVE  IInv'
<1>1. UNCHANGED <<db, conns, peer, sent, nsent, rbuf, out, closing, parked, ready, running, owed,
                  phase, order, writable, batch, index, woken>>
  BY DEF DeadlinePasses, loop, wire
<1> DEFINE w == [blocked[i] EXCEPT !.due = TRUE]
<1>2. blocked \in Seq(Waiter) /\ blocked[i] \in Waiter
  BY DEF IInv, Typed, WireTyped
<1>3. w \in Waiter /\ w.id = blocked[i].id /\ w.cmd = blocked[i].cmd
  BY <1>2 DEF Waiter
<1>4. blocked' = [blocked EXCEPT ![i] = w]
  BY DEF DeadlinePasses
<1> HIDE DEF w
<1>5. blocked' \in Seq(Waiter)
  BY <1>2, <1>3, <1>4
<1>6. /\ DOMAIN blocked' = DOMAIN blocked
      /\ \A j \in DOMAIN blocked : blocked'[j].id = blocked[j].id /\ blocked'[j].cmd = blocked[j].cmd
  BY <1>2, <1>3, <1>4
<1>7. Typed'
  BY <1>1, <1>5 DEF IInv, Typed, WireTyped, LoopTyped, Phased, GoneClean
<1>8. ParkedOnce'
  BY <1>1, <1>6 DEF IInv, Waiting, ParkedOnce
<1>9. AnsweredOnce' /\ WokenOnce' /\ Drained'
  BY <1>1 DEF IInv, Waiting, AnsweredOnce, WokenOnce, Drained
<1>10. WakeUpKept'
  BY <1>1, <1>6 DEF IInv, WakeUpKept
<1> QED
  BY <1>7, <1>8, <1>9, <1>10 DEF IInv, Waiting

LEMMA PollInv ==
  ASSUME IInv, Poll
  PROVE  IInv'
<1>1. UNCHANGED <<db, conns, peer, sent, nsent, rbuf, out, closing, parked, blocked, ready, running,
                  owed, batch, index, woken>>
  BY DEF Poll, wire
<1>2. Typed'
  BY <1>1 DEF IInv, Typed, WireTyped, LoopTyped, Phased, GoneClean, Poll, Phases
<1> QED
  BY <1>1, <1>2, WaitingKept, WakeUpKeptKept DEF IInv, Poll

LEMMA AcceptInv ==
  ASSUME IInv, NEW c \in Clients, NEW maxclients \in MaxClients, Accept(c, maxclients)
  PROVE  IInv'
<1>1. UNCHANGED <<db, peer, sent, nsent, rbuf, parked, blocked, ready, running, owed,
                  phase, order, writable, batch, index, woken>>
  BY DEF Accept, loop
<1>2. /\ phase = "accept" /\ c \notin conns /\ conns' = conns \cup {c}
      /\ out \subseteq out' /\ out' \subseteq out \cup {c}
      /\ closing \subseteq closing' /\ closing' \subseteq closing \cup {c}
  BY DEF Accept
<1>3. woken = <<>> /\ running = {} /\ rbuf[c] = <<>> /\ owed[c] = 0 /\ c \notin parked
  BY <1>2 DEF IInv, Typed, Phased, GoneClean, WireTyped
<1>4. Typed'
  <2>1. <<>> \in Seq(conns')
    OBVIOUS
  <2> QED
    BY <1>1, <1>2, <1>3, <2>1 DEF IInv, Typed, WireTyped, LoopTyped, Phased, GoneClean
<1>5. Waiting'
  BY <1>1, <1>2, <1>3 DEF IInv, Waiting, ParkedOnce, AnsweredOnce, WokenOnce, Drained
<1>6. WakeUpKept'
  BY <1>1, <1>2, WakeUpKeptKept DEF IInv
<1> QED
  BY <1>4, <1>5, <1>6 DEF IInv

LEMMA AcceptEndInv ==
  ASSUME IInv, AcceptEnd
  PROVE  IInv'
<1>1. UNCHANGED <<db, conns, peer, sent, nsent, rbuf, out, closing, parked, blocked, ready, running,
                  owed, order, writable, batch, index, woken>>
  BY DEF AcceptEnd, wire
<1>2. Typed'
  BY <1>1 DEF IInv, Typed, WireTyped, LoopTyped, Phased, GoneClean, AcceptEnd, Phases
<1> QED
  BY <1>1, <1>2, WaitingKept, WakeUpKeptKept DEF IInv, AcceptEnd

-----------------------------------------------------------------------------
(***************************************************************************)
(* Reading and running.  Whoever is read from and not parked runs at once. *)
(***************************************************************************)
LEMMA ReadInv ==
  ASSUME IInv, NEW c \in order, Read(c)
  PROVE  IInv'
<1> DEFINE got == IF c \in closing THEN <<>> ELSE sent[c]
<1>1. UNCHANGED <<db, conns, peer, nsent, out, parked, blocked, ready, owed, phase, writable, batch,
                  index, woken>>
  BY DEF Read
<1>2. /\ phase = "io" /\ running = {} /\ order' = order \ {c}
      /\ rbuf' = [rbuf EXCEPT ![c] = @ \o got]
      /\ sent' = [sent EXCEPT ![c] = IF c \in closing THEN @ ELSE <<>>]
      /\ closing' = IF peer[c] = "reset" \/ got = <<>> THEN closing \cup {c} ELSE closing
      /\ running' = IF got = <<>> \/ c \in parked THEN {} ELSE {c}
  BY DEF Read
<1>3. c \in conns /\ c \in Clients
  BY DEF IInv, Typed, WireTyped, LoopTyped
<1>4. got \in Seq(Commands) /\ rbuf[c] \in Seq(Commands) /\ <<>> \in Seq(Commands)
  BY <1>3, TypedFacts DEF IInv
<1> HIDE DEF got
<1>5. rbuf[c] \o got \in Seq(Commands)
  BY <1>4, ConcatProperties
<1>6. rbuf' \in [Clients -> Seq(Commands)] /\ sent' \in [Clients -> Seq(Commands)]
  BY <1>2, <1>4, <1>5 DEF IInv, Typed, WireTyped
<1>7. woken = <<>> /\ DOMAIN woken = {} /\ ToSet(woken) = {}
  BY <1>2 DEF IInv, Typed, Phased, ToSet
<1>8. closing \subseteq closing' /\ closing' \subseteq closing \cup {c}
  BY <1>2
<1>9. Typed'
  BY <1>1, <1>2, <1>3, <1>6, <1>7, <1>8 DEF IInv, Typed, WireTyped, LoopTyped, Phased, GoneClean
<1>10. ParkedOnce' /\ AnsweredOnce' /\ WokenOnce'
  BY <1>1, <1>2, <1>7, <1>8 DEF IInv, Waiting, ParkedOnce, AnsweredOnce, WokenOnce
<1>11. Drained'
  <2> SUFFICES ASSUME NEW x \in conns \ (parked \cup closing' \cup running')
               PROVE  rbuf'[x] = <<>>
    BY <1>1, <1>7 DEF Drained
  <2>1. x # c
    BY <1>2
  <2>2. rbuf'[x] = rbuf[x]
    BY <1>2, <1>3, <2>1 DEF IInv, Typed, WireTyped
  <2> QED
    BY <1>2, <1>7, <1>8, <2>1, <2>2 DEF IInv, Waiting, Drained
<1>12. WakeUpKept'
  BY <1>1, <1>8, WakeUpKeptKept DEF IInv
<1> QED
  BY <1>9, <1>10, <1>11, <1>12 DEF IInv, Waiting

\* What the drain of a connection starts from.
LEMMA RunningFacts ==
  ASSUME IInv, NEW c \in running, rbuf[c] # <<>>
  PROVE  /\ c \in conns /\ c \in Clients /\ c \notin parked /\ running = {c}
         /\ rbuf[c] \in Seq(Commands)
         /\ Head(rbuf[c]) \in Commands /\ Tail(rbuf[c]) \in Seq(Commands)
         /\ phase \in {"io", "resume", "resume timeouts"}
         /\ \A i \in DOMAIN woken : woken[i] # c
         /\ \A i \in DOMAIN blocked : blocked[i].id # c
<1>1. c \in conns /\ running = {c}
  BY DEF IInv, Typed, LoopTyped
<1>2. c \in Clients /\ rbuf[c] \in Seq(Commands)
  BY <1>1, TypedFacts DEF IInv
<1>3. Head(rbuf[c]) \in Commands /\ Tail(rbuf[c]) \in Seq(Commands)
  BY <1>2
<1>4. c \notin parked /\ \A i \in DOMAIN woken : woken[i] # c
  BY <1>1 DEF IInv, Waiting, WokenOnce
<1>5. \A i \in DOMAIN blocked : blocked[i].id # c
  BY <1>4 DEF IInv, Waiting, ParkedOnce
<1> QED
  BY <1>1, <1>2, <1>3, <1>4, <1>5 DEF IInv, Typed, Phased

\* A command that writes a queue makes it ready for those who wait.
LEMMA RunCommandInv ==
  ASSUME IInv, NEW c \in running, NEW over \in BOOLEAN, RunCommand(c, over)
  PROVE  IInv'
<1> DEFINE cmd == Head(rbuf[c])
           r == Run(cmd, db)
<1>1. rbuf[c] # <<>>
  BY DEF RunCommand
<1>2. /\ c \in conns /\ c \in Clients /\ c \notin parked /\ running = {c}
      /\ cmd \in Commands /\ Tail(rbuf[c]) \in Seq(Commands)
      /\ phase \in {"io", "resume", "resume timeouts"}
      /\ \A i \in DOMAIN woken : woken[i] # c
  BY <1>1, RunningFacts
<1>3. UNCHANGED <<conns, peer, sent, nsent, parked, blocked, owed, phase, order, writable, batch,
                  index, woken>>
  BY DEF RunCommand, wire, loop
<1>4. /\ db' = r.db
      /\ ready' = ready \cup Readied(cmd, r, blocked)
      /\ rbuf' = [rbuf EXCEPT ![c] = Tail(@)]
      /\ out' = out \cup {c}
      /\ closing \subseteq closing' /\ closing' \subseteq closing \cup {c}
      /\ running' = IF c \in closing' \/ rbuf'[c] = <<>> THEN {} ELSE {c}
  BY DEF RunCommand
<1>5. Sound(db) /\ blocked \in Seq(Waiter)
  BY DEF IInv, Typed, WireTyped
<1>6. Sound(r.db)
  BY <1>2, <1>5, RunFacts DEF Answered
<1>7. /\ Readied(cmd, r, blocked) \subseteq Keys
      /\ blocked # <<>> =>
           \A k \in Keys : r.db[k].type \in Queues =>
             db[k].type \in Queues \/ k \in Readied(cmd, r, blocked)
  BY <1>2, <1>5, ReadiedFacts
<1>8. \A i \in DOMAIN blocked : WaitsOn(blocked[i].cmd) \subseteq Keys
  <2>1. \A i \in DOMAIN blocked : blocked[i].cmd \in Commands
    BY TypedFacts DEF IInv, Waiter
  <2> QED
    BY <2>1, CommandFacts
<1> HIDE DEF cmd, r
<1>9. rbuf' \in [Clients -> Seq(Commands)]
  BY <1>2, <1>4 DEF IInv, Typed, WireTyped
<1>10. Typed'
  <2>1. WireTyped'
    BY <1>2, <1>3, <1>4, <1>7, <1>9 DEF IInv, Typed, WireTyped
  <2>2. LoopTyped' /\ Phased'
    BY <1>2, <1>3, <1>4 DEF IInv, Typed, LoopTyped, Phased
  <2>3. GoneClean'
    BY <1>2, <1>3, <1>4 DEF IInv, Typed, WireTyped, GoneClean
  <2> QED
    BY <1>4, <1>6, <2>1, <2>2, <2>3 DEF Typed
<1>11. ParkedOnce' /\ AnsweredOnce' /\ WokenOnce'
  <2>1. closing \subseteq closing' /\ running' \subseteq {c}
    BY <1>4
  <2>2. ParkedOnce'
    BY <1>3, <2>1 DEF IInv, Waiting, ParkedOnce
  <2>3. AnsweredOnce'
    BY <1>3 DEF IInv, Waiting, AnsweredOnce
  <2>4. WokenOnce'
    BY <1>2, <1>3, <2>1 DEF IInv, Waiting, WokenOnce
  <2> QED
    BY <2>2, <2>3, <2>4
<1>12. Drained'
  <2> SUFFICES ASSUME NEW x \in conns \ (parked \cup closing' \cup running' \cup ToSet(woken))
               PROVE  rbuf'[x] = <<>>
    BY <1>3 DEF Drained
  <2>1. CASE x = c
    BY <1>4, <2>1
  <2>2. CASE x # c
    <3>1. rbuf'[x] = rbuf[x]
      BY <1>2, <1>4, <2>2 DEF IInv, Typed, WireTyped
    <3> QED
      BY <1>2, <1>4, <2>2, <3>1 DEF IInv, Waiting, Drained
  <2> QED
    BY <2>1, <2>2
<1>13. WakeUpKept'
  <2> SUFFICES ASSUME NEW i \in DOMAIN blocked, NEW k \in WaitsOn(blocked[i].cmd),
                      blocked[i].id \notin closing', r.db[k].type \in Queues
               PROVE  k \in ready'
    BY <1>3, <1>4 DEF WakeUpKept
  <2>1. blocked # <<>> /\ k \in Keys
    BY <1>8
  <2>2. CASE db[k].type \in Queues
    BY <1>2, <1>4, <2>2 DEF IInv, WakeUpKept
  <2>3. CASE db[k].type \notin Queues
    BY <1>4, <1>7, <2>1, <2>3
  <2> QED
    BY <2>2, <2>3
<1> QED
  BY <1>10, <1>11, <1>12, <1>13 DEF IInv, Waiting

\* A command parks only if none of its keys is a queue.
LEMMA ParkCommandInv ==
  ASSUME IInv, NEW c \in running, ParkCommand(c)
  PROVE  IInv'
<1> DEFINE cmd == Head(rbuf[c])
           w == [id |-> c, cmd |-> cmd, due |-> FALSE]
<1>1. rbuf[c] # <<>>
  BY DEF ParkCommand
<1>2. /\ c \in conns /\ c \in Clients /\ c \notin parked /\ running = {c}
      /\ cmd \in Commands /\ Tail(rbuf[c]) \in Seq(Commands)
      /\ phase \in {"io", "resume", "resume timeouts"}
      /\ \A i \in DOMAIN woken : woken[i] # c
      /\ \A i \in DOMAIN blocked : blocked[i].id # c
  BY <1>1, RunningFacts
<1>3. UNCHANGED <<db, conns, peer, sent, nsent, out, closing, ready, phase, order, writable, batch,
                  index, woken>>
  BY DEF ParkCommand, wire, loop
<1>4. /\ rbuf' = [rbuf EXCEPT ![c] = Tail(@)]
      /\ parked' = parked \cup {c}
      /\ blocked' = Append(blocked, w)
      /\ running' = {}
      /\ Run(cmd, db).reply = "park"
  BY DEF ParkCommand
<1>16. owed' = [owed EXCEPT ![c] = @ + 1]
  BY DEF ParkCommand
<1>5. Sound(db) /\ blocked \in Seq(Waiter)
  BY DEF IInv, Typed, WireTyped
<1>6. \A k \in WaitsOn(cmd) : db[k].type \notin Queues
  BY <1>2, <1>4, <1>5, RunFacts DEF Answered
<1>7. w \in Waiter /\ w.id = c /\ w.cmd = cmd
  BY <1>2 DEF Waiter
<1> HIDE DEF cmd, w
<1>8. /\ blocked' \in Seq(Waiter)
      /\ DOMAIN blocked' = DOMAIN blocked \cup {Len(blocked) + 1}
      /\ Len(blocked) + 1 \notin DOMAIN blocked
      /\ \A i \in DOMAIN blocked : blocked'[i] = blocked[i]
      /\ blocked'[Len(blocked) + 1] = w
  BY <1>4, <1>5, <1>7
<1>9. owed' \in [Clients -> Int] /\ rbuf' \in [Clients -> Seq(Commands)]
  <2>1. owed \in [Clients -> Int]
    BY DEF IInv, Typed, WireTyped
  <2>4. \A x \in Clients : owed[x] + 1 \in Int
    BY <2>1
  <2>2. owed' \in [Clients -> Int]
    BY <1>16, <2>1, <2>4
  <2>3. rbuf' \in [Clients -> Seq(Commands)]
    BY <1>2, <1>4 DEF IInv, Typed, WireTyped
  <2> QED
    BY <2>2, <2>3
<1>10. Typed'
  BY <1>2, <1>3, <1>4, <1>8, <1>9, <1>16 DEF IInv, Typed, WireTyped, LoopTyped, Phased, GoneClean
<1>11. ParkedOnce'
  <2>1. \A i, j \in DOMAIN blocked' : blocked'[i].id = blocked'[j].id => i = j
    BY <1>2, <1>7, <1>8 DEF IInv, Waiting, ParkedOnce
  <2>2. IdsOf(blocked') = IdsOf(blocked) \cup {c}
    BY <1>7, <1>8 DEF IdsOf
  <2> QED
    BY <1>3, <1>4, <2>1, <2>2 DEF IInv, Waiting, ParkedOnce, IdsOf
<1>12. AnsweredOnce'
  <2>1. owed \in [Clients -> Int] /\ owed[c] = 0 /\ c \in Clients
    BY <1>2 DEF IInv, Typed, WireTyped, Waiting, AnsweredOnce
  <2>2. owed'[c] = 1 /\ \A x \in Clients \ {c} : owed'[x] = owed[x]
    BY <1>16, <2>1
  <2>3. \A x \in conns : x \in Clients
    BY TypedFacts DEF IInv
  <2>4. \A x \in conns : owed[x] = IF x \in parked THEN 1 ELSE 0
    BY DEF IInv, Waiting, AnsweredOnce
  <2> QED
    BY <1>3, <1>4, <2>2, <2>3, <2>4 DEF AnsweredOnce
<1>13. WokenOnce'
  BY <1>2, <1>3, <1>4 DEF IInv, Waiting, WokenOnce
<1>14. Drained'
  BY <1>2, <1>3, <1>4 DEF IInv, Typed, WireTyped, Waiting, Drained
<1>15. WakeUpKept'
  <2> SUFFICES ASSUME NEW i \in DOMAIN blocked', NEW k \in WaitsOn(blocked'[i].cmd),
                      blocked'[i].id \notin closing, db[k].type \in Queues
               PROVE  k \in ready
    BY <1>3 DEF WakeUpKept
  <2>1. i \in DOMAIN blocked /\ blocked'[i] = blocked[i]
    BY <1>6, <1>7, <1>8
  <2> QED
    BY <1>2, <2>1 DEF IInv, WakeUpKept
<1> QED
  BY <1>10, <1>11, <1>12, <1>13, <1>14, <1>15 DEF IInv, Waiting

LEMMA ProtocolErrorInv ==
  ASSUME IInv, NEW c \in running, ProtocolError(c)
  PROVE  IInv'
<1>1. rbuf[c] # <<>>
  BY DEF ProtocolError
<1>2. /\ c \in conns /\ c \in Clients /\ running = {c}
      /\ phase \in {"io", "resume", "resume timeouts"}
  BY <1>1, RunningFacts
<1>3. UNCHANGED <<db, conns, peer, sent, nsent, parked, blocked, ready, owed, phase, order, writable,
                  batch, index, woken>>
  BY DEF ProtocolError, wire, loop
<1>4. /\ rbuf' = [rbuf EXCEPT ![c] = <<>>] /\ out' = out \cup {c}
      /\ closing' = closing \cup {c} /\ running' = {}
  BY DEF ProtocolError
<1>5. rbuf' \in [Clients -> Seq(Commands)]
  <2>1. <<>> \in Seq(Commands)
    OBVIOUS
  <2> QED
    BY <1>4, <2>1 DEF IInv, Typed, WireTyped
<1>6. Typed'
  BY <1>2, <1>3, <1>4, <1>5 DEF IInv, Typed, WireTyped, LoopTyped, Phased, GoneClean
<1>7. ParkedOnce' /\ AnsweredOnce' /\ WokenOnce'
  BY <1>3, <1>4 DEF IInv, Waiting, ParkedOnce, AnsweredOnce, WokenOnce
<1>8. Drained'
  BY <1>2, <1>3, <1>4 DEF IInv, Typed, WireTyped, Waiting, Drained
<1>9. WakeUpKept'
  BY <1>3, <1>4, WakeUpKeptKept DEF IInv
<1> QED
  BY <1>6, <1>7, <1>8, <1>9 DEF IInv, Waiting

LEMMA ReadEndInv ==
  ASSUME IInv, NEW W \in SUBSET writable, ReadEnd(W)
  PROVE  IInv'
<1>1. UNCHANGED <<db, conns, peer, sent, nsent, rbuf, parked, blocked, ready, running, owed, order,
                  batch, index, woken>>
  BY DEF ReadEnd, wire
<1>2. /\ phase = "io" /\ order = {} /\ running = {} /\ writable' = {} /\ phase' = "ready"
      /\ out' \subseteq out /\ closing \subseteq closing' /\ closing' \subseteq closing \cup writable
  BY DEF ReadEnd, Writes, Broken
<1>3. Typed'
  BY <1>1, <1>2 DEF IInv, Typed, WireTyped, LoopTyped, Phased, GoneClean, Phases
<1> QED
  BY <1>1, <1>2, <1>3, WaitingKept, WakeUpKeptKept DEF IInv

-----------------------------------------------------------------------------
(***************************************************************************)
(* serve_ready_keys.  Who is passed over has nothing to find, or waits on  *)
(* a key that is ready again.                                              *)
(***************************************************************************)
LEMMA TakeReadyInv ==
  ASSUME IInv, TakeReady
  PROVE  IInv'
<1>1. UNCHANGED <<db, conns, peer, sent, nsent, rbuf, out, closing, parked, blocked, running, owed,
                  order, writable, woken>>
  BY DEF TakeReady, wire
<1>2. phase = "ready"
  BY DEF TakeReady
<1>3. CASE ready = {}
  <2>1. phase' = "timeouts" /\ UNCHANGED <<ready, batch, index>>
    BY <1>3 DEF TakeReady
  <2>2. Typed'
    BY <1>1, <1>2, <2>1 DEF IInv, Typed, WireTyped, LoopTyped, Phased, GoneClean, Phases
  <2> QED
    BY <1>1, <1>2, <2>1, <2>2, WaitingKept, WakeUpKeptKept DEF IInv
<1>4. CASE ready # {}
  <2>1. phase' = "serve" /\ batch' = ready /\ ready' = {} /\ index' = 1
    BY <1>4 DEF TakeReady
  <2>2. Typed'
    BY <1>1, <1>2, <2>1 DEF IInv, Typed, WireTyped, LoopTyped, Phased, GoneClean, Phases
  <2>3. \A i \in DOMAIN blocked : i >= 1
    BY DEF IInv, Typed, WireTyped
  <2>4. WakeUpKept'
    BY <1>1, <1>2, <2>1, <2>3 DEF IInv, WakeUpKept
  <2> QED
    BY <1>1, <2>2, <2>4, WaitingKept DEF IInv
<1> QED
  BY <1>3, <1>4

LEMMA PassedOver ==
  ASSUME IInv, NEW i \in DOMAIN blocked, AtNext(i),
         NEW j \in DOMAIN blocked, j < i, NEW k \in WaitsOn(blocked[j].cmd),
         blocked[j].id \notin closing, db[k].type \in Queues
  PROVE  k \in ready
<1>1. DOMAIN blocked = 1 .. Len(blocked) /\ index \in Nat /\ Len(blocked) \in Nat
  BY DEF IInv, Typed, WireTyped, LoopTyped
<1>2. k \in ready \/ (phase = "serve" /\ j >= index /\ k \in batch)
  BY DEF IInv, WakeUpKept
<1>3. j \notin Matching
  BY <1>1 DEF AtNext
<1>4. ~(j >= index /\ k \in batch)
  BY <1>1, <1>3 DEF Matching
<1> QED
  BY <1>2, <1>4

LEMMA DropWaiterInv ==
  ASSUME IInv, NEW i \in DOMAIN blocked, DropWaiter(i)
  PROVE  IInv'
<1>1. UNCHANGED <<db, conns, peer, sent, nsent, rbuf, out, closing, parked, ready, running, owed,
                  phase, order, writable, batch, woken>>
  BY DEF DropWaiter, wire
<1>2. /\ phase = "serve" /\ AtNext(i) /\ blocked[i].id \in closing
      /\ blocked' = RemoveAt(blocked, i) /\ index' = i
  BY DEF DropWaiter
<1>3. blocked \in Seq(Waiter) /\ i \in Nat /\ index \in Nat
  BY DEF IInv, Typed, WireTyped, LoopTyped
<1>4. blocked' \in Seq(Waiter)
  BY <1>2, <1>3, RemoveAtFacts
<1>5. \A n \in DOMAIN blocked' :
        \/ n < i /\ n \in DOMAIN blocked /\ blocked'[n] = blocked[n]
        \/ n >= i /\ n + 1 \in DOMAIN blocked /\ blocked'[n] = blocked[n + 1]
  BY <1>2, <1>3, RemoveAtFacts
<1>6. /\ OnceIn(blocked) /\ IdsOf(blocked) \subseteq parked
      /\ parked \ closing \subseteq IdsOf(blocked)
  BY ParkedOnceFacts DEF IInv, Waiting
<1>7. OnceIn(blocked') /\ IdsOf(blocked') = IdsOf(blocked) \ {blocked[i].id}
  BY <1>2, <1>3, <1>6, RemoveAtIds
<1>8. Typed'
  BY <1>1, <1>2, <1>3, <1>4 DEF IInv, Typed, WireTyped, LoopTyped, Phased, GoneClean
<1>9. ParkedOnce'
  <2>1. IdsOf(blocked') \subseteq parked /\ parked \ closing \subseteq IdsOf(blocked')
    BY <1>2, <1>6, <1>7
  <2> QED
    BY <1>1, <1>7, <2>1 DEF ParkedOnce, OnceIn, IdsOf
<1>10. AnsweredOnce' /\ WokenOnce' /\ Drained'
  BY <1>1 DEF IInv, Waiting, AnsweredOnce, WokenOnce, Drained
<1>11. WakeUpKept'
  <2> SUFFICES ASSUME NEW n \in DOMAIN blocked', NEW k \in WaitsOn(blocked'[n].cmd),
                      blocked'[n].id \notin closing, db[k].type \in Queues
               PROVE  k \in ready \/ (n >= i /\ k \in batch)
    BY <1>1, <1>2 DEF WakeUpKept
  <2>1. CASE n < i /\ n \in DOMAIN blocked /\ blocked'[n] = blocked[n]
    BY <1>2, <2>1, PassedOver
  <2>2. CASE n >= i /\ n + 1 \in DOMAIN blocked /\ blocked'[n] = blocked[n + 1]
    BY <2>2 DEF IInv, WakeUpKept
  <2> QED
    BY <1>5, <2>1, <2>2
<1> QED
  BY <1>8, <1>9, <1>10, <1>11 DEF IInv, Waiting

\* Still nothing: the waiter keeps its place, and none of its keys is a queue.
LEMMA RetryParksInv ==
  ASSUME IInv, NEW i \in DOMAIN blocked, RetryWaiter(i), Run(blocked[i].cmd, db).reply = "park"
  PROVE  IInv'
<1>1. /\ phase = "serve" /\ AtNext(i) /\ index' = i + 1
      /\ UNCHANGED <<conns, peer, sent, nsent, rbuf, out, closing, parked, blocked, ready, running,
                     owed, phase, order, writable, batch, woken>>
  BY DEF RetryWaiter, wire
<1>2. Sound(db) /\ blocked[i].cmd \in Commands /\ i \in Nat /\ index \in Nat
  <2>1. blocked[i] \in Waiter
    BY TypedFacts DEF IInv
  <2>2. blocked \in Seq(Waiter)
    BY DEF IInv, Typed, WireTyped
  <2> QED
    BY <2>1, <2>2 DEF IInv, Typed, LoopTyped, Waiter
<1>3. Answered(blocked[i].cmd, db, Run(blocked[i].cmd, db))
  BY <1>2, RunFacts
<1>4. db' = db /\ \A k \in WaitsOn(blocked[i].cmd) : db[k].type \notin Queues
  BY <1>3 DEF RetryWaiter, Answered
<1>5. Typed'
  BY <1>1, <1>2, <1>4 DEF IInv, Typed, WireTyped, LoopTyped, Phased, GoneClean
<1>6. Waiting'
  BY <1>1, WaitingKept DEF IInv
<1>7. WakeUpKept'
  <2> SUFFICES ASSUME NEW j \in DOMAIN blocked, NEW k \in WaitsOn(blocked[j].cmd),
                      blocked[j].id \notin closing, db[k].type \in Queues
               PROVE  k \in ready \/ (j >= i + 1 /\ k \in batch)
    BY <1>1, <1>4 DEF WakeUpKept
  <2>1. j # i
    BY <1>4
  <2>2. j \in Nat
    BY DEF IInv, Typed, WireTyped
  <2>3. CASE j < i
    BY <1>1, <2>3, PassedOver
  <2>4. CASE j >= i + 1
    BY <2>4 DEF IInv, WakeUpKept
  <2> QED
    BY <1>2, <2>1, <2>2, <2>3, <2>4
<1> QED
  BY <1>5, <1>6, <1>7 DEF IInv

\* Answered: the waiter leaves the registry, and is to be resumed.
LEMMA RetryAnswersInv ==
  ASSUME IInv, NEW i \in DOMAIN blocked, RetryWaiter(i), Run(blocked[i].cmd, db).reply # "park"
  PROVE  IInv'
<1> DEFINE w == blocked[i]
           id == w.id
           r == Run(w.cmd, db)
           others == RemoveAt(blocked, i)
<1>1. UNCHANGED <<conns, peer, sent, nsent, rbuf, closing, running, phase, order, writable, batch>>
  BY DEF RetryWaiter, wire
<1>2. phase = "serve" /\ AtNext(i) /\ id \notin closing
  BY DEF RetryWaiter
<1>3. /\ db' = r.db /\ index' = i /\ blocked' = others
      /\ parked' = parked \ {id}
      /\ ready' = ready \cup Readied(w.cmd, r, others)
      /\ out' = out \cup {id}
  BY DEF RetryWaiter
<1>4. woken' = Append(woken, id)
  BY DEF RetryWaiter
<1>5. owed' = [owed EXCEPT ![id] = @ - 1]
  BY DEF RetryWaiter
<1>6. blocked \in Seq(Waiter) /\ i \in Nat /\ index \in Nat /\ Sound(db)
  BY DEF IInv, Typed, WireTyped, LoopTyped
<1>7. w.cmd \in Commands
  <2>1. w \in Waiter
    BY TypedFacts DEF IInv
  <2> QED
    BY <2>1 DEF Waiter
<1>8. id \in parked /\ id \in conns /\ id \in Clients
  BY DEF IInv, Waiting, ParkedOnce, Typed, WireTyped
<1>9. others \in Seq(Waiter)
  BY <1>6, RemoveAtFacts
<1>10. \A n \in DOMAIN others :
         \/ n < i /\ n \in DOMAIN blocked /\ others[n] = blocked[n]
         \/ n >= i /\ n + 1 \in DOMAIN blocked /\ others[n] = blocked[n + 1]
  BY <1>6, RemoveAtFacts
<1>11. /\ OnceIn(blocked) /\ IdsOf(blocked) \subseteq parked
       /\ parked \ closing \subseteq IdsOf(blocked)
  BY ParkedOnceFacts DEF IInv, Waiting
<1>12. OnceIn(others) /\ IdsOf(others) = IdsOf(blocked) \ {id}
  BY <1>6, <1>11, RemoveAtIds
<1>13. Sound(r.db)
  BY <1>6, <1>7, RunFacts DEF Answered
<1>14. /\ Readied(w.cmd, r, others) \subseteq Keys
       /\ others # <<>> =>
            \A k \in Keys : r.db[k].type \in Queues =>
              db[k].type \in Queues \/ k \in Readied(w.cmd, r, others)
  BY <1>6, <1>7, <1>9, ReadiedFacts
<1>15. \A n \in DOMAIN others : WaitsOn(others[n].cmd) \subseteq Keys
  <2>1. \A n \in DOMAIN others : others[n] \in Waiter
    BY <1>9
  <2>2. \A n \in DOMAIN others : others[n].cmd \in Commands
    BY <2>1 DEF Waiter
  <2> QED
    BY <2>2, CommandFacts
<1>16. running = {} /\ woken \in Seq(conns)
  BY <1>2 DEF IInv, Typed, LoopTyped, Phased
<1> HIDE DEF id, w, r, others
<1>17. /\ woken' \in Seq(conns)
       /\ DOMAIN woken' = DOMAIN woken \cup {Len(woken) + 1}
       /\ \A n \in DOMAIN woken : woken'[n] = woken[n]
       /\ woken'[Len(woken) + 1] = id
  BY <1>4, <1>8, <1>16
<1>18. owed \in [Clients -> Int] /\ owed[id] = 1
  BY <1>8 DEF IInv, Typed, WireTyped, Waiting, AnsweredOnce
<1>19. /\ owed' \in [Clients -> Int] /\ owed'[id] = 0
       /\ \A x \in Clients \ {id} : owed'[x] = owed[x]
  <2>1. \A x \in Clients : owed[x] - 1 \in Int
    BY <1>18
  <2>2. owed' \in [Clients -> Int]
    BY <1>5, <1>18, <2>1
  <2> QED
    BY <1>5, <1>8, <1>18, <2>2
<1>20. Typed'
  <2>1. WireTyped'
    BY <1>1, <1>3, <1>8, <1>9, <1>14, <1>19 DEF IInv, Typed, WireTyped
  <2>2. LoopTyped' /\ Phased'
    BY <1>1, <1>2, <1>3, <1>6, <1>16, <1>17 DEF IInv, Typed, LoopTyped, Phased
  <2>3. GoneClean'
    BY <1>1, <1>8, <1>19 DEF IInv, Typed, GoneClean
  <2> QED
    BY <1>3, <1>13, <2>1, <2>2, <2>3 DEF Typed
<1>21. ParkedOnce'
  <2>1. IdsOf(others) \subseteq parked \ {id} /\ (parked \ {id}) \ closing \subseteq IdsOf(others)
    BY <1>11, <1>12
  <2> QED
    BY <1>1, <1>3, <1>12, <2>1 DEF ParkedOnce, OnceIn, IdsOf
<1>22. AnsweredOnce'
  <2>1. \A x \in conns : x \in Clients
    BY TypedFacts DEF IInv
  <2>2. \A x \in conns : owed[x] = IF x \in parked THEN 1 ELSE 0
    BY DEF IInv, Waiting, AnsweredOnce
  <2> QED
    BY <1>1, <1>3, <1>19, <2>1, <2>2 DEF AnsweredOnce
<1>23. WokenOnce'
  <2>1. \A n \in DOMAIN woken : woken[n] \notin parked
    BY DEF IInv, Waiting, WokenOnce
  <2>2. IsInjective(woken')
    BY <1>8, <1>17, <2>1 DEF IInv, Waiting, WokenOnce, IsInjective
  <2> QED
    BY <1>1, <1>3, <1>16, <1>17, <2>1, <2>2 DEF WokenOnce
<1>24. Drained'
  <2>1. ToSet(woken') = ToSet(woken) \cup {id}
    BY <1>17 DEF ToSet
  <2> QED
    BY <1>1, <1>3, <2>1 DEF IInv, Waiting, Drained
<1>25. WakeUpKept'
  <2> SUFFICES ASSUME NEW n \in DOMAIN others, NEW k \in WaitsOn(others[n].cmd),
                      others[n].id \notin closing, r.db[k].type \in Queues
               PROVE  k \in ready' \/ (n >= i /\ k \in batch)
    BY <1>1, <1>2, <1>3 DEF WakeUpKept
  <2>1. others # <<>> /\ k \in Keys
    BY <1>15
  <2>2. CASE db[k].type \notin Queues
    BY <1>3, <1>14, <2>1, <2>2
  <2>3. CASE db[k].type \in Queues
    <3>1. CASE n < i /\ n \in DOMAIN blocked /\ others[n] = blocked[n]
      BY <1>2, <1>3, <2>3, <3>1, PassedOver
    <3>2. CASE n >= i /\ n + 1 \in DOMAIN blocked /\ others[n] = blocked[n + 1]
      BY <1>3, <2>3, <3>2 DEF IInv, WakeUpKept
    <3> QED
      BY <1>10, <3>1, <3>2
  <2> QED
    BY <2>2, <2>3
<1> QED
  BY <1>20, <1>21, <1>22, <1>23, <1>24, <1>25 DEF IInv, Waiting

LEMMA ServeEndInv ==
  ASSUME IInv, ServeEnd
  PROVE  IInv'
<1>1. UNCHANGED <<db, conns, peer, sent, nsent, rbuf, out, closing, parked, blocked, ready, running,
                  owed, order, writable, woken>>
  BY DEF ServeEnd, wire
<1>2. phase = "serve" /\ Matching = {} /\ phase' = "resume" /\ batch' = {} /\ index' = 1
  BY DEF ServeEnd
<1>3. Typed'
  BY <1>1, <1>2 DEF IInv, Typed, WireTyped, LoopTyped, Phased, GoneClean, Phases
<1>4. DOMAIN blocked = 1 .. Len(blocked) /\ Len(blocked) \in Nat /\ index \in Nat
  BY DEF IInv, Typed, WireTyped, LoopTyped
<1>5. \A i \in DOMAIN blocked : i >= index => WaitsOn(blocked[i].cmd) \cap batch = {}
  BY <1>2, <1>4 DEF Matching
<1>6. WakeUpKept'
  BY <1>1, <1>2, <1>5 DEF IInv, WakeUpKept
<1> QED
  BY <1>1, <1>3, <1>6, WaitingKept DEF IInv

-----------------------------------------------------------------------------
(***************************************************************************)
(* Resuming, timing out, closing.                                          *)
(***************************************************************************)
LEMMA ResumeInv ==
  ASSUME IInv, Resume
  PROVE  IInv'
<1> DEFINE c == Head(woken)
<1>1. UNCHANGED <<db, conns, peer, sent, nsent, rbuf, out, closing, parked, blocked, ready, owed,
                  phase, order, writable, batch, index>>
  BY DEF Resume, wire
<1>2. /\ phase \in {"resume", "resume timeouts"} /\ running = {}
      /\ running' = IF rbuf[c] = <<>> THEN {} ELSE {c}
  BY DEF Resume, Resuming
<1>3. woken \in Seq(conns) /\ woken # <<>> /\ woken' = Tail(woken)
  BY DEF IInv, Typed, LoopTyped, Resume
<1>4. /\ c = woken[1] /\ 1 \in DOMAIN woken /\ c \in conns
      /\ woken' \in Seq(conns)
      /\ DOMAIN woken' = 1 .. Len(woken) - 1
      /\ \A n \in DOMAIN woken' : woken'[n] = woken[n + 1] /\ n + 1 \in DOMAIN woken
      /\ \A n \in DOMAIN woken : n # 1 => n - 1 \in DOMAIN woken' /\ woken'[n - 1] = woken[n]
  <2>1. Len(woken) \in Nat /\ Len(woken) # 0 /\ DOMAIN woken = 1 .. Len(woken)
    BY <1>3
  <2>2. /\ woken' \in Seq(conns) /\ Len(woken') = Len(woken) - 1
        /\ \A n \in 1 .. Len(woken) - 1 : woken'[n] = woken[n + 1]
    BY <1>3
  <2>3. c = woken[1] /\ 1 \in DOMAIN woken /\ c \in conns
    BY <1>3, <2>1
  <2>4. DOMAIN woken' = 1 .. Len(woken) - 1
    BY <2>2
  <2>5. \A n \in DOMAIN woken' : woken'[n] = woken[n + 1] /\ n + 1 \in DOMAIN woken
    BY <2>1, <2>2, <2>4
  <2>6. ASSUME NEW n \in DOMAIN woken, n # 1
        PROVE  n - 1 \in DOMAIN woken' /\ woken'[n - 1] = woken[n]
    <3>1. n - 1 \in 1 .. Len(woken) - 1 /\ (n - 1) + 1 = n
      BY <2>1, <2>6
    <3> QED
      BY <2>2, <2>4, <3>1
  <2> QED
    BY <2>2, <2>3, <2>4, <2>5, <2>6
<1> HIDE DEF c
<1>5. running' \subseteq {c} /\ (running' = {} \/ running' = {c})
  BY <1>2
<1>6. Typed'
  BY <1>1, <1>2, <1>4, <1>5 DEF IInv, Typed, WireTyped, LoopTyped, Phased, GoneClean
<1>7. ParkedOnce' /\ AnsweredOnce'
  BY <1>1 DEF IInv, Waiting, ParkedOnce, AnsweredOnce
<1>8. WokenOnce'
  <2>1. /\ \A n \in DOMAIN woken : woken[n] \notin parked
        /\ \A m, n \in DOMAIN woken : woken[m] = woken[n] => m = n
    BY DEF IInv, Waiting, WokenOnce, IsInjective
  <2>2. \A n \in DOMAIN woken' : n \in Int /\ n + 1 # 1
    BY <1>4
  <2>3. \A m, n \in DOMAIN woken' : woken'[m] = woken'[n] => m + 1 = n + 1
    BY <1>4, <2>1
  <2>4. IsInjective(woken')
    BY <2>2, <2>3 DEF IsInjective
  <2>5. c \notin parked /\ \A n \in DOMAIN woken' : woken'[n] \notin parked /\ woken'[n] # c
    BY <1>4, <2>1, <2>2
  <2> QED
    BY <1>1, <1>5, <2>4, <2>5 DEF WokenOnce
<1>9. Drained'
  <2>1. ToSet(woken) \subseteq ToSet(woken') \cup {c}
    BY <1>4 DEF ToSet
  <2>2. rbuf[c] = <<>> \/ c \in running'
    BY <1>2
  <2> QED
    BY <1>1, <1>2, <2>1, <2>2 DEF IInv, Waiting, Drained
<1>10. WakeUpKept'
  BY <1>1, WakeUpKeptKept DEF IInv
<1> QED
  BY <1>6, <1>7, <1>8, <1>9, <1>10 DEF IInv, Waiting

LEMMA ResumeEndInv ==
  ASSUME IInv, ResumeEnd
  PROVE  IInv'
<1>1. UNCHANGED <<db, conns, peer, sent, nsent, rbuf, out, closing, parked, blocked, ready, running,
                  owed, order, writable, batch, index, woken>>
  BY DEF ResumeEnd, wire
<1>2. /\ phase \in {"resume", "resume timeouts"} /\ running = {} /\ woken = <<>>
      /\ phase' \in {"ready", "flush"}
  BY DEF ResumeEnd, Resuming
<1>3. Typed'
  BY <1>1, <1>2 DEF IInv, Typed, WireTyped, LoopTyped, Phased, GoneClean, Phases
<1> QED
  BY <1>1, <1>2, <1>3, WaitingKept, WakeUpKeptKept DEF IInv

\* What a selection of the registry keeps ready.
LEMMA SelectedKept ==
  ASSUME IInv, phase # "serve", NEW I \in SUBSET DOMAIN blocked,
         NEW n \in DOMAIN At(blocked, I), NEW k \in WaitsOn(At(blocked, I)[n].cmd),
         At(blocked, I)[n].id \notin closing, db[k].type \in Queues
  PROVE  k \in ready
<1>1. blocked \in Seq(Waiter)
  BY DEF IInv, Typed, WireTyped
<1>2. Place(I, n) \in DOMAIN blocked /\ At(blocked, I)[n] = blocked[Place(I, n)]
  BY <1>1, AtFacts
<1> QED
  BY <1>2 DEF IInv, WakeUpKept

LEMMA ServeTimeoutsInv ==
  ASSUME IInv, ServeTimeouts
  PROVE  IInv'
<1> DEFINE I == {i \in Due : blocked[i].id \notin closing}
           J == DOMAIN blocked \ Due
           heard == At(blocked, I)
           ids == [i \in DOMAIN heard |-> heard[i].id]
<1>1. UNCHANGED <<db, conns, peer, sent, nsent, rbuf, closing, ready, running, order, writable,
                  batch, index>>
  BY DEF ServeTimeouts, wire
<1>2. /\ phase = "timeouts" /\ phase' = "resume timeouts"
      /\ blocked' = At(blocked, J)
      /\ parked' = parked \ ToSet(ids)
      /\ out' = out \cup ToSet(ids)
      /\ woken' = ids
  BY DEF ServeTimeouts
<1>3. owed' = [c \in Clients |-> IF c \in ToSet(ids) THEN owed[c] - 1 ELSE owed[c]]
  BY DEF ServeTimeouts
<1>4. blocked \in Seq(Waiter) /\ owed \in [Clients -> Int]
  BY DEF IInv, Typed, WireTyped
<1>5. /\ OnceIn(blocked) /\ IdsOf(blocked) \subseteq parked
      /\ parked \ closing \subseteq IdsOf(blocked)
  BY ParkedOnceFacts DEF IInv, Waiting
<1>6. I \in SUBSET DOMAIN blocked /\ J \in SUBSET DOMAIN blocked
  BY DEF Due
<1>7. /\ heard \in Seq(Waiter) /\ DOMAIN heard = 1 .. Cardinality(I) /\ Cardinality(I) \in Nat
      /\ At(blocked, J) \in Seq(Waiter)
  <2> HIDE DEF I, J
  <2> QED
    BY <1>4, <1>6, AtFacts DEF heard
<1>8. /\ OnceIn(heard) /\ IdsOf(heard) = {blocked[i].id : i \in I}
      /\ OnceIn(At(blocked, J)) /\ IdsOf(At(blocked, J)) = {blocked[i].id : i \in J}
  <2> HIDE DEF I, J
  <2> QED
    BY <1>4, <1>5, <1>6, AtIds DEF heard
<1> HIDE DEF heard
<1>9. ToSet(ids) = {blocked[i].id : i \in I} /\ DOMAIN ids = DOMAIN heard
  BY <1>8 DEF ToSet, IdsOf
<1>10. IsInjective(ids)
  BY <1>8 DEF IsInjective, OnceIn
<1>11. ToSet(ids) \subseteq parked /\ parked \subseteq conns
  BY <1>5, <1>6, <1>9 DEF IdsOf, IInv, Typed, WireTyped
<1>12. woken' \in Seq(conns)
  <2>1. \A n \in DOMAIN ids : ids[n] \in conns
    BY <1>11 DEF ToSet
  <2>2. DOMAIN ids = 1 .. Cardinality(I)
    BY <1>7, <1>9
  <2> HIDE DEF ids
  <2>3. ids = [n \in 1 .. Cardinality(I) |-> ids[n]]
    BY <2>2 DEF ids
  <2> HIDE DEF I
  <2>4. Cardinality(I) \in Nat
    BY <1>7
  <2>5. ids \in Seq(conns)
    BY <2>1, <2>2, <2>3, <2>4
  <2> QED
    BY <1>2, <2>5
<1>13. /\ {blocked[i].id : i \in J} \subseteq parked \ ToSet(ids)
       /\ (parked \ ToSet(ids)) \ closing \subseteq {blocked[i].id : i \in J}
  <2>1. \A i \in J, j \in I : blocked[i].id # blocked[j].id
    BY <1>5 DEF OnceIn, Due
  <2>2. \A i \in J : blocked[i].id \in parked
    BY <1>5 DEF IdsOf
  <2>3. ASSUME NEW c \in (parked \ ToSet(ids)) \ closing
        PROVE  c \in {blocked[i].id : i \in J}
    <3>1. PICK i \in DOMAIN blocked : c = blocked[i].id
      BY <1>5, <2>3 DEF IdsOf
    <3>2. i \notin I
      BY <1>9, <3>1
    <3>3. i \in J
      BY <3>1, <3>2
    <3> QED
      BY <3>1, <3>3
  <2>4. {blocked[i].id : i \in J} \subseteq parked \ ToSet(ids)
    BY <1>9, <2>1, <2>2
  <2> QED
    BY <2>3, <2>4
<1>14. running = {} /\ woken = <<>>
  BY <1>2 DEF IInv, Typed, Phased
<1> HIDE DEF ids, I, J
<1>15. owed' \in [Clients -> Int]
  <2>1. \A c \in Clients : owed[c] - 1 \in Int /\ owed[c] \in Int
    BY <1>4
  <2> QED
    BY <1>3, <2>1
<1>16. Typed'
  <2>1. WireTyped'
    BY <1>1, <1>2, <1>7, <1>11, <1>15 DEF IInv, Typed, WireTyped
  <2>2. LoopTyped' /\ Phased'
    BY <1>1, <1>2, <1>12, <1>14 DEF IInv, Typed, LoopTyped, Phased, Phases
  <2>3. GoneClean'
    BY <1>1, <1>3, <1>11 DEF IInv, Typed, GoneClean
  <2> QED
    BY <1>1, <2>1, <2>2, <2>3 DEF Typed, IInv
<1>17. ParkedOnce'
  <2>1. closing' = closing
    BY <1>1
  <2>2. OnceIn(blocked') /\ IdsOf(blocked') = {blocked[i].id : i \in J}
    BY ONLY <1>2, <1>8
  <2>3. /\ IdsOf(blocked') \subseteq parked'
        /\ parked' \ closing' \subseteq IdsOf(blocked')
    BY ONLY <1>2, <1>13, <2>1, <2>2
  <2> QED
    BY ONLY <2>2, <2>3 DEF ParkedOnce, OnceIn, IdsOf
<1>18. AnsweredOnce'
  <2>1. \A c \in conns : c \in Clients
    BY TypedFacts DEF IInv
  <2>2. \A c \in conns : owed[c] = IF c \in parked THEN 1 ELSE 0
    BY DEF IInv, Waiting, AnsweredOnce
  <2>3. ASSUME NEW c \in conns
        PROVE  owed'[c] = IF c \in parked' THEN 1 ELSE 0
    <3>1. CASE c \in ToSet(ids)
      <4>1. owed'[c] = owed[c] - 1 /\ owed[c] = 1
        BY <1>3, <1>11, <2>1, <2>2, <2>3, <3>1
      <4>2. c \notin parked'
        BY <1>2, <3>1
      <4> QED
        BY <4>1, <4>2
    <3>2. CASE c \notin ToSet(ids)
      BY <1>2, <1>3, <2>1, <2>2, <2>3, <3>2
    <3> QED
      BY <3>1, <3>2
  <2> QED
    BY <1>1, <2>3 DEF AnsweredOnce
<1>19. WokenOnce'
  <2>1. \A n \in DOMAIN ids : ids[n] \notin parked'
    BY <1>2 DEF ToSet
  <2> QED
    BY <1>1, <1>2, <1>10, <1>14, <2>1 DEF WokenOnce
<1>20. Drained'
  <2>1. ToSet(woken) = {}
    BY <1>14 DEF ToSet
  <2> QED
    BY <1>1, <1>2, <2>1 DEF IInv, Waiting, Drained
<1>21. WakeUpKept'
  <2> SUFFICES ASSUME NEW n \in DOMAIN At(blocked, J), NEW k \in WaitsOn(At(blocked, J)[n].cmd),
                      At(blocked, J)[n].id \notin closing, db[k].type \in Queues
               PROVE  k \in ready
    BY <1>1, <1>2 DEF WakeUpKept
  <2> QED
    BY <1>2, <1>6, SelectedKept
<1> QED
  BY <1>16, <1>17, <1>18, <1>19, <1>20, <1>21 DEF IInv, Waiting

LEMMA FlushInv ==
  ASSUME IInv, NEW W \in SUBSET out, Flush(W)
  PROVE  IInv'
<1> DEFINE gone == Finished(W)
           I == {i \in DOMAIN blocked : blocked[i].id \notin gone}
<1>1. UNCHANGED <<db, nsent, ready, running, order, writable, batch, index, woken>>
  BY DEF Flush, Close
<1>2. /\ phase = "flush" /\ phase' = "poll"
      /\ out' = out \ W
      /\ conns' = conns \ gone
      /\ closing' = (closing \cup Broken(out)) \ gone
      /\ parked' = parked \ gone
      /\ blocked' = At(blocked, I)
  BY DEF Flush, Close, Writes, Others
<1>3. /\ peer' = [c \in Clients |-> IF c \in gone THEN "up" ELSE peer[c]]
      /\ sent' = [c \in Clients |-> IF c \in gone THEN <<>> ELSE sent[c]]
      /\ rbuf' = [c \in Clients |-> IF c \in gone THEN <<>> ELSE rbuf[c]]
      /\ owed' = [c \in Clients |-> IF c \in gone THEN 0 ELSE owed[c]]
  BY DEF Flush, Close
<1>4. gone \cap (out \ W) = {} /\ Broken(out) \subseteq out
  BY DEF Finished, Broken
<1>5. blocked \in Seq(Waiter)
  BY DEF IInv, Typed, WireTyped
<1>6. /\ OnceIn(blocked) /\ IdsOf(blocked) \subseteq parked
      /\ parked \ closing \subseteq IdsOf(blocked)
  BY ParkedOnceFacts DEF IInv, Waiting
<1>7. At(blocked, I) \in Seq(Waiter)
  BY <1>5, AtFacts
<1>8. OnceIn(At(blocked, I)) /\ IdsOf(At(blocked, I)) = {blocked[i].id : i \in I}
  BY <1>5, <1>6, AtIds
<1>9. order = {} /\ writable = {} /\ running = {} /\ woken = <<>>
  BY <1>2 DEF IInv, Typed, Phased
<1> HIDE DEF gone
<1>10. Typed'
  <2>1. <<>> \in Seq(Commands) /\ <<>> \in Seq(conns') /\ 0 \in Int
    OBVIOUS
  <2>2. /\ peer' \in [Clients -> {"up", "eof", "reset"}]
        /\ sent' \in [Clients -> Seq(Commands)]
        /\ rbuf' \in [Clients -> Seq(Commands)]
        /\ owed' \in [Clients -> Int]
    BY <1>3, <2>1 DEF IInv, Typed, WireTyped
  <2>3. WireTyped'
    BY <1>1, <1>2, <1>4, <1>7, <2>2 DEF IInv, Typed, WireTyped
  <2>4. LoopTyped' /\ Phased'
    BY <1>1, <1>2, <1>9, <2>1 DEF IInv, Typed, LoopTyped, Phased, Phases
  <2>5. GoneClean'
    BY <1>2, <1>3 DEF IInv, Typed, GoneClean
  <2> QED
    BY <1>1, <2>3, <2>4, <2>5 DEF IInv, Typed
<1>11. ParkedOnce'
  <2>1. /\ {blocked[i].id : i \in I} \subseteq parked'
        /\ parked' \ closing' \subseteq {blocked[i].id : i \in I}
    <3>1. {blocked[i].id : i \in I} \subseteq parked'
      BY <1>2, <1>6 DEF IdsOf
    <3>2. ASSUME NEW c \in parked' \ closing'
          PROVE  c \in {blocked[i].id : i \in I}
      <4>1. c \in parked /\ c \notin closing /\ c \notin gone
        BY <1>2, <3>2
      <4>2. PICK i \in DOMAIN blocked : c = blocked[i].id
        BY <1>6, <4>1 DEF IdsOf
      <4> QED
        BY <4>1, <4>2
    <3> QED
      BY <3>1, <3>2
  <2> HIDE DEF I
  <2> QED
    BY <1>2, <1>8, <2>1 DEF ParkedOnce, OnceIn, IdsOf
<1>12. AnsweredOnce'
  <2>1. \A c \in conns : c \in Clients
    BY TypedFacts DEF IInv
  <2> QED
    BY <1>2, <1>3, <2>1 DEF IInv, Waiting, AnsweredOnce
<1>13. WokenOnce'
  BY <1>1, <1>2, <1>9 DEF IInv, Waiting, WokenOnce
<1>14. Drained'
  <2>1. \A c \in conns : c \in Clients
    BY TypedFacts DEF IInv
  <2>2. ToSet(woken) = {} /\ ToSet(woken') = {}
    BY <1>1, <1>9 DEF ToSet
  <2>3. \A c \in conns \ (parked \cup closing) : rbuf[c] = <<>>
    BY <1>9, <2>2 DEF IInv, Waiting, Drained
  <2>4. \A c \in conns' \ (parked' \cup closing') : rbuf'[c] = <<>>
    BY <1>2, <1>3, <2>1, <2>3
  <2> QED
    BY <2>4 DEF Drained
<1>15. WakeUpKept'
  <2> SUFFICES ASSUME NEW n \in DOMAIN At(blocked, I), NEW k \in WaitsOn(At(blocked, I)[n].cmd),
                      At(blocked, I)[n].id \notin closing', db[k].type \in Queues
               PROVE  k \in ready
    BY <1>1, <1>2 DEF WakeUpKept
  <2>1. At(blocked, I)[n].id \notin gone
    <3>1. Place(I, n) \in I /\ At(blocked, I)[n] = blocked[Place(I, n)]
      <4>1. I \in SUBSET DOMAIN blocked
        OBVIOUS
      <4> HIDE DEF I
      <4> QED
        BY <1>5, <4>1, AtFacts
    <3> QED
      BY <3>1
  <2>2. At(blocked, I)[n].id \notin closing
    BY <1>2, <2>1
  <2> QED
    BY <1>2, <2>2, SelectedKept
<1> QED
  BY <1>10, <1>11, <1>12, <1>13, <1>14, <1>15 DEF IInv, Waiting

-----------------------------------------------------------------------------
LEMMA StepInv == IInv /\ [Next]_vars => IInv'
<1> SUFFICES ASSUME IInv, [Next]_vars
             PROVE  IInv'
  OBVIOUS
<1>1. CASE World
  <2>1. ASSUME NEW c \in Clients, NEW cmd \in Commands, Send(c, cmd)
        PROVE  IInv'
    BY <2>1, SendInv
  <2>2. ASSUME NEW c \in Clients, NEW how \in Leaves, PeerLeaves(c, how)
        PROVE  IInv'
    BY <2>2, PeerLeavesInv
  <2>3. ASSUME NEW c \in Clients, NEW maxclients \in MaxClients, Accept(c, maxclients)
        PROVE  IInv'
    BY <2>3, AcceptInv
  <2>4. ASSUME NEW i \in DOMAIN blocked, DeadlinePasses(i)
        PROVE  IInv'
    BY <2>4, DeadlinePassesInv
  <2> QED
    BY <1>1, <2>1, <2>2, <2>3, <2>4 DEF World
<1>2. CASE Server
  <2>1. ASSUME NEW c \in order, Read(c)
        PROVE  IInv'
    BY <2>1, ReadInv
  <2>2. CASE Drain
    <3>1. PICK c \in running :
            \/ \E over \in BOOLEAN : RunCommand(c, over)
            \/ ParkCommand(c)
            \/ ProtocolError(c)
      BY <2>2 DEF Drain
    <3> QED
      BY <3>1, RunCommandInv, ParkCommandInv, ProtocolErrorInv
  <2>3. ASSUME NEW W \in SUBSET writable, ReadEnd(W)
        PROVE  IInv'
    BY <2>3, ReadEndInv
  <2>4. ASSUME NEW i \in DOMAIN blocked, DropWaiter(i)
        PROVE  IInv'
    BY <2>4, DropWaiterInv
  <2>5. ASSUME NEW i \in DOMAIN blocked, RetryWaiter(i)
        PROVE  IInv'
    BY <2>5, RetryParksInv, RetryAnswersInv
  <2>6. ASSUME NEW W \in SUBSET out, Flush(W)
        PROVE  IInv'
    BY <2>6, FlushInv
  <2>7. CASE Poll \/ AcceptEnd
    BY <2>7, PollInv, AcceptEndInv
  <2>8. CASE TakeReady \/ ServeEnd
    BY <2>8, TakeReadyInv, ServeEndInv
  <2>9. CASE Resume \/ ResumeEnd
    BY <2>9, ResumeInv, ResumeEndInv
  <2>10. CASE ServeTimeouts
    BY <2>10, ServeTimeoutsInv
  <2> QED
    BY <1>2, <2>1, <2>2, <2>3, <2>4, <2>5, <2>6, <2>7, <2>8, <2>9, <2>10 DEF Server
<1>3. CASE UNCHANGED vars
  <2>1. UNCHANGED <<db, conns, peer, sent, nsent, rbuf, out, closing, parked, blocked, ready, running,
                    owed, phase, order, writable, batch, index, woken>>
    BY <1>3 DEF vars, wire, loop
  <2>2. Typed'
    BY <2>1 DEF IInv, Typed, WireTyped, LoopTyped, Phased, GoneClean
  <2> QED
    BY <2>1, <2>2, WaitingKept, WakeUpKeptKept DEF IInv
<1> QED
  BY <1>1, <1>2, <1>3 DEF Next

\* Every reachable state of the loop satisfies the invariant.
THEOREM Invariance == Spec => []IInv
BY InitInv, StepInv, PTL DEF Spec

-----------------------------------------------------------------------------
(***************************************************************************)
(* The order of a round.  While serve_ready_keys walks the registry, a     *)
(* queue that someone waits on is still ahead of the walk for that waiter, *)
(* or a waiter of this round has added to it.  WakeUpKept is too weak for  *)
(* this: it also lets a queue be ready again because it was popped from.   *)
(***************************************************************************)
Ordered ==
  phase = "serve" =>
    \A i \in DOMAIN blocked : \A k \in WaitsOn(blocked[i].cmd) :
      blocked[i].id \notin closing /\ db[k].type \in Queues =>
        k \in fed \/ (i >= index /\ k \in batch)

LEMMA FedTyped == ASSUME fed \subseteq Keys, [Next]_vars PROVE fed' \subseteq Keys
<1>1. CASE World
  <2>1. UNCHANGED loop
    BY <1>1 DEF World, Send, PeerLeaves, Accept, DeadlinePasses
  <2> QED
    BY <2>1 DEF loop
<1>2. CASE Server
  <2>1. fed' \in {fed, {}} \/ \E i \in DOMAIN blocked : RetryWaiter(i)
    <3>1. CASE Poll \/ AcceptEnd \/ (\E c \in order : Read(c)) \/ TakeReady \/ ServeEnd
      BY <3>1 DEF Poll, AcceptEnd, Read, TakeReady, ServeEnd
    <3>2. CASE Drain
      <4>1. UNCHANGED loop
        BY <3>2 DEF Drain, RunCommand, ParkCommand, ProtocolError
      <4> QED
        BY <4>1 DEF loop
    <3>3. CASE (\E W \in SUBSET writable : ReadEnd(W)) \/ Resume \/ ResumeEnd
      BY <3>3 DEF ReadEnd, Resume, ResumeEnd
    <3>4. CASE ServeTimeouts
      BY <3>4 DEF ServeTimeouts
    <3>5. CASE \E W \in SUBSET out : Flush(W)
      BY <3>5 DEF Flush, Close
    <3>6. CASE \E i \in DOMAIN blocked : DropWaiter(i)
      BY <3>6 DEF DropWaiter
    <3> QED
      BY <1>2, <3>1, <3>2, <3>3, <3>4, <3>5, <3>6 DEF Server
  <2>2. ASSUME NEW i \in DOMAIN blocked, RetryWaiter(i)
        PROVE  fed' \subseteq Keys
    BY <2>2 DEF RetryWaiter, Fed
  <2> QED
    BY <2>1, <2>2
<1>3. CASE UNCHANGED vars
  BY <1>3 DEF vars, loop
<1> QED
  BY <1>1, <1>2, <1>3 DEF Next

\* Who is passed over in a round has nothing to find, save on a fed key.
LEMMA PassedOverInOrder ==
  ASSUME IInv, Ordered, phase = "serve", NEW i \in DOMAIN blocked, AtNext(i),
         NEW j \in DOMAIN blocked, j < i, NEW k \in WaitsOn(blocked[j].cmd),
         blocked[j].id \notin closing, db[k].type \in Queues
  PROVE  k \in fed
<1>1. DOMAIN blocked = 1 .. Len(blocked) /\ index \in Nat /\ Len(blocked) \in Nat
  BY DEF IInv, Typed, WireTyped, LoopTyped
<1>2. k \in fed \/ (j >= index /\ k \in batch)
  BY DEF Ordered
<1>3. j \notin Matching
  BY <1>1 DEF AtNext
<1>4. ~(j >= index /\ k \in batch)
  BY <1>1, <1>3 DEF Matching
<1> QED
  BY <1>2, <1>4

LEMMA TakeReadyOrdered ==
  ASSUME IInv, TakeReady
  PROVE  Ordered'
<1>1. phase = "ready" /\ UNCHANGED <<db, closing, blocked>>
  BY DEF TakeReady
<1>2. CASE ready = {}
  BY <1>2 DEF TakeReady, Ordered
<1>3. CASE ready # {}
  <2>1. batch' = ready /\ index' = 1
    BY <1>3 DEF TakeReady
  <2>2. \A i \in DOMAIN blocked : i >= 1
    BY DEF IInv, Typed, WireTyped
  <2> QED
    BY <1>1, <2>1, <2>2 DEF IInv, WakeUpKept, Ordered
<1> QED
  BY <1>2, <1>3

LEMMA DropWaiterOrdered ==
  ASSUME IInv, Ordered, NEW i \in DOMAIN blocked, DropWaiter(i)
  PROVE  Ordered'
<1>1. /\ phase = "serve" /\ AtNext(i) /\ UNCHANGED <<db, closing, batch, fed>>
      /\ blocked' = RemoveAt(blocked, i) /\ index' = i
  BY DEF DropWaiter
<1>2. blocked \in Seq(Waiter) /\ i \in Nat /\ index \in Nat
  BY DEF IInv, Typed, WireTyped, LoopTyped
<1>3. \A n \in DOMAIN blocked' :
        \/ n < i /\ n \in DOMAIN blocked /\ blocked'[n] = blocked[n]
        \/ n >= i /\ n + 1 \in DOMAIN blocked /\ blocked'[n] = blocked[n + 1]
  BY <1>1, <1>2, RemoveAtFacts
<1> SUFFICES ASSUME NEW n \in DOMAIN blocked', NEW k \in WaitsOn(blocked'[n].cmd),
                    blocked'[n].id \notin closing, db[k].type \in Queues
             PROVE  k \in fed \/ (n >= i /\ k \in batch)
  BY <1>1 DEF Ordered
<1>4. CASE n < i /\ n \in DOMAIN blocked /\ blocked'[n] = blocked[n]
  BY <1>1, <1>4, PassedOverInOrder
<1>5. CASE n >= i /\ n + 1 \in DOMAIN blocked /\ blocked'[n] = blocked[n + 1]
  BY <1>1, <1>5 DEF Ordered
<1> QED
  BY <1>3, <1>4, <1>5

LEMMA RetryWaiterOrdered ==
  ASSUME IInv, Ordered, NEW i \in DOMAIN blocked, RetryWaiter(i)
  PROVE  Ordered'
<1> DEFINE cmd == blocked[i].cmd
           r == Run(cmd, db)
<1>1. /\ phase = "serve" /\ AtNext(i) /\ UNCHANGED <<closing, batch>>
      /\ db' = r.db /\ fed' = fed \cup Fed(r)
  BY DEF RetryWaiter
<1>2. blocked \in Seq(Waiter) /\ i \in Nat /\ index \in Nat /\ Sound(db)
  BY DEF IInv, Typed, WireTyped, LoopTyped
<1>3. \A n \in DOMAIN blocked : blocked[n].cmd \in Commands
  <2>1. \A n \in DOMAIN blocked : blocked[n] \in Waiter
    BY <1>2
  <2> QED
    BY <2>1 DEF Waiter
<1>4. Answered(cmd, db, r)
  BY <1>2, <1>3, RunFacts
<1> HIDE DEF r
\* A key that became a queue is one with more elements.
<1>5. ASSUME NEW k \in Keys, db'[k].type \in Queues, db[k].type \notin Queues
      PROVE  k \in fed'
  <2>1. Sound(db')
    BY <1>1, <1>4 DEF Answered
  <2>2. db[k].size = 0 /\ db'[k].size # 0 /\ db'[k].size \in Nat
    BY <1>2, <1>5, <2>1 DEF Sound, Content
  <2>3. db[k].size < r.db[k].size
    BY <1>1, <2>2
  <2> QED
    BY <1>1, <2>3 DEF Fed
<1>6. \A n \in DOMAIN blocked : WaitsOn(blocked[n].cmd) \subseteq Keys
  BY <1>3, CommandFacts
<1>7. CASE r.reply = "park"
  <2>1. index' = i + 1 /\ blocked' = blocked
    BY <1>7 DEF RetryWaiter, r
  <2>2. db' = db /\ \A k \in WaitsOn(cmd) : db[k].type \notin Queues
    BY <1>1, <1>4, <1>7 DEF Answered
  <2> SUFFICES ASSUME NEW n \in DOMAIN blocked, NEW k \in WaitsOn(blocked[n].cmd),
                      blocked[n].id \notin closing, db[k].type \in Queues
               PROVE  k \in fed \/ (n >= i + 1 /\ k \in batch)
    BY <1>1, <2>1, <2>2 DEF Ordered
  <2>3. n # i /\ n \in Nat
    BY <1>2, <2>2
  <2>4. CASE n < i
    BY <1>1, <2>4, PassedOverInOrder
  <2>5. CASE n >= i + 1
    BY <1>1, <2>5 DEF Ordered
  <2> QED
    BY <1>2, <2>3, <2>4, <2>5
<1>8. CASE r.reply # "park"
  <2>1. index' = i /\ blocked' = RemoveAt(blocked, i)
    BY <1>8 DEF RetryWaiter, r
  <2>2. \A n \in DOMAIN blocked' :
          \/ n < i /\ n \in DOMAIN blocked /\ blocked'[n] = blocked[n]
          \/ n >= i /\ n + 1 \in DOMAIN blocked /\ blocked'[n] = blocked[n + 1]
    BY <1>2, <2>1, RemoveAtFacts
  <2> SUFFICES ASSUME NEW n \in DOMAIN blocked', NEW k \in WaitsOn(blocked'[n].cmd),
                      blocked'[n].id \notin closing, db'[k].type \in Queues
               PROVE  k \in fed' \/ (n >= i /\ k \in batch)
    BY <1>1, <2>1 DEF Ordered
  <2>3. CASE db[k].type \notin Queues
    <3>1. k \in Keys
      BY <1>6, <2>2
    <3> QED
      BY <1>5, <2>3, <3>1
  <2>4. CASE db[k].type \in Queues
    <3>1. CASE n < i /\ n \in DOMAIN blocked /\ blocked'[n] = blocked[n]
      <4>1. k \in fed
        BY <1>1, <2>4, <3>1, PassedOverInOrder
      <4> QED
        BY <1>1, <4>1
    <3>2. CASE n >= i /\ n + 1 \in DOMAIN blocked /\ blocked'[n] = blocked[n + 1]
      BY <1>1, <2>4, <3>2 DEF Ordered
    <3> QED
      BY <2>2, <3>1, <3>2
  <2> QED
    BY <2>3, <2>4
<1> QED
  BY <1>7, <1>8

LEMMA OrderedStep == ASSUME IInv, Ordered, [Next]_vars PROVE Ordered'
<1>1. CASE World
  <2>1. phase # "serve" /\ phase' = phase
    BY <1>1 DEF World, Send, PeerLeaves, Accept, DeadlinePasses, loop
  <2> QED
    BY <2>1 DEF Ordered
<1>2. CASE Server
  <2>1. CASE Drain
    <3>1. running # {} /\ phase' = phase
      BY <2>1 DEF Drain, RunCommand, ParkCommand, ProtocolError, loop
    <3> QED
      BY <3>1 DEF Ordered, IInv, Typed, Phased
  <2>2. CASE Poll \/ AcceptEnd \/ (\E c \in order : Read(c)) \/ ServeEnd
    BY <2>2 DEF Poll, AcceptEnd, Read, ServeEnd, Ordered
  <2>3. CASE (\E W \in SUBSET writable : ReadEnd(W)) \/ Resume \/ ResumeEnd \/ ServeTimeouts
    BY <2>3 DEF ReadEnd, Resume, ResumeEnd, Resuming, ServeTimeouts, Ordered
  <2>4. CASE \E W \in SUBSET out : Flush(W)
    BY <2>4 DEF Flush, Close, Ordered
  <2> QED
    BY <1>2, <2>1, <2>2, <2>3, <2>4, TakeReadyOrdered, DropWaiterOrdered, RetryWaiterOrdered
    DEF Server
<1>3. CASE UNCHANGED vars
  BY <1>3 DEF vars, wire, loop, Ordered
<1> QED
  BY <1>1, <1>2, <1>3 DEF Next

\* The invariant of the loop with what a round has fed.
RoundInv == IInv /\ fed \subseteq Keys /\ Ordered

\* Every reachable state of the loop satisfies it, the walk of
\* serve_ready_keys included.
THEOREM OrderInvariance == Spec => []RoundInv
<1>1. Init => RoundInv
  <2>1. Init => fed \subseteq Keys /\ Ordered
    BY DEF Init, Ordered
  <2> QED
    BY <2>1, InitInv DEF RoundInv
<1>2. RoundInv /\ [Next]_vars => RoundInv'
  BY FedTyped, OrderedStep, StepInv DEF RoundInv
<1> QED
  BY <1>1, <1>2, PTL DEF Spec

-----------------------------------------------------------------------------
\* The state of the loop keeps its shape, whatever clients send and however
\* they leave: in particular process_requests drains one connection at a
\* time, and no list of the loop names a connection that was removed.
THEOREM TypeCorrect == Spec => []TypeOK
<1>1. RoundInv => TypeOK
  <2> SUFFICES ASSUME RoundInv
               PROVE  TypeOK
    OBVIOUS
  <2>1. Cardinality(running) <= 1 /\ running \subseteq conns
    <3>1. CASE running = {}
      <4>1. Cardinality({}) = 0
        BY FS_EmptySet
      <4> QED
        BY <3>1, <4>1
    <3>2. CASE \E c \in conns : running = {c}
      <4>1. PICK c \in conns : running = {c}
        BY <3>2
      <4>2. Cardinality({c}) = 1
        BY FS_Singleton
      <4> QED
        BY <4>1, <4>2
    <3> QED
      BY <3>1, <3>2 DEF RoundInv, IInv, Typed, LoopTyped
  <2> QED
    BY <2>1 DEF RoundInv, IInv, Typed, Sound, WireTyped, LoopTyped, TypeOK
<1> QED
  BY <1>1, OrderInvariance, PTL

\* The flag on the connection and the registry agree (ParkedOnce): forget_client,
\* serve_ready_keys and serve_timeouts keep both in step with park.
THEOREM ParkedOnceCorrect == Spec => []ParkedOnce
<1>1. IInv => ParkedOnce
  BY DEF IInv, Waiting
<1> QED
  BY <1>1, Invariance, PTL

\* Every command read is answered once, by its value or by its timeout.
THEOREM AnsweredOnceCorrect == Spec => []AnsweredOnce
<1>1. IInv => AnsweredOnce
  BY DEF IInv, Waiting
<1> QED
  BY <1>1, Invariance, PTL

\* What was pipelined behind a blocking command runs once it is answered: no
\* pass ends with commands left in the buffer of a connection that is neither
\* parked nor closing.
THEOREM NothingStrandedCorrect == Spec => []NothingStranded
<1>1. IInv => NothingStranded
  <2> SUFFICES ASSUME IInv, phase = "poll"
               PROVE  \A c \in conns \ (parked \cup closing) : rbuf[c] = <<>>
    BY DEF NothingStranded
  <2>1. running = {} /\ woken = <<>>
    BY DEF IInv, Typed, Phased
  <2>2. ToSet(woken) = {}
    BY <2>1 DEF ToSet
  <2> QED
    BY <2>1, <2>2 DEF IInv, Waiting, Drained
<1> QED
  BY <1>1, Invariance, PTL

\* A waiter that a write made answerable is never forgotten: when the loop
\* sleeps, one of its keys is ready, and the next pass retries it.
THEOREM NoLostWakeUpCorrect == Spec => []NoLostWakeUp
<1>1. IInv => NoLostWakeUp
  <2> SUFFICES ASSUME IInv, phase = "poll", NEW i \in DOMAIN blocked,
                      blocked[i].id \notin closing, Run(blocked[i].cmd, db).reply = "value"
               PROVE  WaitsOn(blocked[i].cmd) \cap ready # {}
    BY DEF NoLostWakeUp, Servable
  <2>1. Sound(db) /\ blocked[i].cmd \in Commands
    <3>1. blocked[i] \in Waiter
      BY TypedFacts DEF IInv
    <3> QED
      BY <3>1 DEF IInv, Typed, Waiter
  <2>2. Answered(blocked[i].cmd, db, Run(blocked[i].cmd, db))
    BY <2>1, RunFacts
  <2>3. PICK k \in WaitsOn(blocked[i].cmd) : db[k].type \in Queues
    BY <2>2 DEF Answered
  <2>4. k \in ready
    BY <2>3 DEF IInv, WakeUpKept
  <2> QED
    BY <2>4
<1> QED
  BY <1>1, Invariance, PTL

\* Waiters on one key are served oldest first: the walk of serve_ready_keys
\* hands an element of k to a waiter, the first of a round or a later one,
\* only if nobody who has waited longer waits on k, save for a k that a waiter
\* of the same round has moved a value to.
THEOREM OldestFirstCorrect == Spec => OldestFirst
<1>1. RoundInv /\ [Next]_vars =>
        [\A i \in DOMAIN blocked :
           RetryWaiter(i) =>
             \A k \in WaitsOn(blocked[i].cmd) \ fed, j \in 1 .. i - 1 :
               db'[k].size < db[k].size =>
                 \/ k \notin WaitsOn(blocked[j].cmd)
                 \/ blocked[j].id \in closing]_vars
  <2> SUFFICES ASSUME IInv, Ordered, NEW i \in DOMAIN blocked, RetryWaiter(i),
                      NEW k \in WaitsOn(blocked[i].cmd) \ fed, NEW j \in 1 .. i - 1,
                      db'[k].size < db[k].size, k \in WaitsOn(blocked[j].cmd),
                      blocked[j].id \notin closing
               PROVE  FALSE
    BY DEF RoundInv
  <2>1. blocked \in Seq(Waiter) /\ Sound(db)
    BY DEF IInv, Typed, WireTyped
  <2>2. j \in DOMAIN blocked /\ j < i
    BY <2>1
  <2>3. blocked[i].cmd \in Commands
    <3>1. blocked[i] \in Waiter
      BY <2>1
    <3> QED
      BY <3>1 DEF Waiter
  <2>4. k \in Keys
    BY <2>3, CommandFacts
  <2>5. Sound(db')
    <3>1. db' = Run(blocked[i].cmd, db).db
      BY DEF RetryWaiter
    <3>2. Answered(blocked[i].cmd, db, Run(blocked[i].cmd, db))
      BY <2>1, <2>3, RunFacts
    <3> QED
      BY <3>1, <3>2 DEF Answered
  <2>6. db[k].size \in Nat /\ db'[k].size \in Nat
    BY <2>1, <2>4, <2>5 DEF Sound, Content
  <2>7. db[k].type \in Queues
    BY <2>1, <2>4, <2>6 DEF Sound
  <2>8. AtNext(i) /\ phase = "serve"
    BY DEF RetryWaiter
  <2>9. k \in fed
    BY <2>2, <2>7, <2>8, PassedOverInOrder
  <2> QED
    BY <2>9
<1> QED
  BY <1>1, OrderInvariance, PTL DEF Spec, OldestFirst

=============================================================================
