---------------------------- MODULE PubSubProofs ----------------------------
(***************************************************************************)
(* Publish/subscribe, proved for any number of connections, channels,      *)
(* patterns and messages.  Of a message the proof knows that it is on its  *)
(* way exactly once: a connection's own copies are in `got` at once, the   *)
(* others wait in the outbox, and the two never meet because what is in    *)
(* the outbox for a connection was published by another.                   *)
(***************************************************************************)
EXTENDS PubSub, TLAPS, FiniteSetTheorems, FunctionTheorems, SequenceTheorems

\* Whoever is gone, or not there yet, holds nothing.
GoneHoldsNothing == \A c \in Ids \ conns : held[c] = {}

\* Until the outbox is handed out a connection has got its own messages only,
\* and the outbox has only other connections' ones; messages are numbered.
OwnInline ==
  /\ phase = "close" => outbox = <<>>
  /\ phase = "deliver" => outbox # <<>>
  /\ phase = "commands" => \A c \in Ids : \A f \in ToSet(got[c]) : f.by = c
  /\ \A d \in ToSet(outbox) : d.frame.by # d.id

Numbered ==
  /\ \A c \in Ids : \A f \in ToSet(got[c]) : f.msg <= sent
  /\ \A d \in ToSet(outbox) : d.frame.msg <= sent
  /\ \A c \in Ids : \A f \in ToSet(got[c]), d \in ToSet(outbox) :
       f.msg = d.frame.msg => f.by = d.frame.by
  /\ \A d, e \in ToSet(outbox) : d.frame.msg = e.frame.msg => d.frame.by = e.frame.by

\* What a connection still has to get is none of what it has got, and may
\* follow it.
Follows(f, g) == f.msg < g.msg \/ (f.msg = g.msg /\ g.via \in Patterns)
Awaited ==
  \A c \in Ids : \A f \in ToSet(got[c]), d \in ToSet(outbox) :
    d.id = c => f # d.frame /\ (f.by = d.frame.by => Follows(f, d.frame))

\* Nothing is on its way twice.
OutboxOnce == IsInjective(outbox)
GotOnce == \A c \in Ids : IsInjective(got[c])

\* What is due was got or is on its way; what is on its way is due, and what
\* was got is, but for the single copy that EXEC lets through.
NothingLost ==
  \A c \in Ids : \A f \in due[c] : f \in ToSet(got[c]) \/ [id |-> c, frame |-> f] \in ToSet(outbox)
OutboxDue == \A d \in ToSet(outbox) : d.frame \in due[d.id]
ExtraAlone ==
  \A c \in Ids : \A f \in ToSet(got[c]) \ due[c] :
    f.by = c /\ \A g \in ToSet(got[c]) : g.msg = f.msg => g = f

\* The order of two copies for one connection from one publisher.
OutboxOrdered ==
  \A i, j \in DOMAIN outbox :
    i < j /\ outbox[i].id = outbox[j].id => Follows(outbox[i].frame, outbox[j].frame)
GotOrdered ==
  \A c \in Ids : \A i, j \in DOMAIN got[c] :
    i < j /\ got[c][i].by = got[c][j].by => Follows(got[c][i], got[c][j])

RegistryInv == TypeOK /\ GoneHoldsNothing /\ RegistryAgrees /\ LateInThePassOnly
MessagesInv ==
  /\ OwnInline /\ Numbered /\ Awaited
  /\ OutboxOnce /\ GotOnce
  /\ NothingLost /\ OutboxDue /\ ExtraAlone
  /\ OutboxOrdered /\ GotOrdered

IInv == RegistryInv /\ MessagesInv

-----------------------------------------------------------------------------
(***************************************************************************)
(* Sequences.                                                              *)
(***************************************************************************)
\* A concatenation has the elements of the one, then those of the other.
LEMMA ConcatFacts ==
  ASSUME NEW S, NEW q \in Seq(S), NEW r \in Seq(S)
  PROVE  /\ q \o r \in Seq(S)
         /\ \A i \in DOMAIN (q \o r) :
              \/ i \in DOMAIN q /\ (q \o r)[i] = q[i]
              \/ \E k \in DOMAIN r : i = Len(q) + k /\ (q \o r)[i] = r[k]
         /\ \A i \in DOMAIN q : i \in DOMAIN (q \o r) /\ (q \o r)[i] = q[i]
         /\ \A k \in DOMAIN r : Len(q) + k \in DOMAIN (q \o r) /\ (q \o r)[Len(q) + k] = r[k]
         /\ \A i \in DOMAIN q, k \in DOMAIN r : i < Len(q) + k
<1>1. /\ q \o r \in Seq(S)
      /\ Len(q \o r) = Len(q) + Len(r)
      /\ \A i \in 1 .. Len(q) + Len(r) :
           (q \o r)[i] = IF i <= Len(q) THEN q[i] ELSE r[i - Len(q)]
  BY ConcatProperties
<1>2. /\ Len(q) \in Nat /\ Len(r) \in Nat
      /\ DOMAIN q = 1 .. Len(q) /\ DOMAIN r = 1 .. Len(r)
      /\ DOMAIN (q \o r) = 1 .. Len(q) + Len(r)
  BY <1>1
<1>3. ASSUME NEW i \in DOMAIN (q \o r)
      PROVE  \/ i \in DOMAIN q /\ (q \o r)[i] = q[i]
             \/ \E k \in DOMAIN r : i = Len(q) + k /\ (q \o r)[i] = r[k]
  <2>1. CASE i <= Len(q)
    BY <1>1, <1>2, <2>1
  <2>2. CASE ~(i <= Len(q))
    <3>1. i - Len(q) \in DOMAIN r /\ i = Len(q) + (i - Len(q))
      BY <1>2, <2>2
    <3>2. (q \o r)[i] = r[i - Len(q)]
      BY <1>1, <1>2, <2>2
    <3> QED
      BY <3>1, <3>2
  <2> QED
    BY <2>1, <2>2
<1>4. \A i \in DOMAIN q : i \in DOMAIN (q \o r) /\ (q \o r)[i] = q[i]
  BY <1>1, <1>2
<1>5. ASSUME NEW k \in DOMAIN r
      PROVE  Len(q) + k \in DOMAIN (q \o r) /\ (q \o r)[Len(q) + k] = r[k]
  <2>1. Len(q) + k \in 1 .. Len(q) + Len(r) /\ ~(Len(q) + k <= Len(q)) /\ (Len(q) + k) - Len(q) = k
    BY <1>2
  <2> QED
    BY <1>1, <1>2, <2>1
<1>6. \A i \in DOMAIN q, k \in DOMAIN r : i < Len(q) + k
  BY <1>2
<1> QED
  BY <1>1, <1>3, <1>4, <1>5, <1>6

\* A queue that is not empty has a head, and its tail is what comes after.
LEMMA TailFacts ==
  ASSUME NEW S, NEW q \in Seq(S), q # <<>>
  PROVE  /\ Head(q) \in S /\ Tail(q) \in Seq(S)
         /\ 1 \in DOMAIN q /\ Head(q) = q[1]
         /\ \A i \in DOMAIN Tail(q) : i + 1 \in DOMAIN q /\ Tail(q)[i] = q[i + 1]
         /\ \A j \in DOMAIN q : j = 1 \/ \E i \in DOMAIN Tail(q) : j = i + 1
<1>1. /\ Len(q) \in Nat /\ Len(q) # 0 /\ DOMAIN q = 1 .. Len(q)
      /\ Tail(q) \in Seq(S) /\ DOMAIN Tail(q) = 1 .. Len(q) - 1
      /\ \A i \in 1 .. Len(q) - 1 : Tail(q)[i] = q[i + 1]
  OBVIOUS
<1>2. \A j \in DOMAIN q : j = 1 \/ (j - 1 \in DOMAIN Tail(q) /\ j = (j - 1) + 1)
  BY <1>1
<1> QED
  BY <1>1, <1>2

LEMMA ToSetTail ==
  ASSUME NEW S, NEW q \in Seq(S), q # <<>>
  PROVE  ToSet(q) = {Head(q)} \cup ToSet(Tail(q))
BY TailFacts DEF ToSet

\* One more element, at the end.
LEMMA AppendFacts ==
  ASSUME NEW S, NEW q \in Seq(S), NEW x \in S
  PROVE  /\ Append(q, x) \in Seq(S)
         /\ DOMAIN Append(q, x) = DOMAIN q \cup {Len(q) + 1}
         /\ \A i \in DOMAIN q : i < Len(q) + 1 /\ Append(q, x)[i] = q[i]
         /\ Append(q, x)[Len(q) + 1] = x
         /\ ToSet(Append(q, x)) = ToSet(q) \cup {x}
<1>1. /\ Append(q, x) \in Seq(S)
      /\ DOMAIN Append(q, x) = DOMAIN q \cup {Len(q) + 1}
      /\ \A i \in DOMAIN q : i < Len(q) + 1 /\ Append(q, x)[i] = q[i]
      /\ Append(q, x)[Len(q) + 1] = x
  OBVIOUS
<1> QED
  BY <1>1 DEF ToSet

-----------------------------------------------------------------------------
(***************************************************************************)
(* The registry.                                                           *)
(***************************************************************************)
Registered(r) ==
  /\ DOMAIN r \subseteq Subscriptions
  /\ \A s \in DOMAIN r : r[s] \subseteq Ids /\ r[s] # {}

\* Empty entries apart, Nonempty leaves every subscription its subscribers.
LEMMA NonemptyFacts ==
  ASSUME NEW r, DOMAIN r \subseteq Subscriptions, \A s \in DOMAIN r : r[s] \subseteq Ids
  PROVE  /\ Registered(Nonempty(r))
         /\ \A s \in Subscriptions : Subscribers(Nonempty(r), s) = Subscribers(r, s)
<1>1. /\ DOMAIN Nonempty(r) = {x \in DOMAIN r : r[x] # {}}
      /\ \A s \in DOMAIN Nonempty(r) : Nonempty(r)[s] = r[s]
  BY DEF Nonempty
<1> QED
  BY <1>1 DEF Registered, Subscribers

\* subscribe: one more subscriber of each name.
LEMMA AddIdFacts ==
  ASSUME NEW r, Registered(r), NEW S \in SUBSET Subscriptions, NEW c \in Ids
  PROVE  /\ Registered(AddId(r, S, c))
         /\ \A s \in Subscriptions :
              Subscribers(AddId(r, S, c), s)
                = IF s \in S THEN Subscribers(r, s) \cup {c} ELSE Subscribers(r, s)
<1>1. DOMAIN AddId(r, S, c) = DOMAIN r \cup S
  BY DEF AddId
<1>2. \A s \in DOMAIN r \cup S :
        AddId(r, S, c)[s] = Subscribers(r, s) \cup (IF s \in S THEN {c} ELSE {})
  BY DEF AddId
<1> QED
  BY <1>1, <1>2 DEF Registered, Subscribers

\* unsubscribe: one less.
LEMMA RemoveIdFacts ==
  ASSUME NEW r, Registered(r), NEW S \in SUBSET Subscriptions, NEW c \in Ids
  PROVE  /\ Registered(RemoveId(r, S, c))
         /\ \A s \in Subscriptions :
              Subscribers(RemoveId(r, S, c), s)
                = IF s \in S THEN Subscribers(r, s) \ {c} ELSE Subscribers(r, s)
<1> DEFINE q == [s \in DOMAIN r |-> IF s \in S THEN r[s] \ {c} ELSE r[s]]
<1>1. DOMAIN q \subseteq Subscriptions /\ \A s \in DOMAIN q : q[s] \subseteq Ids
  BY DEF Registered
<1>2. \A s \in Subscriptions :
        Subscribers(q, s) = IF s \in S THEN Subscribers(r, s) \ {c} ELSE Subscribers(r, s)
  BY DEF Subscribers
<1> HIDE DEF q
<1>3. /\ Registered(Nonempty(q))
      /\ \A s \in Subscriptions : Subscribers(Nonempty(q), s) = Subscribers(q, s)
  BY <1>1, NonemptyFacts
<1> QED
  BY <1>2, <1>3 DEF RemoveId, q

\* drop_client: nobody who is gone subscribes to anything.
LEMMA DropClientsFacts ==
  ASSUME NEW r, Registered(r), NEW gone
  PROVE  /\ Registered(DropClients(r, gone))
         /\ \A s \in Subscriptions :
              Subscribers(DropClients(r, gone), s) = Subscribers(r, s) \ gone
<1> DEFINE q == [s \in DOMAIN r |-> r[s] \ gone]
<1>1. DOMAIN q \subseteq Subscriptions /\ \A s \in DOMAIN q : q[s] \subseteq Ids
  BY DEF Registered
<1>2. \A s \in Subscriptions : Subscribers(q, s) = Subscribers(r, s) \ gone
  BY DEF Subscribers
<1> HIDE DEF q
<1>3. /\ Registered(Nonempty(q))
      /\ \A s \in Subscriptions : Subscribers(Nonempty(q), s) = Subscribers(q, s)
  BY <1>1, NonemptyFacts
<1> QED
  BY <1>2, <1>3 DEF DropClients, q

-----------------------------------------------------------------------------
(***************************************************************************)
(* What PUBLISH sends: a copy for each subscription, each once, the copies *)
(* of one connection in the order channel, patterns.                       *)
(***************************************************************************)
Copy(s, c) == [via |-> s, by |-> c, msg |-> sent + 1]
CopyFor(x, s, c) == [id |-> x, frame |-> Copy(s, c)]

OwnCopies(own, c, channel, exec) ==
  /\ \A i \in DOMAIN own : \E s \in HeldTo(c, channel) : own[i] = Copy(s, c)
  /\ IsInjective(own)
  /\ \A i, j \in DOMAIN own : i < j => own[j].via \in Patterns
  /\ exec => \A i, j \in DOMAIN own : i = j
  /\ ~exec => \A s \in HeldTo(c, channel) : \E i \in DOMAIN own : own[i] = Copy(s, c)

OthersCopies(others, c, channel) ==
  /\ \A i \in DOMAIN others :
       \E x \in conns \ {c} : \E s \in HeldTo(x, channel) : others[i] = CopyFor(x, s, c)
  /\ IsInjective(others)
  /\ \A i, j \in DOMAIN others :
       i < j /\ others[i].id = others[j].id => others[j].frame.via \in Patterns
  /\ \A x \in Ids \ {c} : \A s \in HeldTo(x, channel) :
       \E i \in DOMAIN others : others[i] = CopyFor(x, s, c)

\* The deliveries go to the connections that hold a subscription: the registry
\* and the connections agree.
LEMMA DeliveriesFacts ==
  ASSUME RegistryInv, NEW c \in conns, NEW channel \in Channels
  PROVE  \A d : d \in Deliveries(channel, c, sent + 1) <=>
           \E x \in conns : \E s \in HeldTo(x, channel) : d = CopyFor(x, s, c)
<1>1. \A s : s \in Ways(channel) <=>
           s \in DOMAIN registry /\ (s = channel \/ <<s, channel>> \in Matches)
  BY DEF Ways
<1>2. \A s \in DOMAIN registry : s \in Subscriptions /\ registry[s] = {x \in conns : s \in held[x]}
  BY DEF RegistryInv, TypeOK, RegistryAgrees, Subscribers
<1>3. \A x \in conns : x \in Ids
  BY BoundsAssumption DEF RegistryInv, TypeOK, Ids
<1>4. \A x \in conns : \A s \in held[x] : s \in DOMAIN registry
  <2> SUFFICES ASSUME NEW x \in conns, NEW s \in held[x]
               PROVE  s \in DOMAIN registry
    OBVIOUS
  <2>1. s \in Subscriptions
    BY <1>3 DEF RegistryInv, TypeOK
  <2>2. x \in Subscribers(registry, s)
    BY <2>1 DEF RegistryInv, RegistryAgrees
  <2> QED
    BY <2>2 DEF Subscribers
<1>5. \A d : d \in Deliveries(channel, c, sent + 1) <=>
           \E s \in Ways(channel) : \E x \in registry[s] : d = CopyFor(x, s, c)
  BY DEF Deliveries, CopyFor, Copy
<1> QED
  BY <1>1, <1>2, <1>4, <1>5 DEF HeldTo

\* There are finitely many, and they are well formed.
LEMMA DeliveriesFinite ==
  ASSUME RegistryInv, NEW c \in conns, NEW channel \in Channels, sent < MaxPublished
  PROVE  /\ IsFiniteSet(Deliveries(channel, c, sent + 1))
         /\ Deliveries(channel, c, sent + 1) \subseteq Delivery
<1> DEFINE D == Deliveries(channel, c, sent + 1)
           f == [d \in D |-> <<d.frame.via, d.id>>]
<1>1. \A d \in D : \E x \in conns : \E s \in HeldTo(x, channel) : d = CopyFor(x, s, c)
  BY DeliveriesFacts
<1>2. \A x \in conns : x \in Ids
  BY BoundsAssumption DEF RegistryInv, TypeOK, Ids
<1>3. \A x \in conns : \A s \in HeldTo(x, channel) : s \in Subscriptions
  BY <1>2 DEF HeldTo, RegistryInv, TypeOK
<1>4. sent + 1 \in 1 .. MaxPublished
  BY BoundsAssumption DEF RegistryInv, TypeOK
<1>5. \A d \in D : d \in Delivery
  BY <1>1, <1>2, <1>3, <1>4 DEF CopyFor, Copy, Delivery, Frame
<1>6. f \in [D -> Subscriptions \X Ids]
  BY <1>5 DEF Delivery, Frame
<1>7. \A d, e \in D : f[d] = f[e] => d = e
  <2> SUFFICES ASSUME NEW d \in D, NEW e \in D, f[d] = f[e]
               PROVE  d = e
    OBVIOUS
  <2>1. d.frame.via = e.frame.via /\ d.id = e.id
    OBVIOUS
  <2> QED
    BY <1>1, <2>1 DEF CopyFor, Copy
<1> HIDE DEF f, D
<1>8. IsFiniteSet(Subscriptions \X Ids)
  <2>1. IsFiniteSet(Subscriptions)
    BY NamesAssumption, FS_Union DEF Subscriptions
  <2>2. IsFiniteSet(Ids)
    BY BoundsAssumption, FS_Interval DEF Ids
  <2> QED
    BY <2>1, <2>2, FS_Product
<1>9. IsFiniteSet(D)
  <2>1. f \in Injection(D, Subscriptions \X Ids)
    BY <1>6, <1>7, Fun_IsInj
  <2> QED
    BY <1>8, <2>1, FS_Injection
<1> QED
  BY <1>5, <1>9 DEF D

\* An enumeration of a finite set has each of its elements, once.
LEMMA SetToSeqsFacts ==
  ASSUME NEW S, IsFiniteSet(S), NEW q \in SetToSeqs(S)
  PROVE  /\ q \in Seq(S)
         /\ IsInjective(q)
         /\ \A d \in S : \E i \in DOMAIN q : q[i] = d
<1> DEFINE E == 1 .. Cardinality(S)
<1>1. Cardinality(S) \in Nat
  BY FS_CardinalityType
<1>2. q \in [E -> S] /\ \A i, j \in E : i # j => q[i] # q[j]
  BY DEF SetToSeqs
<1>3. IsFiniteSet(E) /\ Cardinality(E) = Cardinality(S)
  BY <1>1, FS_Interval
<1>4. q \in Injection(E, S)
  BY <1>2, Fun_IsInj
<1>5. q \in Surjection(E, S)
  BY <1>3, <1>4, FS_Injection
<1> HIDE DEF E
<1>6. \A d \in S : \E i \in E : q[i] = d
  BY <1>5, Fun_SurjectionProperties
<1> QED
  BY <1>1, <1>2, <1>6 DEF IsInjective, E

\* In the order of publish, of two copies for one connection the later one is
\* a pattern's.
LEMMA OrderFacts ==
  ASSUME NEW q \in Seq(Delivery), PublishOrder(q)
  PROVE  \A i, j \in DOMAIN q : i < j /\ q[i].id = q[j].id => q[j].frame.via \in Patterns
<1> SUFFICES ASSUME NEW i \in DOMAIN q, NEW j \in DOMAIN q, i < j, q[i].id = q[j].id
             PROVE  q[j].frame.via \in Patterns
  OBVIOUS
<1>1. q[i] \in Delivery /\ q[j] \in Delivery
  OBVIOUS
<1>2. q[i].id \in Int /\ ~(q[i].id < q[j].id)
  BY <1>1 DEF Delivery, Ids
<1>3. q[i].frame.via # q[j].frame.via
  BY <1>2 DEF PublishOrder
<1>4. q[j].frame.via \notin Channels
  BY <1>3 DEF PublishOrder
<1> QED
  BY <1>1, <1>4 DEF Delivery, Frame, Subscriptions

\* publish in commands/pubsub.rs: what goes inline and what to the outbox.
LEMMA PublishFacts ==
  ASSUME RegistryInv, NEW c \in conns, NEW channel \in Channels, NEW exec \in BOOLEAN,
         Publish(c, channel, exec)
  PROVE  \E own \in Seq(Frame), others \in Seq(Delivery) :
           /\ outbox' = outbox \o others
           /\ got' = [got EXCEPT ![c] = @ \o own]
           /\ OwnCopies(own, c, channel, exec)
           /\ OthersCopies(others, c, channel)
<1> DEFINE D == Deliveries(channel, c, sent + 1)
           M == {d \in D : d.id = c}
           R == D \ M
<1>1. PICK mine \in SetToSeqs(M), others \in SetToSeqs(R) :
        /\ PublishOrder(mine) /\ PublishOrder(others)
        /\ Send(c, IF exec /\ mine # <<>> THEN <<mine[1]>> ELSE mine, others)
  BY DEF Publish
<1> DEFINE kept == IF exec /\ mine # <<>> THEN <<mine[1]>> ELSE mine
           own == Frames(kept)
<1>2. sent < MaxPublished
  BY DEF Publish
<1>3. IsFiniteSet(D) /\ D \subseteq Delivery
  BY <1>2, DeliveriesFinite
<1>4. \A d : d \in D <=> \E x \in conns : \E s \in HeldTo(x, channel) : d = CopyFor(x, s, c)
  BY DeliveriesFacts
<1> HIDE DEF D
<1>5. /\ \A d : d \in M <=> d \in D /\ d.id = c
      /\ \A d : d \in R <=> d \in D /\ d.id # c
  OBVIOUS
<1>6. IsFiniteSet(M) /\ IsFiniteSet(R)
  BY <1>3, FS_Subset
<1> HIDE DEF M, R
<1>7. mine \in Seq(M) /\ IsInjective(mine) /\ \A d \in M : \E i \in DOMAIN mine : mine[i] = d
  BY <1>6, SetToSeqsFacts
<1>8. others \in Seq(R) /\ IsInjective(others) /\ \A d \in R : \E i \in DOMAIN others : others[i] = d
  BY <1>6, SetToSeqsFacts
<1>9. /\ mine \in Seq(Delivery) /\ \A i \in DOMAIN mine : mine[i] \in M
      /\ others \in Seq(Delivery) /\ \A i \in DOMAIN others : others[i] \in R
  BY <1>3, <1>5, <1>7, <1>8
<1>10. outbox' = outbox \o others /\ got' = [got EXCEPT ![c] = @ \o own]
  BY <1>1 DEF Send
<1>11. OthersCopies(others, c, channel)
  <2>1. ASSUME NEW n \in DOMAIN others
        PROVE  \E x \in conns \ {c} : \E s \in HeldTo(x, channel) : others[n] = CopyFor(x, s, c)
    <3>1. others[n] \in D /\ others[n].id # c
      BY <1>5, <1>9
    <3> QED
      BY <1>4, <3>1 DEF CopyFor
  <2>2. \A n, o \in DOMAIN others :
          n < o /\ others[n].id = others[o].id => others[o].frame.via \in Patterns
    BY <1>1, <1>9, OrderFacts
  <2>3. ASSUME NEW x \in Ids \ {c}, NEW s \in HeldTo(x, channel)
        PROVE  \E n \in DOMAIN others : others[n] = CopyFor(x, s, c)
    <3>1. x \in conns
      BY DEF HeldTo, RegistryInv, GoneHoldsNothing
    <3>2. CopyFor(x, s, c) \in R
      BY <1>4, <1>5, <3>1 DEF CopyFor
    <3> QED
      BY <1>8, <3>2
  <2> QED
    BY <1>8, <2>1, <2>2, <2>3 DEF OthersCopies
<1>12. /\ \A n \in DOMAIN mine : \E s \in HeldTo(c, channel) : mine[n] = CopyFor(c, s, c)
       /\ \A n, o \in DOMAIN mine : n < o => mine[o].frame.via \in Patterns
       /\ \A s \in HeldTo(c, channel) : \E n \in DOMAIN mine : mine[n] = CopyFor(c, s, c)
  <2>1. ASSUME NEW n \in DOMAIN mine
        PROVE  mine[n].id = c /\ \E s \in HeldTo(c, channel) : mine[n] = CopyFor(c, s, c)
    <3>1. mine[n] \in D /\ mine[n].id = c
      BY <1>5, <1>9
    <3> QED
      BY <1>4, <3>1 DEF CopyFor
  <2>2. \A n, o \in DOMAIN mine :
          n < o /\ mine[n].id = mine[o].id => mine[o].frame.via \in Patterns
    BY <1>1, <1>9, OrderFacts
  <2>3. ASSUME NEW s \in HeldTo(c, channel)
        PROVE  \E n \in DOMAIN mine : mine[n] = CopyFor(c, s, c)
    <3>1. CopyFor(c, s, c) \in M
      BY <1>4, <1>5 DEF CopyFor
    <3> QED
      BY <1>7, <3>1
  <2> QED
    BY <2>1, <2>2, <2>3
<1>13. /\ kept \in Seq(Delivery) /\ IsInjective(kept)
       /\ \A n \in DOMAIN kept : n \in DOMAIN mine /\ kept[n] = mine[n]
       /\ exec => \A n, o \in DOMAIN kept : n = o
       /\ ~exec => kept = mine
  <2>1. CASE exec /\ mine # <<>>
    <3>1. 1 \in DOMAIN mine /\ mine[1] \in Delivery
      BY <1>9, <2>1
    <3>2. kept = <<mine[1]>> /\ DOMAIN kept = {1} /\ kept[1] = mine[1]
      BY <2>1
    <3>3. <<mine[1]>> \in Seq(Delivery)
      BY <3>1
    <3> QED
      BY <2>1, <3>1, <3>2, <3>3 DEF IsInjective
  <2>2. CASE ~exec \/ mine = <<>>
    BY <1>7, <1>9, <2>2
  <2> QED
    BY <2>1, <2>2
<1> HIDE DEF kept
<1>14. DOMAIN own = DOMAIN kept /\ \A n \in DOMAIN own : own[n] = kept[n].frame
  BY DEF Frames
<1> HIDE DEF own
<1>15. own \in Seq(Frame)
  <2>1. Len(kept) \in Nat /\ DOMAIN own = 1 .. Len(kept)
    BY <1>13, <1>14
  <2>2. \A n \in DOMAIN kept : kept[n] \in Delivery
    BY <1>13
  <2>3. \A n \in DOMAIN own : own[n] \in Frame
    BY <1>14, <2>2 DEF Delivery
  <2> QED
    BY <2>1, <2>3 DEF own, Frames
<1>16. OwnCopies(own, c, channel, exec)
  <2>1. \A n \in DOMAIN own : \E s \in HeldTo(c, channel) :
          own[n] = Copy(s, c) /\ kept[n] = CopyFor(c, s, c)
    BY <1>12, <1>13, <1>14 DEF CopyFor
  <2>2. IsInjective(own)
    BY <1>13, <1>14, <2>1 DEF IsInjective, CopyFor
  <2>3. \A n, o \in DOMAIN own : n < o => own[o].via \in Patterns
    BY <1>12, <1>13, <1>14
  <2>4. ~exec => \A s \in HeldTo(c, channel) : \E n \in DOMAIN own : own[n] = Copy(s, c)
    BY <1>12, <1>13, <1>14 DEF CopyFor
  <2> QED
    BY <1>13, <1>14, <2>1, <2>2, <2>3, <2>4 DEF OwnCopies
<1> QED
  BY <1>9, <1>10, <1>11, <1>15, <1>16

-----------------------------------------------------------------------------
(***************************************************************************)
(* The steps.  Most leave the messages alone.                              *)
(***************************************************************************)
LEMMA MessagesKept ==
  ASSUME MessagesInv, UNCHANGED <<messages, phase>>
  PROVE  MessagesInv'
BY DEF MessagesInv, messages, OwnInline, Numbered, Awaited, Follows, OutboxOnce, GotOnce, NothingLost, OutboxDue,
       ExtraAlone, OutboxOrdered, GotOrdered

LEMMA InitInv == Init => IInv
<1> SUFFICES ASSUME Init
             PROVE  IInv
  OBVIOUS
<1>1. DOMAIN registry = {} /\ DOMAIN outbox = {} /\ \A c \in Ids : DOMAIN got[c] = {}
  BY DEF Init
<1>2. TypeOK
  BY <1>1, BoundsAssumption DEF Init, TypeOK
<1>3. GoneHoldsNothing /\ RegistryAgrees /\ LateInThePassOnly
  BY <1>1 DEF Init, GoneHoldsNothing, RegistryAgrees, LateInThePassOnly, Subscribers
<1>4. ToSet(outbox) = {} /\ \A c \in Ids : ToSet(got[c]) = {}
  BY <1>1 DEF ToSet
<1>5. OwnInline /\ Numbered /\ Awaited /\ NothingLost /\ OutboxDue /\ ExtraAlone
  BY <1>4 DEF Init, OwnInline, Numbered, Awaited, NothingLost, OutboxDue, ExtraAlone
<1>6. OutboxOnce /\ GotOnce /\ OutboxOrdered /\ GotOrdered
  BY <1>1 DEF OutboxOnce, GotOnce, OutboxOrdered, GotOrdered, IsInjective
<1> QED
  BY <1>2, <1>3, <1>5, <1>6 DEF IInv, RegistryInv, MessagesInv

LEMMA ConnsAreIds ==
  ASSUME TypeOK
  PROVE  nextId \in Nat /\ conns \subseteq Ids
BY BoundsAssumption DEF TypeOK, Ids

\* A new connection: its id was never used.
LEMMA ConnectInv ==
  ASSUME IInv, Connect
  PROVE  IInv'
<1>1. MessagesInv'
  BY MessagesKept DEF IInv, Connect, messages
<1>2. nextId \in Nat /\ nextId + 1 \in Ids /\ nextId + 1 \notin conns
  BY BoundsAssumption DEF IInv, RegistryInv, TypeOK, Connect, Ids
<1>3. TypeOK'
  <2>1. nextId' \in 0 .. MaxIds /\ conns' \subseteq 1 .. nextId' /\ closing' \subseteq conns'
    BY <1>2, BoundsAssumption DEF IInv, RegistryInv, TypeOK, Connect, Ids
  <2> QED
    BY <2>1 DEF IInv, RegistryInv, TypeOK, Connect, messages
<1>4. held[nextId + 1] = {}
  BY <1>2 DEF IInv, RegistryInv, GoneHoldsNothing
<1>5. GoneHoldsNothing' /\ RegistryAgrees'
  BY <1>2, <1>4 DEF IInv, RegistryInv, GoneHoldsNothing, RegistryAgrees, Connect
<1>6. LateInThePassOnly'
  BY DEF IInv, RegistryInv, LateInThePassOnly, Connect, messages
<1> QED
  BY <1>1, <1>3, <1>5, <1>6 DEF IInv, RegistryInv

\* SUBSCRIBE and PSUBSCRIBE.
LEMMA SubscribeInv ==
  ASSUME IInv, NEW c \in conns, NEW names \in SUBSET Subscriptions, Subscribe(c, names)
  PROVE  IInv'
<1>1. MessagesInv'
  BY MessagesKept DEF IInv, Subscribe, messages
<1>2. c \in Ids
  BY ConnsAreIds DEF IInv, RegistryInv
<1>3. Registered(registry)
  BY DEF IInv, RegistryInv, TypeOK, Registered
<1>4. /\ Registered(registry')
      /\ \A s \in Subscriptions :
           Subscribers(registry', s)
             = IF s \in names \ held[c] THEN Subscribers(registry, s) \cup {c}
               ELSE Subscribers(registry, s)
  <2> DEFINE S == names \ held[c]
  <2>1. S \in SUBSET Subscriptions
    OBVIOUS
  <2>2. registry' = AddId(registry, S, c)
    BY DEF Subscribe
  <2> HIDE DEF S
  <2>3. /\ Registered(registry')
        /\ \A s \in Subscriptions :
             Subscribers(registry', s)
               = IF s \in S THEN Subscribers(registry, s) \cup {c}
                 ELSE Subscribers(registry, s)
    BY <1>2, <1>3, <2>1, <2>2, AddIdFacts
  <2> QED
    BY <2>3 DEF S
<1>5. held' = [held EXCEPT ![c] = @ \cup names] /\ held \in [Ids -> SUBSET Subscriptions]
  BY DEF Subscribe, IInv, RegistryInv, TypeOK
<1>6. UNCHANGED <<nextId, conns, closing, left, outbox, sent, due, got, phase>>
  BY DEF Subscribe, connection, messages
<1>7. TypeOK'
  BY <1>4, <1>5, <1>6 DEF IInv, RegistryInv, TypeOK, Registered
<1>8. GoneHoldsNothing'
  BY <1>2, <1>5, <1>6 DEF IInv, RegistryInv, GoneHoldsNothing
<1>9. RegistryAgrees'
  <2> SUFFICES ASSUME NEW s \in Subscriptions
               PROVE  Subscribers(registry', s) = {x \in conns : s \in held'[x]}
    BY <1>6 DEF RegistryAgrees
  <2>1. Subscribers(registry, s) = {x \in conns : s \in held[x]}
    BY DEF IInv, RegistryInv, RegistryAgrees
  <2>2. \A x \in conns : s \in held'[x] <=> s \in held[x] \/ (x = c /\ s \in names)
    BY <1>5, ConnsAreIds DEF IInv, RegistryInv
  <2> QED
    BY <1>4, <2>1, <2>2
<1>10. LateInThePassOnly'
  BY <1>5, <1>6, ConnsAreIds DEF IInv, RegistryInv, LateInThePassOnly
<1> QED
  BY <1>1, <1>7, <1>8, <1>9, <1>10 DEF IInv, RegistryInv

\* UNSUBSCRIBE, PUNSUBSCRIBE and RESET: a message under way leaves its mark.
LEMMA GiveUpInv ==
  ASSUME IInv, NEW c \in conns, NEW names \in SUBSET Subscriptions, GiveUp(c, names)
  PROVE  IInv'
<1>1. MessagesInv'
  BY MessagesKept DEF IInv, GiveUp, messages
<1>2. c \in Ids
  BY ConnsAreIds DEF IInv, RegistryInv
<1>3. Registered(registry)
  BY DEF IInv, RegistryInv, TypeOK, Registered
<1>4. /\ Registered(registry')
      /\ \A s \in Subscriptions :
           Subscribers(registry', s)
             = IF s \in held[c] \cap names THEN Subscribers(registry, s) \ {c}
               ELSE Subscribers(registry, s)
  <2> DEFINE S == held[c] \cap names
  <2>1. S \in SUBSET Subscriptions
    OBVIOUS
  <2>2. registry' = RemoveId(registry, S, c)
    BY DEF GiveUp
  <2> HIDE DEF S
  <2>3. /\ Registered(registry')
        /\ \A s \in Subscriptions :
             Subscribers(registry', s)
               = IF s \in S THEN Subscribers(registry, s) \ {c}
                 ELSE Subscribers(registry, s)
    BY <1>2, <1>3, <2>1, <2>2, RemoveIdFacts
  <2> QED
    BY <2>3 DEF S
<1>5. held' = [held EXCEPT ![c] = @ \ names] /\ held \in [Ids -> SUBSET Subscriptions]
  BY DEF GiveUp, IInv, RegistryInv, TypeOK
<1>6. UNCHANGED <<nextId, conns, closing, outbox, sent, due, got, phase>>
  BY DEF GiveUp, connection, messages
<1>7. /\ left \in [Ids -> SUBSET Subscriptions] /\ left' \in [Ids -> SUBSET Subscriptions]
      /\ \A x \in Ids : left[x] \subseteq left'[x]
      /\ \A d \in ToSet(outbox) : d.id = c /\ d.frame.via \in names => d.frame.via \in left'[c]
  BY <1>2 DEF GiveUp, UnderWay, IInv, RegistryInv, TypeOK
<1>8. TypeOK'
  BY <1>4, <1>5, <1>6, <1>7 DEF IInv, RegistryInv, TypeOK, Registered
<1>9. GoneHoldsNothing'
  BY <1>2, <1>5, <1>6 DEF IInv, RegistryInv, GoneHoldsNothing
<1>10. RegistryAgrees'
  <2> SUFFICES ASSUME NEW s \in Subscriptions
               PROVE  Subscribers(registry', s) = {x \in conns : s \in held'[x]}
    BY <1>6 DEF RegistryAgrees
  <2>1. Subscribers(registry, s) = {x \in conns : s \in held[x]}
    BY DEF IInv, RegistryInv, RegistryAgrees
  <2>2. \A x \in conns : s \in held'[x] <=> s \in held[x] /\ (x = c => s \notin names)
    BY <1>5, ConnsAreIds DEF IInv, RegistryInv
  <2> QED
    BY <1>4, <2>1, <2>2
<1>11. LateInThePassOnly'
  <2> SUFFICES ASSUME NEW i \in DOMAIN outbox
               PROVE  /\ outbox[i].id \in conns
                      /\ outbox[i].frame.via \in held'[outbox[i].id] \cup left'[outbox[i].id]
    BY <1>6 DEF LateInThePassOnly
  <2>1. /\ outbox[i].id \in conns
        /\ outbox[i].frame.via \in held[outbox[i].id] \cup left[outbox[i].id]
    BY DEF IInv, RegistryInv, LateInThePassOnly
  <2>2. outbox[i] \in ToSet(outbox) /\ outbox[i].id \in Ids
    BY <2>1, ConnsAreIds DEF ToSet, IInv, RegistryInv
  <2> QED
    BY <1>5, <1>7, <2>1, <2>2
<1> QED
  BY <1>1, <1>8, <1>9, <1>10, <1>11 DEF IInv, RegistryInv

\* QUIT, end of file: the connection is only marked.
LEMMA HangUpInv ==
  ASSUME IInv, NEW c \in conns, HangUp(c)
  PROVE  IInv'
<1>1. MessagesInv'
  BY MessagesKept DEF IInv, HangUp, messages
<1> QED
  BY <1>1 DEF IInv, RegistryInv, HangUp, messages, TypeOK, GoneHoldsNothing, RegistryAgrees,
              LateInThePassOnly

LEMMA ToSetConcat ==
  ASSUME NEW S, NEW q \in Seq(S), NEW r \in Seq(S)
  PROVE  ToSet(q \o r) = ToSet(q) \cup ToSet(r)
<1>1. \A i \in DOMAIN (q \o r) :
        \/ i \in DOMAIN q /\ (q \o r)[i] = q[i]
        \/ \E k \in DOMAIN r : (q \o r)[i] = r[k]
  BY ConcatFacts
<1>2. \A i \in DOMAIN q : \E j \in DOMAIN (q \o r) : (q \o r)[j] = q[i]
  BY ConcatFacts
<1>3. \A k \in DOMAIN r : \E j \in DOMAIN (q \o r) : (q \o r)[j] = r[k]
  <2>1. \A k \in DOMAIN r : Len(q) + k \in DOMAIN (q \o r) /\ (q \o r)[Len(q) + k] = r[k]
    BY ConcatFacts
  <2> QED
    BY <2>1
<1>4. ASSUME NEW x \in ToSet(q \o r)
      PROVE  x \in ToSet(q) \cup ToSet(r)
  <2>1. PICK i \in DOMAIN (q \o r) : x = (q \o r)[i]
    BY <1>4 DEF ToSet
  <2> QED
    BY <1>1, <2>1 DEF ToSet
<1>5. PICK s : s = q \o r
  OBVIOUS
<1>6. ToSet(q) \subseteq ToSet(s)
  BY ONLY <1>2, <1>5, ZenonT(30) DEF ToSet
<1>7. ToSet(r) \subseteq ToSet(s)
  BY ONLY <1>3, <1>5, ZenonT(30) DEF ToSet
<1> QED
  BY ONLY <1>4, <1>5, <1>6, <1>7

\* Two sequences without repetition and without a common element.
LEMMA ConcatOnce ==
  ASSUME NEW S, NEW q \in Seq(S), NEW r \in Seq(S), IsInjective(q), IsInjective(r),
         \A i \in DOMAIN q, k \in DOMAIN r : q[i] # r[k]
  PROVE  IsInjective(q \o r)
<1> SUFFICES ASSUME NEW i \in DOMAIN (q \o r), NEW j \in DOMAIN (q \o r),
                    (q \o r)[i] = (q \o r)[j]
             PROVE  i = j
  BY DEF IsInjective
<1>1. \A x \in DOMAIN (q \o r) :
        \/ x \in DOMAIN q /\ (q \o r)[x] = q[x]
        \/ \E k \in DOMAIN r : x = Len(q) + k /\ (q \o r)[x] = r[k]
  BY ConcatFacts, SMTT(30)
<1> QED
  BY <1>1 DEF IsInjective

\* PUBLISH.
LEMMA PublishInv ==
  ASSUME IInv, NEW c \in conns, NEW channel \in Channels, NEW exec \in BOOLEAN,
         Publish(c, channel, exec)
  PROVE  IInv'
<1>1. PICK own \in Seq(Frame), others \in Seq(Delivery) :
        /\ outbox' = outbox \o others
        /\ got' = [got EXCEPT ![c] = @ \o own]
        /\ OwnCopies(own, c, channel, exec)
        /\ OthersCopies(others, c, channel)
  BY PublishFacts DEF IInv
<1>2. /\ phase = "commands" /\ phase' = phase
      /\ sent' = sent + 1 /\ sent' \in 0 .. MaxPublished /\ sent \in Nat
      /\ sent + 1 \in 1 .. MaxPublished
      /\ UNCHANGED <<nextId, conns, closing, held, registry, left>>
  BY BoundsAssumption DEF Publish, Free, Runs, IInv, RegistryInv, TypeOK, connection
<1>3. c \in Ids /\ conns \subseteq Ids
  BY ConnsAreIds DEF IInv, RegistryInv
<1>4. /\ outbox \in Seq(Delivery) /\ got \in [Ids -> Seq(Frame)] /\ due \in [Ids -> SUBSET Frame]
      /\ held \in [Ids -> SUBSET Subscriptions]
  BY DEF IInv, RegistryInv, TypeOK
<1>5. /\ \A x \in Ids \ {c} : got'[x] = got[x]
      /\ got'[c] = got[c] \o own
  BY <1>1, <1>3, <1>4
<1>6. \A x \in Ids : \A f :
        f \in due'[x] <=>
          f \in due[x] \/ (~(exec /\ x = c) /\ \E s \in HeldTo(x, channel) : f = Copy(s, c))
  BY <1>2 DEF Publish, Copy
<1>7. \A x \in Ids : HeldTo(x, channel) \subseteq held[x] /\ HeldTo(x, channel) \subseteq Subscriptions
  BY <1>4 DEF HeldTo
<1>8. \A x \in Ids : \A s \in HeldTo(x, channel) : Copy(s, c) \in Frame /\ Copy(s, c).by = c
                                               /\ Copy(s, c).msg = sent + 1 /\ Copy(s, c).via = s
  BY <1>2, <1>3, <1>7 DEF Copy, Frame
<1>9. /\ ToSet(outbox') = ToSet(outbox) \cup ToSet(others)
      /\ ToSet(got'[c]) = ToSet(got[c]) \cup ToSet(own)
  BY <1>1, <1>3, <1>4, <1>5, ToSetConcat
<1>10. \A f \in ToSet(own) : \E s \in HeldTo(c, channel) : f = Copy(s, c)
  BY <1>1 DEF OwnCopies, ToSet
<1>11. \A d \in ToSet(others) : \E x \in conns \ {c} : \E s \in HeldTo(x, channel) : d = CopyFor(x, s, c)
  BY <1>1 DEF OthersCopies, ToSet
<1>12. /\ \A x \in Ids : \A f \in ToSet(got[x]) : f \in Frame
       /\ \A d \in ToSet(outbox) : d \in Delivery
  BY <1>4 DEF ToSet
<1>13. /\ \A x \in Ids : \A f \in ToSet(got[x]) : f.msg \in Int /\ f.msg <= sent /\ f.by = x
       /\ \A d \in ToSet(outbox) : d.frame.msg \in Int /\ d.frame.msg <= sent
       /\ \A d \in ToSet(outbox) : d.id \in Ids
  BY <1>2, <1>12 DEF IInv, MessagesInv, Numbered, OwnInline, Frame, Delivery
<1>14. /\ \A f \in ToSet(own) : f.by = c /\ f.msg = sent + 1
       /\ \A d \in ToSet(others) : /\ d.id \in conns \ {c} /\ d.frame.by = c /\ d.frame.msg = sent + 1
                                /\ d.frame.via \in held[d.id]
  BY <1>3, <1>7, <1>8, <1>10, <1>11 DEF CopyFor
<1>15. RegistryInv'
  <2>1. outbox' \in Seq(Delivery)
    BY <1>1, <1>4, ConcatFacts
  <2>2. got[c] \o own \in Seq(Frame)
    BY <1>1, <1>3, <1>4, ConcatFacts
  <2>3. got' \in [Ids -> Seq(Frame)]
    BY <1>1, <1>4, <2>2
  <2>4. due' \in [Ids -> SUBSET Frame]
    <3>1. due' = [x \in Ids |-> due'[x]]
      BY DEF Publish
    <3>2. \A x \in Ids : due'[x] \subseteq Frame
      BY <1>4, <1>6, <1>8
    <3> QED
      BY <3>1, <3>2
  <2>5. TypeOK'
    BY <1>2, <2>1, <2>3, <2>4 DEF IInv, RegistryInv, TypeOK
  <2>6. GoneHoldsNothing' /\ RegistryAgrees'
    BY <1>2 DEF IInv, RegistryInv, GoneHoldsNothing, RegistryAgrees
  <2>7. \A d \in ToSet(outbox) : d.id \in conns /\ d.frame.via \in held[d.id] \cup left[d.id]
    BY DEF IInv, RegistryInv, LateInThePassOnly, ToSet
  <2>8. \A d \in ToSet(outbox') : d.id \in conns /\ d.frame.via \in held[d.id] \cup left[d.id]
    BY <1>9, <1>14, <2>7
  <2>9. LateInThePassOnly'
    BY <1>2, <2>8 DEF LateInThePassOnly, ToSet
  <2> QED
    BY <2>5, <2>6, <2>9 DEF RegistryInv
<1>16. OwnInline'
  <2>1. \A x \in Ids : \A f \in ToSet(got'[x]) : f.by = x
    BY <1>3, <1>5, <1>9, <1>13, <1>14
  <2>2. \A d \in ToSet(outbox') : d.frame.by # d.id
    BY <1>9, <1>14 DEF IInv, MessagesInv, OwnInline
  <2> QED
    BY <1>2, <2>1, <2>2 DEF OwnInline
<1>17. Numbered'
  <2>1. \A x \in Ids : \A f \in ToSet(got'[x]) :
          \/ f \in ToSet(got[x]) /\ f.msg \in Int /\ f.msg <= sent
          \/ f.msg = sent + 1 /\ f.by = c
    BY <1>3, <1>5, <1>9, <1>13, <1>14
  <2>2. \A d \in ToSet(outbox') :
          \/ d \in ToSet(outbox) /\ d.frame.msg \in Int /\ d.frame.msg <= sent
          \/ d.frame.msg = sent + 1 /\ d.frame.by = c
    BY <1>9, <1>13, <1>14
  <2>3. /\ \A x \in Ids : \A f \in ToSet(got'[x]) : f.msg <= sent + 1
        /\ \A d \in ToSet(outbox') : d.frame.msg <= sent + 1
    BY <1>2, <2>1, <2>2
  <2>4. ASSUME NEW x \in Ids, NEW f \in ToSet(got'[x]), NEW d \in ToSet(outbox'),
               f.msg = d.frame.msg
        PROVE  f.by = d.frame.by
    <3>1. \A y \in Ids : \A g \in ToSet(got[y]), e \in ToSet(outbox) :
            g.msg = e.frame.msg => g.by = e.frame.by
      BY DEF IInv, MessagesInv, Numbered
    <3> QED
      BY <1>2, <2>1, <2>2, <2>4, <3>1
  <2>5. ASSUME NEW d \in ToSet(outbox'), NEW e \in ToSet(outbox'), d.frame.msg = e.frame.msg
        PROVE  d.frame.by = e.frame.by
    <3>1. \A x, y \in ToSet(outbox) : x.frame.msg = y.frame.msg => x.frame.by = y.frame.by
      BY DEF IInv, MessagesInv, Numbered
    <3> QED
      BY <1>2, <2>2, <2>5, <3>1
  <2> QED
    BY <1>2, <2>3, <2>4, <2>5 DEF Numbered
<1>18. OutboxOnce'
  <2>1. \A i \in DOMAIN outbox, k \in DOMAIN others : outbox[i] # others[k]
    <3> SUFFICES ASSUME NEW i \in DOMAIN outbox, NEW k \in DOMAIN others
                 PROVE  outbox[i] # others[k]
      OBVIOUS
    <3>1. outbox[i] \in ToSet(outbox) /\ others[k] \in ToSet(others)
      BY DEF ToSet
    <3>2. outbox[i].frame.msg \in Int /\ outbox[i].frame.msg <= sent /\ others[k].frame.msg = sent + 1
      BY <1>13, <1>14, <3>1
    <3>3. outbox[i].frame.msg # others[k].frame.msg
      BY <1>2, <3>2
    <3> QED
      BY <3>3
  <2>2. IsInjective(outbox) /\ IsInjective(others)
    BY <1>1 DEF OthersCopies, IInv, MessagesInv, OutboxOnce
  <2>3. IsInjective(outbox \o others)
    BY <1>1, <1>4, <2>1, <2>2, ConcatOnce
  <2> QED
    BY <1>1, <2>3 DEF OutboxOnce
<1>19. GotOnce'
  <2>1. \A i \in DOMAIN got[c], k \in DOMAIN own : got[c][i] # own[k]
    <3> SUFFICES ASSUME NEW i \in DOMAIN got[c], NEW k \in DOMAIN own
                 PROVE  got[c][i] # own[k]
      OBVIOUS
    <3>1. got[c][i] \in ToSet(got[c]) /\ own[k] \in ToSet(own)
      BY DEF ToSet
    <3>2. got[c][i].msg \in Int /\ got[c][i].msg <= sent /\ own[k].msg = sent + 1
      BY <1>3, <1>13, <1>14, <3>1
    <3>3. got[c][i].msg # own[k].msg
      BY <1>2, <3>2
    <3> QED
      BY <3>3
  <2>2. IsInjective(got[c]) /\ IsInjective(own)
    BY <1>1, <1>3 DEF OwnCopies, IInv, MessagesInv, GotOnce
  <2>3. IsInjective(got[c] \o own)
    BY <1>1, <1>3, <1>4, <2>1, <2>2, ConcatOnce
  <2> QED
    BY <1>5, <2>3 DEF GotOnce, IInv, MessagesInv
<1>20. NothingLost'
  <2> SUFFICES ASSUME NEW x \in Ids, NEW f \in due'[x]
               PROVE  f \in ToSet(got'[x]) \/ [id |-> x, frame |-> f] \in ToSet(outbox')
    BY DEF NothingLost
  <2>1. CASE f \in due[x]
    <3>1. f \in ToSet(got[x]) \/ [id |-> x, frame |-> f] \in ToSet(outbox)
      BY <2>1 DEF IInv, MessagesInv, NothingLost
    <3> QED
      BY <1>5, <1>9, <3>1
  <2>2. CASE f \notin due[x]
    <3>1. PICK s \in HeldTo(x, channel) : f = Copy(s, c) /\ ~(exec /\ x = c)
      BY <1>6, <2>2
    <3>2. CASE x = c
      <4>1. \E i \in DOMAIN own : own[i] = f
        BY <1>1, <3>1, <3>2 DEF OwnCopies
      <4>2. f \in ToSet(own)
        BY <4>1 DEF ToSet
      <4> QED
        BY <1>9, <3>2, <4>2
    <3>3. CASE x # c
      <4>1. \E i \in DOMAIN others : others[i] = CopyFor(x, s, c)
        BY <1>1, <3>1, <3>3 DEF OthersCopies
      <4>2. CopyFor(x, s, c) \in ToSet(others)
        BY <4>1 DEF ToSet
      <4> QED
        BY <1>9, <3>1, <4>2 DEF CopyFor
    <3> QED
      BY <3>2, <3>3
  <2> QED
    BY <2>1, <2>2
<1>21. OutboxDue'
  <2> SUFFICES ASSUME NEW d \in ToSet(outbox')
               PROVE  d.frame \in due'[d.id]
    BY DEF OutboxDue
  <2>1. CASE d \in ToSet(outbox)
    BY <1>6, <1>13, <2>1 DEF IInv, MessagesInv, OutboxDue
  <2>2. CASE d \in ToSet(others)
    BY <1>3, <1>6, <1>11, <2>2 DEF CopyFor
  <2> QED
    BY <1>9, <2>1, <2>2
<1>22. ExtraAlone'
  <2> SUFFICES ASSUME NEW x \in Ids, NEW f \in ToSet(got'[x]), f \notin due'[x]
               PROVE  f.by = x /\ \A g \in ToSet(got'[x]) : g.msg = f.msg => g = f
    BY DEF ExtraAlone
  <2>0. f \notin due[x]
    BY <1>6
  <2>1. CASE x # c
    BY <1>5, <2>0, <2>1 DEF IInv, MessagesInv, ExtraAlone
  <2>2. CASE x = c /\ f \in ToSet(got[c])
    <3>1. f.by = c /\ \A g \in ToSet(got[c]) : g.msg = f.msg => g = f
      BY <2>0, <2>2 DEF IInv, MessagesInv, ExtraAlone
    <3>2. f.msg \in Int /\ f.msg <= sent
      BY <1>3, <1>13, <2>2
    <3>3. \A g \in ToSet(own) : g.msg # f.msg
      BY <1>2, <1>14, <3>2
    <3> QED
      BY <1>9, <2>2, <3>1, <3>3
  <2>3. CASE x = c /\ f \in ToSet(own)
    <3>1. exec
      BY <1>6, <1>10, <2>3
    <3>2. \A g \in ToSet(own) : g = f
      BY <1>1, <2>3, <3>1 DEF OwnCopies, ToSet
    <3>3. f.by = c /\ f.msg = sent + 1
      BY <1>14, <2>3
    <3>4. \A g \in ToSet(got[c]) : g.msg # f.msg
      BY <1>2, <1>3, <1>13, <3>3
    <3> QED
      BY <1>9, <2>3, <3>2, <3>3, <3>4
  <2> QED
    BY <1>9, <2>1, <2>2, <2>3
<1>23. OutboxOrdered'
  <2> SUFFICES ASSUME NEW i \in DOMAIN outbox', NEW j \in DOMAIN outbox',
                      i < j, outbox'[i].id = outbox'[j].id
               PROVE  Follows(outbox'[i].frame, outbox'[j].frame)
    BY DEF OutboxOrdered
  <2>1. \A x \in DOMAIN outbox' :
          \/ x \in DOMAIN outbox /\ outbox'[x] = outbox[x] /\ outbox[x] \in ToSet(outbox)
          \/ \E k \in DOMAIN others : x = Len(outbox) + k /\ outbox'[x] = others[k]
                                    /\ others[k] \in ToSet(others)
    <3>1. \A x \in DOMAIN (outbox \o others) :
            \/ x \in DOMAIN outbox /\ (outbox \o others)[x] = outbox[x]
            \/ \E k \in DOMAIN others : x = Len(outbox) + k /\ (outbox \o others)[x] = others[k]
      BY <1>4, ConcatFacts
    <3> QED
      BY <1>1, <3>1 DEF ToSet
  <2>2. DOMAIN outbox = 1 .. Len(outbox) /\ Len(outbox) \in Nat
        /\ DOMAIN others = 1 .. Len(others) /\ Len(others) \in Nat
    BY <1>4
  <2>3. CASE j \in DOMAIN outbox /\ outbox'[j] = outbox[j]
    <3>1. i \in DOMAIN outbox /\ outbox'[i] = outbox[i]
      BY <2>1, <2>2, <2>3
    <3> QED
      BY <2>3, <3>1 DEF IInv, MessagesInv, OutboxOrdered
  <2>4. ASSUME NEW k \in DOMAIN others, j = Len(outbox) + k, outbox'[j] = others[k]
        PROVE  Follows(outbox'[i].frame, outbox'[j].frame)
    <3>1. others[k] \in ToSet(others) /\ others[k].frame.msg = sent + 1
      BY <1>14 DEF ToSet
    <3>2. CASE i \in DOMAIN outbox /\ outbox'[i] = outbox[i]
      <4>1. outbox[i].frame.msg \in Int /\ outbox[i].frame.msg <= sent
        BY <1>13, <3>2 DEF ToSet
      <4>2. outbox[i].frame.msg < sent + 1
        BY <1>2, <4>1
      <4> QED
        BY <2>4, <3>1, <3>2, <4>2 DEF Follows
    <3>3. ASSUME NEW l \in DOMAIN others, i = Len(outbox) + l, outbox'[i] = others[l]
          PROVE  Follows(outbox'[i].frame, outbox'[j].frame)
      <4>1. l < k
        BY <2>2, <2>4, <3>3
      <4>2. others[k].frame.via \in Patterns
        BY <1>1, <2>4, <3>3, <4>1 DEF OthersCopies
      <4>3. others[l].frame.msg = sent + 1
        BY <1>14 DEF ToSet
      <4> QED
        BY <2>4, <3>1, <3>3, <4>2, <4>3 DEF Follows
    <3> QED
      BY <2>1, <3>2, <3>3
  <2> QED
    BY <2>1, <2>3, <2>4
<1>24. GotOrdered'
  <2> SUFFICES ASSUME NEW x \in Ids, NEW i \in DOMAIN got'[x], NEW j \in DOMAIN got'[x],
                      i < j, got'[x][i].by = got'[x][j].by
               PROVE  Follows(got'[x][i], got'[x][j])
    BY DEF GotOrdered
  <2>1. CASE x # c
    BY <1>5, <2>1 DEF IInv, MessagesInv, GotOrdered
  <2>2. CASE x = c
    <3>1. \A y \in DOMAIN got'[c] :
            \/ y \in DOMAIN got[c] /\ got'[c][y] = got[c][y] /\ got[c][y] \in ToSet(got[c])
            \/ \E k \in DOMAIN own : y = Len(got[c]) + k /\ got'[c][y] = own[k]
                                   /\ own[k] \in ToSet(own)
      <4>1. \A y \in DOMAIN (got[c] \o own) :
              \/ y \in DOMAIN got[c] /\ (got[c] \o own)[y] = got[c][y]
              \/ \E k \in DOMAIN own : y = Len(got[c]) + k /\ (got[c] \o own)[y] = own[k]
        BY <1>3, <1>4, ConcatFacts
      <4> QED
        BY <1>5, <4>1 DEF ToSet
    <3>2. DOMAIN got[c] = 1 .. Len(got[c]) /\ Len(got[c]) \in Nat
          /\ DOMAIN own = 1 .. Len(own) /\ Len(own) \in Nat
      BY <1>3, <1>4
    <3>3. CASE j \in DOMAIN got[c] /\ got'[c][j] = got[c][j]
      <4>1. i \in DOMAIN got[c] /\ got'[c][i] = got[c][i]
        BY <2>2, <3>1, <3>2, <3>3
      <4> QED
        BY <2>2, <3>3, <4>1 DEF IInv, MessagesInv, GotOrdered
    <3>4. ASSUME NEW k \in DOMAIN own, j = Len(got[c]) + k, got'[c][j] = own[k]
          PROVE  Follows(got'[c][i], got'[c][j])
      <4>1. own[k] \in ToSet(own) /\ own[k].msg = sent + 1
        BY <1>14 DEF ToSet
      <4>2. CASE i \in DOMAIN got[c] /\ got'[c][i] = got[c][i]
        <5>1. got[c][i].msg \in Int /\ got[c][i].msg <= sent
          BY <1>3, <1>13, <4>2 DEF ToSet
        <5>2. got[c][i].msg < sent + 1
          BY <1>2, <5>1
        <5> QED
          BY <3>4, <4>1, <4>2, <5>2 DEF Follows
      <4>3. ASSUME NEW l \in DOMAIN own, i = Len(got[c]) + l, got'[c][i] = own[l]
            PROVE  Follows(got'[c][i], got'[c][j])
        <5>1. l < k
          BY <3>2, <3>4, <4>3
        <5>2. own[k].via \in Patterns
          BY <1>1, <5>1 DEF OwnCopies
        <5>3. own[l].msg = sent + 1
          BY <1>14 DEF ToSet
        <5> QED
          BY <3>4, <4>1, <4>3, <5>2, <5>3 DEF Follows
      <4> QED
        BY <2>2, <3>1, <4>2, <4>3
    <3> QED
      BY <2>2, <3>1, <3>3, <3>4
  <2> QED
    BY <2>1, <2>2
<1>25. Awaited'
  BY <1>2, <1>16 DEF OwnInline, Awaited
<1> QED
  BY <1>15, <1>16, <1>17, <1>18, <1>19, <1>20, <1>21, <1>22, <1>23, <1>24, <1>25
     DEF IInv, MessagesInv

\* deliver_outbox begins: nothing moves yet.
LEMMA EndCommandsInv ==
  ASSUME IInv, EndCommands
  PROVE  IInv'
<1>1. /\ phase = "commands" /\ phase' = IF outbox = <<>> THEN "close" ELSE "deliver"
      /\ UNCHANGED <<nextId, conns, closing, held, registry, left, outbox, sent, due, got>>
  BY DEF EndCommands, connection, messages
<1>2. RegistryInv'
  BY <1>1 DEF IInv, RegistryInv, TypeOK, GoneHoldsNothing, RegistryAgrees, LateInThePassOnly
<1>3. OwnInline' /\ Numbered' /\ Awaited'
  BY <1>1 DEF IInv, MessagesInv, OwnInline, Numbered, Awaited
<1>4. OutboxOnce' /\ GotOnce' /\ NothingLost' /\ OutboxDue' /\ ExtraAlone'
  BY <1>1 DEF IInv, MessagesInv, OutboxOnce, GotOnce, NothingLost, OutboxDue, ExtraAlone
<1>5. OutboxOrdered' /\ GotOrdered'
  BY <1>1 DEF IInv, MessagesInv, OutboxOrdered, GotOrdered
<1> QED
  BY <1>2, <1>3, <1>4, <1>5 DEF IInv, MessagesInv

\* deliver_outbox, frame by frame: what is first in the outbox follows what its
\* addressee has got, and is none of it.
LEMMA DeliverInv ==
  ASSUME IInv, Deliver
  PROVE  IInv'
<1> DEFINE d == Head(outbox)
           c == d.id
<1>1. /\ phase = "deliver" /\ outbox' = Tail(outbox)
      /\ phase' = IF outbox' = <<>> THEN "close" ELSE "deliver"
      /\ got' = IF c \in conns THEN [got EXCEPT ![c] = Append(@, d.frame)] ELSE got
      /\ UNCHANGED <<nextId, conns, closing, held, registry, left, sent, due>>
  BY DEF Deliver, connection
<1>2. /\ outbox \in Seq(Delivery) /\ outbox # <<>>
      /\ got \in [Ids -> Seq(Frame)] /\ conns \subseteq Ids
  BY <1>1, ConnsAreIds DEF IInv, RegistryInv, TypeOK, MessagesInv, OwnInline
<1>3. /\ d \in Delivery /\ outbox' \in Seq(Delivery)
      /\ 1 \in DOMAIN outbox /\ d = outbox[1]
      /\ \A i \in DOMAIN outbox' : i + 1 \in DOMAIN outbox /\ outbox'[i] = outbox[i + 1]
      /\ ToSet(outbox) = {d} \cup ToSet(outbox')
  BY <1>1, <1>2, TailFacts, ToSetTail
<1>4. c \in conns /\ c \in Ids /\ d.frame \in Frame
  BY <1>2, <1>3 DEF IInv, RegistryInv, LateInThePassOnly, Delivery
<1> HIDE DEF d
<1>5. /\ got' = [got EXCEPT ![c] = Append(@, d.frame)] /\ got[c] \in Seq(Frame)
      /\ got'[c] = Append(got[c], d.frame)
      /\ \A x \in Ids \ {c} : got'[x] = got[x]
  BY <1>1, <1>2, <1>4
<1>6. /\ got'[c] \in Seq(Frame)
      /\ DOMAIN got'[c] = DOMAIN got[c] \cup {Len(got[c]) + 1}
      /\ \A i \in DOMAIN got[c] : i < Len(got[c]) + 1 /\ got'[c][i] = got[c][i]
      /\ got'[c][Len(got[c]) + 1] = d.frame
      /\ ToSet(got'[c]) = ToSet(got[c]) \cup {d.frame}
  BY <1>4, <1>5, AppendFacts
<1>7. Len(got[c]) \in Nat /\ DOMAIN got[c] = 1 .. Len(got[c]) /\ DOMAIN outbox = 1 .. Len(outbox)
      /\ Len(outbox) \in Nat
  BY <1>2, <1>5
<1>8. \A i \in DOMAIN got[c] : got[c][i] \in ToSet(got[c])
  BY DEF ToSet
<1>9. RegistryInv'
  <2>1. got' \in [Ids -> Seq(Frame)]
    BY <1>2, <1>4, <1>5, <1>6
  <2>2. TypeOK'
    BY <1>1, <1>3, <2>1 DEF IInv, RegistryInv, TypeOK
  <2>3. LateInThePassOnly'
    BY <1>1, <1>3 DEF IInv, RegistryInv, LateInThePassOnly
  <2> QED
    BY <1>1, <2>2, <2>3 DEF IInv, RegistryInv, GoneHoldsNothing, RegistryAgrees
<1>10. OwnInline'
  BY <1>1, <1>3 DEF IInv, MessagesInv, OwnInline
<1>11. d.frame.msg <= sent /\ d.frame.by # c /\ d.frame \in due[c]
  BY <1>3 DEF IInv, MessagesInv, Numbered, OwnInline, OutboxDue
<1>12. \A e \in ToSet(outbox') : e.id = c => d.frame # e.frame /\ Follows(d.frame, e.frame)
  <2> SUFFICES ASSUME NEW e \in ToSet(outbox'), e.id = c
               PROVE  d.frame # e.frame /\ Follows(d.frame, e.frame)
    OBVIOUS
  <2>1. PICK i \in DOMAIN outbox' : e = outbox'[i]
    BY DEF ToSet
  <2>2. i + 1 \in DOMAIN outbox /\ outbox[i + 1] = e /\ i \in Nat /\ i # 0
    BY <1>3, <2>1
  <2>3. Follows(d.frame, e.frame)
    BY <1>3, <2>2 DEF IInv, MessagesInv, OutboxOrdered
  <2>4. d # e
    BY <1>3, <2>2 DEF IInv, MessagesInv, OutboxOnce, IsInjective
  <2>5. e \in Delivery
    BY <1>2, <2>2
  <2>6. d = [id |-> d.id, frame |-> d.frame] /\ e = [id |-> e.id, frame |-> e.frame]
    BY <1>3, <2>5 DEF Delivery
  <2> QED
    BY <2>3, <2>4, <2>6
<1>13. Numbered'
  <2>1. \A x \in Ids : \A f \in ToSet(got'[x]) : f \in ToSet(got[x]) \/ (x = c /\ f = d.frame)
    BY <1>5, <1>6
  <2>2. \A e \in ToSet(outbox') : d.frame.msg = e.frame.msg => d.frame.by = e.frame.by
    BY <1>3 DEF IInv, MessagesInv, Numbered
  <2>3. ToSet(outbox') \subseteq ToSet(outbox) /\ sent' = sent
    BY <1>1, <1>3
  <2>4. \A x \in Ids : \A f \in ToSet(got'[x]) : f.msg <= sent
    BY <1>11, <2>1 DEF IInv, MessagesInv, Numbered
  <2>5. \A x \in Ids : \A f \in ToSet(got'[x]), e \in ToSet(outbox') :
          f.msg = e.frame.msg => f.by = e.frame.by
    BY <2>1, <2>2, <2>3 DEF IInv, MessagesInv, Numbered
  <2>6. /\ \A e \in ToSet(outbox') : e.frame.msg <= sent
        /\ \A e, f \in ToSet(outbox') : e.frame.msg = f.frame.msg => e.frame.by = f.frame.by
    BY <2>3 DEF IInv, MessagesInv, Numbered
  <2> QED
    BY <2>3, <2>4, <2>5, <2>6 DEF Numbered
<1>14. Awaited'
  <2> SUFFICES ASSUME NEW x \in Ids, NEW f \in ToSet(got'[x]), NEW e \in ToSet(outbox'), e.id = x
               PROVE  f # e.frame /\ (f.by = e.frame.by => Follows(f, e.frame))
    BY DEF Awaited
  <2>1. e \in ToSet(outbox)
    BY <1>3
  <2>2. CASE f \in ToSet(got[x])
    BY <2>1, <2>2 DEF IInv, MessagesInv, Awaited
  <2>3. CASE f \notin ToSet(got[x])
    <3>1. x = c /\ f = d.frame
      BY <1>5, <1>6, <2>3
    <3> QED
      BY <1>12, <3>1
  <2> QED
    BY <2>2, <2>3
<1>15. OutboxOnce' /\ OutboxOrdered'
  <2>1. \A i \in DOMAIN outbox' : i \in Nat
    BY <1>3
  <2>2. OutboxOnce'
    <3>1. ASSUME NEW i \in DOMAIN outbox', NEW j \in DOMAIN outbox', outbox'[i] = outbox'[j]
          PROVE  i = j
      <4>1. i + 1 \in DOMAIN outbox /\ outbox'[i] = outbox[i + 1]
        BY <1>3
      <4>2. j + 1 \in DOMAIN outbox /\ outbox'[j] = outbox[j + 1]
        BY <1>3
      <4>3. i + 1 = j + 1
        BY <3>1, <4>1, <4>2 DEF IInv, MessagesInv, OutboxOnce, IsInjective
      <4> QED
        BY <2>1, <4>3
    <3> QED
      BY <3>1 DEF OutboxOnce, IsInjective
  <2>3. ASSUME NEW i \in DOMAIN outbox', NEW j \in DOMAIN outbox', i < j,
               outbox'[i].id = outbox'[j].id
        PROVE  Follows(outbox'[i].frame, outbox'[j].frame)
    <3>1. i + 1 \in DOMAIN outbox /\ outbox'[i] = outbox[i + 1]
      BY <1>3
    <3>2. j + 1 \in DOMAIN outbox /\ outbox'[j] = outbox[j + 1]
      BY <1>3
    <3>3. i + 1 < j + 1
      BY <2>1, <2>3
    <3> QED
      BY <2>3, <3>1, <3>2, <3>3 DEF IInv, MessagesInv, OutboxOrdered
  <2>4. OutboxOrdered'
    BY <2>3 DEF OutboxOrdered
  <2> QED
    BY <2>2, <2>4
<1>16. GotOnce'
  <2>1. \A i \in DOMAIN got[c] : got[c][i] # d.frame
    BY <1>3, <1>4, <1>8 DEF IInv, MessagesInv, Awaited
  <2>2. IsInjective(got'[c])
    BY <1>4, <1>6, <2>1 DEF IInv, MessagesInv, GotOnce, IsInjective
  <2> QED
    BY <1>5, <2>2 DEF IInv, MessagesInv, GotOnce
<1>17. NothingLost'
  <2> SUFFICES ASSUME NEW x \in Ids, NEW f \in due[x]
               PROVE  f \in ToSet(got'[x]) \/ [id |-> x, frame |-> f] \in ToSet(outbox')
    BY <1>1 DEF NothingLost
  <2>1. f \in ToSet(got[x]) \/ [id |-> x, frame |-> f] \in ToSet(outbox)
    BY DEF IInv, MessagesInv, NothingLost
  <2>2. [id |-> x, frame |-> f] = d => x = c /\ f = d.frame
    OBVIOUS
  <2> QED
    BY <1>3, <1>5, <1>6, <2>1, <2>2
<1>18. OutboxDue'
  BY <1>1, <1>3 DEF IInv, MessagesInv, OutboxDue
<1>19. ExtraAlone'
  <2> SUFFICES ASSUME NEW x \in Ids, NEW f \in ToSet(got'[x]), f \notin due[x]
               PROVE  f.by = x /\ \A g \in ToSet(got'[x]) : g.msg = f.msg => g = f
    BY <1>1 DEF ExtraAlone
  <2>1. f \in ToSet(got[x])
    BY <1>5, <1>6, <1>11
  <2>2. f.by = x /\ \A g \in ToSet(got[x]) : g.msg = f.msg => g = f
    BY <2>1 DEF IInv, MessagesInv, ExtraAlone
  <2>3. x = c => f.msg # d.frame.msg
    BY <1>3, <1>11, <2>1, <2>2 DEF IInv, MessagesInv, Numbered
  <2> QED
    BY <1>5, <1>6, <2>2, <2>3
<1>20. GotOrdered'
  <2> SUFFICES ASSUME NEW x \in Ids, NEW i \in DOMAIN got'[x], NEW j \in DOMAIN got'[x],
                      i < j, got'[x][i].by = got'[x][j].by
               PROVE  Follows(got'[x][i], got'[x][j])
    BY DEF GotOrdered
  <2>1. CASE x # c
    BY <1>5, <2>1 DEF IInv, MessagesInv, GotOrdered
  <2>2. CASE x = c /\ j \in DOMAIN got[c]
    <3>1. i \in DOMAIN got[c]
      BY <1>6, <1>7, <2>2
    <3> QED
      BY <1>4, <1>6, <2>2, <3>1 DEF IInv, MessagesInv, GotOrdered
  <2>3. CASE x = c /\ j = Len(got[c]) + 1
    <3>1. i \in DOMAIN got[c] /\ got'[c][i] = got[c][i] /\ got'[c][j] = d.frame
      BY <1>6, <1>7, <2>3
    <3>2. got[c][i] \in ToSet(got[c]) /\ got[c][i].by = d.frame.by
      BY <1>8, <2>3, <3>1
    <3> QED
      BY <1>3, <1>4, <2>3, <3>1, <3>2 DEF IInv, MessagesInv, Awaited
  <2> QED
    BY <1>6, <2>1, <2>2, <2>3
<1> QED
  BY <1>9, <1>10, <1>13, <1>14, <1>15, <1>16, <1>17, <1>18, <1>19, <1>20 DEF IInv, MessagesInv

\* forget_client, and the next pass starts afresh.
LEMMA ClosePassInv ==
  ASSUME IInv, NEW gone \in SUBSET closing, ClosePass(gone)
  PROVE  IInv'
<1>1. /\ outbox = <<>> /\ outbox' = <<>> /\ phase' = "commands" /\ nextId' = nextId
      /\ conns' = conns \ gone /\ closing' = closing \ gone /\ sent' = 0
  BY DEF ClosePass, IInv, MessagesInv, OwnInline
<1>2. \A x \in Ids : held'[x] = IF x \in gone THEN {} ELSE held[x]
  BY DEF ClosePass
<1>3. \A x \in Ids : due'[x] = {} /\ got'[x] = <<>> /\ left'[x] = {}
  BY DEF ClosePass
<1>4. conns \subseteq Ids
  BY ConnsAreIds DEF IInv, RegistryInv
<1>5. /\ Registered(registry')
      /\ \A s \in Subscriptions : Subscribers(registry', s) = Subscribers(registry, s) \ gone
  <2>1. Registered(registry)
    BY DEF IInv, RegistryInv, TypeOK, Registered
  <2>2. registry' = DropClients(registry, gone)
    BY DEF ClosePass
  <2> QED
    BY <2>1, <2>2, DropClientsFacts
<1>6. TypeOK'
  <2>1. /\ <<>> \in Seq(Delivery) /\ <<>> \in Seq(Frame)
        /\ sent' \in 0 .. MaxPublished
    BY <1>1, BoundsAssumption
  <2>2. /\ held' \in [Ids -> SUBSET Subscriptions] /\ left' \in [Ids -> SUBSET Subscriptions]
        /\ due' \in [Ids -> SUBSET Frame] /\ got' \in [Ids -> Seq(Frame)]
    BY <2>1 DEF ClosePass, IInv, RegistryInv, TypeOK
  <2> QED
    BY <1>1, <1>5, <2>1, <2>2 DEF IInv, RegistryInv, TypeOK, Registered
<1>7. GoneHoldsNothing'
  BY <1>1, <1>2 DEF IInv, RegistryInv, GoneHoldsNothing
<1>8. RegistryAgrees'
  BY <1>1, <1>2, <1>4, <1>5 DEF IInv, RegistryInv, RegistryAgrees
<1>9. DOMAIN outbox' = {} /\ \A x \in Ids : DOMAIN got'[x] = {}
  BY <1>1, <1>3
<1>10. ToSet(outbox') = {} /\ \A x \in Ids : ToSet(got'[x]) = {}
  BY <1>9 DEF ToSet
<1>11. LateInThePassOnly'
  BY <1>9 DEF LateInThePassOnly
<1>12. OwnInline' /\ Numbered' /\ Awaited' /\ NothingLost' /\ OutboxDue' /\ ExtraAlone'
  BY <1>1, <1>3, <1>10 DEF OwnInline, Numbered, Awaited, NothingLost, OutboxDue, ExtraAlone
<1>13. OutboxOnce' /\ GotOnce' /\ OutboxOrdered' /\ GotOrdered'
  BY <1>9 DEF OutboxOnce, GotOnce, OutboxOrdered, GotOrdered, IsInjective
<1> QED
  BY <1>6, <1>7, <1>8, <1>11, <1>12, <1>13 DEF IInv, RegistryInv, MessagesInv

LEMMA StepInv == IInv /\ [Next]_vars => IInv'
<1> SUFFICES ASSUME IInv, [Next]_vars
             PROVE  IInv'
  OBVIOUS
<1>1. CASE Connect
  BY <1>1, ConnectInv
<1>2. ASSUME NEW c \in conns, NEW kind \in {Channels, Patterns},
             NEW names \in (SUBSET kind) \ {{}}, Subscribe(c, names)
      PROVE  IInv'
  <2>1. names \in SUBSET Subscriptions
    BY DEF Subscriptions
  <2> QED
    BY <1>2, <2>1, SubscribeInv
<1>3. ASSUME NEW c \in conns, NEW kind \in {Channels, Patterns}, NEW names \in SUBSET kind,
             Unsubscribe(c, kind, names)
      PROVE  IInv'
  <2> DEFINE S == IF names = {} THEN kind ELSE names
  <2>1. S \in SUBSET Subscriptions
    BY DEF Subscriptions
  <2>2. GiveUp(c, S)
    BY <1>3 DEF Unsubscribe
  <2> HIDE DEF S
  <2> QED
    BY <2>1, <2>2, GiveUpInv
<1>4. ASSUME NEW c \in conns, Reset(c)
      PROVE  IInv'
  <2>1. GiveUp(c, Subscriptions)
    BY <1>4 DEF Reset
  <2> QED
    BY <2>1, GiveUpInv
<1>5. ASSUME NEW c \in conns, NEW channel \in Channels, NEW exec \in BOOLEAN,
             Publish(c, channel, exec)
      PROVE  IInv'
  BY <1>5, PublishInv
<1>6. ASSUME NEW c \in conns, HangUp(c)
      PROVE  IInv'
  BY <1>6, HangUpInv
<1>7. CASE EndCommands \/ Deliver
  BY <1>7, EndCommandsInv, DeliverInv
<1>8. ASSUME NEW gone \in SUBSET closing, ClosePass(gone)
      PROVE  IInv'
  BY <1>8, ClosePassInv
<1>9. CASE UNCHANGED vars
  <2>1. MessagesInv'
    BY <1>9, MessagesKept DEF IInv, vars
  <2> QED
    BY <1>9, <2>1 DEF IInv, RegistryInv, vars, connection, messages, TypeOK, GoneHoldsNothing,
                      RegistryAgrees, LateInThePassOnly
<1> QED
  BY <1>1, <1>2, <1>3, <1>4, <1>5, <1>6, <1>7, <1>8, <1>9 DEF Next

-----------------------------------------------------------------------------
\* The inductive invariant, for any channels, patterns and connections.
THEOREM Invariance == Spec => []IInv
BY InitInv, StepInv, PTL DEF Spec

\* Registry, connections and messages are well formed, and the registry has
\* no empty entry (unsubscribe and drop_client in pubsub.rs).
THEOREM TypeCorrect == Spec => []TypeOK
<1>1. IInv => TypeOK
  BY DEF IInv, RegistryInv
<1> QED
  BY <1>1, Invariance, PTL

\* The registry of the App and the sets of the connections never drift apart
\* (subscribe, unsubscribe, reset, forget_client).
THEOREM RegistryAgreesCorrect == Spec => []RegistryAgrees
<1>1. IInv => RegistryAgrees
  BY DEF IInv, RegistryInv
<1> QED
  BY <1>1, Invariance, PTL

\* What is in the outbox is for a connection that is there, on a subscription
\* it holds or gave up in this pass (deliver_outbox in server.rs).
THEOREM LateInThePassOnlyCorrect == Spec => []LateInThePassOnly
<1>1. IInv => LateInThePassOnly
  BY DEF IInv, RegistryInv
<1> QED
  BY <1>1, Invariance, PTL

\* Every message comes once on each subscription held to it, and on no other,
\* but for the copy EXEC lets through (publish in commands/pubsub.rs).
THEOREM OncePerSubscriptionCorrect == Spec => []OncePerSubscription
<1>1. ASSUME IInv, phase = "close", NEW c \in conns
      PROVE  /\ IsInjective(got[c])
             /\ due[c] \subseteq ToSet(got[c])
             /\ \A f \in ToSet(got[c]) \ due[c] :
                  f.by = c /\ \A g \in ToSet(got[c]) : g.msg = f.msg => g = f
  <2>1. c \in Ids
    BY <1>1, ConnsAreIds DEF IInv, RegistryInv
  <2>2. ToSet(outbox) = {}
    BY <1>1 DEF IInv, MessagesInv, OwnInline, ToSet
  <2> QED
    BY <1>1, <2>1, <2>2 DEF IInv, MessagesInv, GotOnce, NothingLost, ExtraAlone
<1>2. IInv => OncePerSubscription
  BY <1>1 DEF OncePerSubscription
<1> QED
  BY <1>2, Invariance, PTL

\* Messages of one publisher come in the order they were published, the copy
\* for the channel first (PubSub::publish, deliver_outbox).
THEOREM InOrderCorrect == Spec => []InOrder
<1>1. IInv => InOrder
  BY ConnsAreIds DEF IInv, RegistryInv, MessagesInv, GotOrdered, Follows, InOrder
<1> QED
  BY <1>1, Invariance, PTL

=============================================================================
