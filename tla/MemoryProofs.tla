---------------------------- MODULE MemoryProofs ----------------------------
(***************************************************************************)
(* A memory index, for every set of texts, vectors and requests.  First    *)
(* the two indexes by themselves, each over the tokens or the slots it is  *)
(* to agree with; then the invariant, in which those tokens and slots are  *)
(* read off the records and the history, and one lemma per action.         *)
(***************************************************************************)
EXTENDS Memory, TLAPS, FiniteSetTheorems, SequenceTheorems

\* The keyword index x is that of documents with the tokens toks: each length
\* is kept, the total counts their words, and a posting is there once for
\* each term of a document, but for the ids that left postings behind, for
\* which it is there at least.
TextFits(x, toks, left) ==
  /\ x.postings \in [Terms -> [Ids -> Nat]]
  /\ DOMAIN toks \subseteq Ids
  /\ DOMAIN x.docLen = DOMAIN toks
  /\ \A i \in DOMAIN toks : toks[i] \in Seq(Terms) /\ x.docLen[i] = Len(toks[i])
  /\ IsFiniteSet(Words(x.docLen)) /\ x.totalLen = Cardinality(Words(x.docLen))
  /\ \A i \in DOMAIN toks : \A t \in Range(toks[i]) : x.postings[t][i] # 0
  /\ \A i \in Ids \ left : \A t \in Terms :
       x.postings[t][i] = IF i \in DOMAIN toks /\ t \in Range(toks[i]) THEN 1 ELSE 0

\* The ids that have a slot.
Owners(slots) == {i \in DOMAIN slots : slots[i] # 0}

\* The vector array x is shared out as the slots say, and holds what they were
\* given: no slot has two owners, each is owned or free and not both, and the
\* counter is that of the owners.
VectorsFit(x, slots, given) ==
  /\ x.data \in Seq(Vectors \cup {Zero}) /\ x.free \in Seq(DOMAIN x.data)
  /\ IsInjective(x.free)
  /\ DOMAIN slots \subseteq Ids
  /\ \A i, j \in Owners(slots) : slots[i] = slots[j] => i = j
  /\ \A i \in Owners(slots) :
       /\ slots[i] \in DOMAIN x.data /\ slots[i] \notin Range(x.free)
       /\ x.data[slots[i]] = given[i]
  /\ \A n \in DOMAIN x.data : n \in Range(x.free) \/ \E i \in Owners(slots) : slots[i] = n
  /\ \A i \in DOMAIN slots : slots[i] \in Nat /\ (slots[i] = 0 <=> given[i] = None)
  /\ x.live = Cardinality(Owners(slots))

\* What the records were indexed under, and their slots.
Toks(records, under) == [i \in DOMAIN records |-> Tokenize(records[i].text, under[i])]
Slots(records) == [i \in DOMAIN records |-> records[i].slot]

\* What is in the slots of the records, by the observer: the vector each was
\* given, or the one it inherited.
Holding(given, left) ==
  [i \in DOMAIN given |-> IF i \in DOMAIN left THEN left[i] ELSE given[i]]
Held == Holding(embedded, inherited)

\* The limits and the vectors the observer remembers, and the records still to
\* be loaded, are ones a client gave; what is still to be loaded was given the
\* vector the observer remembers.
HistoryInv ==
  /\ \A i \in DOMAIN indexedUnder : indexedUnder[i] \in Nat \ {0}
  /\ \A i \in DOMAIN embedded :
       /\ Held[i] \in Vectors \cup {None}
       /\ ~StoresVectors(mem) => Held[i] = None
  /\ \A i \in DOMAIN dump :
       /\ dump[i].text \in Texts /\ dump[i].expireAt \in Nat \cup {Never}
       /\ dump[i].vector = Held[i]

\* An id the server has still to come to is in use only if a client chose it.
NamesInv == \A i \in DOMAIN embedded : i \in mem.nextId .. MaxAssigned => i \in named

TextInv == IndexesText(mem) => TextFits(mem.text, Toks(mem.records, indexedUnder), stale)

VectorInv == VectorsFit(mem.vectors, Slots(mem.records), Held)

IInv == TypeOK /\ HistoryInv /\ NamesInv /\ TextInv /\ VectorInv

-----------------------------------------------------------------------------
(***************************************************************************)
(* Functions and tokens.                                                   *)
(***************************************************************************)

\* A text is a sequence of terms.
LEMMA TextFacts ==
  ASSUME NEW text \in Texts
  PROVE  text \in Seq(Terms) /\ Len(text) \in Nat /\ Range(text) \subseteq Terms
<1>1. Range(text) \subseteq Terms
  BY DEF Terms
<1>2. text \in Seq(Range(text))
  BY TextsAssumption
<1>3. Len(text) \in Nat /\ DOMAIN text = 1 .. Len(text)
  BY <1>2
<1>4. \A n \in 1 .. Len(text) : text[n] \in Terms
  BY <1>1, <1>3 DEF Range
<1> QED
  BY <1>1, <1>2, <1>3, <1>4

\* The tokenizer keeps a beginning of the text, no longer than the limit.
LEMMA TokenizeFacts ==
  ASSUME NEW text \in Texts, NEW max \in Nat
  PROVE  /\ Tokenize(text, max) \in Seq(Terms)
         /\ Len(Tokenize(text, max)) \in Nat
         /\ Range(Tokenize(text, max)) \subseteq Range(text)
<1>1. text \in Seq(Terms) /\ Len(text) \in Nat /\ DOMAIN text = 1 .. Len(text)
  BY TextFacts
<1> DEFINE n == IF Len(text) < max THEN Len(text) ELSE max
<1>2. n \in Nat /\ n <= Len(text)
  BY <1>1
<1> HIDE DEF n
<1>3. \A k \in 1 .. n : k \in DOMAIN text /\ text[k] \in Terms
  BY <1>1, <1>2
<1>4. /\ SubSeq(text, 1, n) \in Seq(Terms)
      /\ Len(SubSeq(text, 1, n)) = IF 1 <= n THEN n - 1 + 1 ELSE 0
      /\ \A k \in 1 .. n - 1 + 1 : SubSeq(text, 1, n)[k] = text[1 + k - 1]
  BY <1>2, <1>3, SubSeqProperties
<1>5. /\ Len(SubSeq(text, 1, n)) = n
      /\ DOMAIN SubSeq(text, 1, n) = 1 .. n
      /\ \A k \in 1 .. n : SubSeq(text, 1, n)[k] = text[k]
  BY <1>2, <1>4
<1>6. Range(SubSeq(text, 1, n)) \subseteq Range(text)
  BY <1>3, <1>5 DEF Range
<1> QED
  BY <1>2, <1>4, <1>5, <1>6 DEF Tokenize, n

\* A query of one term stays it under every limit.
LEMMA TokenizeTerm ==
  ASSUME NEW t, NEW max \in Nat \ {0}
  PROVE  Range(Tokenize(<<t>>, max)) = {t}
<1>1. Len(<<t>>) = 1
  OBVIOUS
<1>2. (IF Len(<<t>>) < max THEN Len(<<t>>) ELSE max) = 1
  BY <1>1
<1>3. Tokenize(<<t>>, max) = SubSeq(<<t>>, 1, 1)
  BY <1>2 DEF Tokenize
<1>4. \A k \in 1 .. 1 : <<t>>[k] \in {t}
  OBVIOUS
<1>5. /\ SubSeq(<<t>>, 1, 1) \in Seq({t})
      /\ Len(SubSeq(<<t>>, 1, 1)) = 1
  BY <1>4, SubSeqProperties
<1>6. DOMAIN SubSeq(<<t>>, 1, 1) = {1} /\ SubSeq(<<t>>, 1, 1)[1] = t
  BY <1>5
<1> QED
  BY <1>3, <1>6 DEF Range

\* The words of one document are as many as its length says.
LEMMA WordsOfOne ==
  ASSUME NEW i, NEW n \in Nat
  PROVE  IsFiniteSet({i} \X (1 .. n)) /\ Cardinality({i} \X (1 .. n)) = n
<1>1. IsFiniteSet({i}) /\ Cardinality({i}) = 1
  BY FS_Singleton
<1>2. IsFiniteSet(1 .. n) /\ Cardinality(1 .. n) = n
  BY FS_Interval
<1>3. Cardinality({i} \X (1 .. n)) = Cardinality({i}) * Cardinality(1 .. n)
  BY <1>1, <1>2, FS_Product
<1> QED
  BY <1>1, <1>2, <1>3, FS_Product

\* A word is told by its document and its place in it.
LEMMA WordsMember ==
  ASSUME NEW docLen
  PROVE  \A w : w \in Words(docLen) <=> \E i \in DOMAIN docLen : \E k \in 1 .. docLen[i] : w = <<i, k>>
<1> SUFFICES ASSUME NEW w
             PROVE  w \in Words(docLen)
                    <=> \E i \in DOMAIN docLen : \E k \in 1 .. docLen[i] : w = <<i, k>>
  OBVIOUS
<1>1. w \in Words(docLen) <=> \E i \in DOMAIN docLen : w \in {i} \X (1 .. docLen[i])
  BY DEF Words
<1>2. ASSUME NEW i
      PROVE  w \in {i} \X (1 .. docLen[i]) <=> \E k \in 1 .. docLen[i] : w = <<i, k>>
  OBVIOUS
<1> QED
  BY <1>1, <1>2

\* A new document adds its words,
LEMMA WordsBind ==
  ASSUME NEW docLen, NEW i, i \notin DOMAIN docLen, NEW n \in Nat,
         IsFiniteSet(Words(docLen))
  PROVE  /\ IsFiniteSet(Words(Bind(docLen, i, n)))
         /\ Cardinality(Words(Bind(docLen, i, n))) = Cardinality(Words(docLen)) + n
<1> DEFINE new == {i} \X (1 .. n)
<1>1. Words(Bind(docLen, i, n)) = Words(docLen) \cup new
  <2>1. PICK g : g = Bind(docLen, i, n)
    OBVIOUS
  <2>2. /\ DOMAIN g = DOMAIN docLen \cup {i} /\ g[i] = n
        /\ \A j \in DOMAIN docLen : g[j] = docLen[j]
    BY <2>1 DEF Bind
  <2>3. \A w : w \in Words(g) <=> \E j \in DOMAIN g : \E k \in 1 .. g[j] : w = <<j, k>>
    BY WordsMember
  <2>4. \A w : w \in Words(docLen)
                <=> \E j \in DOMAIN docLen : \E k \in 1 .. docLen[j] : w = <<j, k>>
    BY WordsMember
  <2>5. \A w : w \in new <=> \E k \in 1 .. n : w = <<i, k>>
    OBVIOUS
  <2> HIDE DEF new
  <2>6. \A w : w \in Words(g) <=> w \in Words(docLen) \/ w \in new
    BY <2>2, <2>3, <2>4, <2>5
  <2> QED
    BY <2>1, <2>6
<1>2. Words(docLen) \cap new = {}
  BY DEF Words
<1>3. IsFiniteSet(new) /\ Cardinality(new) = n
  BY WordsOfOne
<1>4. Cardinality(Words(docLen)) \in Nat
  BY FS_CardinalityType
<1> HIDE DEF new
<1>5. /\ IsFiniteSet(Words(docLen) \cup new)
      /\ Cardinality(Words(docLen) \cup new)
           = Cardinality(Words(docLen)) + Cardinality(new) - Cardinality(Words(docLen) \cap new)
  BY <1>3, FS_Union
<1> QED
  BY <1>1, <1>2, <1>3, <1>4, <1>5, FS_EmptySet

\* and takes them with it.
LEMMA WordsWithout ==
  ASSUME NEW docLen, NEW i \in DOMAIN docLen, docLen[i] \in Nat,
         IsFiniteSet(Words(docLen))
  PROVE  /\ IsFiniteSet(Words(Without(docLen, i)))
         /\ Cardinality(Words(Without(docLen, i))) = Cardinality(Words(docLen)) - docLen[i]
         /\ docLen[i] <= Cardinality(Words(docLen))
<1> DEFINE old == {i} \X (1 .. docLen[i])
<1>1. Words(Without(docLen, i)) = Words(docLen) \ old
  <2>1. PICK g : g = Without(docLen, i)
    OBVIOUS
  <2>2. DOMAIN g = DOMAIN docLen \ {i} /\ \A j \in DOMAIN g : g[j] = docLen[j]
    BY <2>1 DEF Without
  <2>3. \A w : w \in Words(g) <=> \E j \in DOMAIN g : \E k \in 1 .. g[j] : w = <<j, k>>
    BY WordsMember
  <2>4. \A w : w \in Words(docLen)
                <=> \E j \in DOMAIN docLen : \E k \in 1 .. docLen[j] : w = <<j, k>>
    BY WordsMember
  <2>5. \A w : w \in old <=> \E k \in 1 .. docLen[i] : w = <<i, k>>
    OBVIOUS
  <2> HIDE DEF old
  <2>6. \A w : w \in Words(g) <=> w \in Words(docLen) /\ w \notin old
    BY <2>2, <2>3, <2>4, <2>5
  <2> QED
    BY <2>1, <2>6
<1>2. Words(docLen) \cap old = old
  BY DEF Words
<1>3. IsFiniteSet(old) /\ Cardinality(old) = docLen[i]
  BY WordsOfOne
<1> HIDE DEF old
<1>4. old \subseteq Words(docLen)
  BY <1>2
<1>5. /\ IsFiniteSet(Words(docLen) \ old)
      /\ Cardinality(Words(docLen) \ old)
           = Cardinality(Words(docLen)) - Cardinality(Words(docLen) \cap old)
  BY FS_Difference
<1>6. Cardinality(old) <= Cardinality(Words(docLen))
  BY <1>4, FS_Subset
<1> QED
  BY <1>1, <1>2, <1>3, <1>5, <1>6

\* A document with a word is a reason for the total not to be 0.
LEMMA WordsThere ==
  ASSUME NEW docLen, NEW i \in DOMAIN docLen, docLen[i] \in Nat \ {0},
         IsFiniteSet(Words(docLen))
  PROVE  Cardinality(Words(docLen)) # 0
<1>1. <<i, 1>> \in {i} \X (1 .. docLen[i])
  OBVIOUS
<1>2. <<i, 1>> \in Words(docLen)
  BY <1>1 DEF Words
<1> QED
  BY <1>2, FS_EmptySet

-----------------------------------------------------------------------------
(***************************************************************************)
(* The keyword index.                                                      *)
(***************************************************************************)

\* An empty index fits no documents.
LEMMA EmptyTextFits ==
  ASSUME NEW mode, NEW toks, DOMAIN toks = {}, NEW left
  PROVE  TextFits(NewMemory(mode).text, toks, left)
<1> DEFINE x == NewMemory(mode).text
<1>1. /\ x.postings = [t \in Terms |-> [i \in Ids |-> 0]]
      /\ x.docLen = [i \in {} |-> i] /\ x.totalLen = 0
  BY DEF NewMemory
<1> HIDE DEF x
<1>2. DOMAIN x.docLen = {}
  BY <1>1
<1>3. Words(x.docLen) = {}
  BY <1>2 DEF Words
<1>4. IsFiniteSet(Words(x.docLen)) /\ x.totalLen = Cardinality(Words(x.docLen))
  BY <1>1, <1>3, FS_EmptySet
<1>5. x.postings \in [Terms -> [Ids -> Nat]]
  BY <1>1
<1>6. \A i \in Ids, t \in Terms : x.postings[t][i] = 0
  BY <1>1
<1>7. TextFits(x, toks, left)
  BY <1>2, <1>4, <1>5, <1>6 DEF TextFits
<1> QED
  BY <1>7 DEF x

\* A document that was not there is indexed.
LEMMA TextInsertFits ==
  ASSUME NEW x, NEW toks, NEW left, TextFits(x, toks, left),
         NEW i \in Ids, i \notin DOMAIN toks, NEW text \in Texts, NEW max \in Nat
  PROVE  TextFits(TextInsert(x, i, text, max), Bind(toks, i, Tokenize(text, max)), left)
<1>1. PICK s : s = Tokenize(text, max)
  OBVIOUS
<1>2. s \in Seq(Terms) /\ Len(s) \in Nat /\ Range(s) \subseteq Terms
  BY <1>1, TokenizeFacts, TextFacts
<1>3. PICK y : y = TextInsert(x, i, text, max)
  OBVIOUS
<1>4. /\ y.docLen = Bind(x.docLen, i, Len(s))
      /\ y.totalLen = x.totalLen + Len(s)
      /\ y.postings = [t \in Terms |-> IF t \in Range(s)
                                       THEN [x.postings[t] EXCEPT ![i] = @ + 1] ELSE x.postings[t]]
  BY <1>1, <1>3 DEF TextInsert
<1>5. PICK new : new = Bind(toks, i, s)
  OBVIOUS
<1>6. /\ DOMAIN new = DOMAIN toks \cup {i} /\ new[i] = s
      /\ \A j \in DOMAIN toks : j # i /\ new[j] = toks[j]
  BY <1>5 DEF Bind
<1>7. /\ DOMAIN y.docLen = DOMAIN new /\ DOMAIN new \subseteq Ids
      /\ \A j \in DOMAIN new : new[j] \in Seq(Terms) /\ y.docLen[j] = Len(new[j])
  BY <1>2, <1>4, <1>6 DEF TextFits, Bind
<1>8. IsFiniteSet(Words(y.docLen)) /\ y.totalLen = Cardinality(Words(y.docLen))
  BY <1>2, <1>4, WordsBind DEF TextFits
<1>9. /\ y.postings \in [Terms -> [Ids -> Nat]]
      /\ \A t \in Terms, j \in Ids :
           y.postings[t][j] = IF t \in Range(s) /\ j = i THEN x.postings[t][j] + 1
                              ELSE x.postings[t][j]
  BY <1>4 DEF TextFits
<1>10. \A j \in DOMAIN new : \A t \in Range(new[j]) : y.postings[t][j] # 0
  <2> SUFFICES ASSUME NEW j \in DOMAIN new, NEW t \in Range(new[j])
               PROVE  y.postings[t][j] # 0
    OBVIOUS
  <2>1. t \in Terms /\ j \in Ids
    BY <1>7 DEF Range
  <2>2. x.postings[t][j] \in Nat
    BY <2>1 DEF TextFits
  <2>3. CASE j = i
    BY <1>6, <1>9, <2>1, <2>2, <2>3
  <2>4. CASE j # i
    BY <1>6, <1>9, <2>1, <2>4 DEF TextFits
  <2> QED
    BY <2>3, <2>4
<1>11. \A j \in Ids \ left : \A t \in Terms :
         y.postings[t][j] = IF j \in DOMAIN new /\ t \in Range(new[j]) THEN 1 ELSE 0
  <2> SUFFICES ASSUME NEW j \in Ids \ left, NEW t \in Terms
               PROVE  y.postings[t][j] = IF j \in DOMAIN new /\ t \in Range(new[j]) THEN 1 ELSE 0
    OBVIOUS
  <2>1. x.postings[t][j] = IF j \in DOMAIN toks /\ t \in Range(toks[j]) THEN 1 ELSE 0
    BY DEF TextFits
  <2>2. CASE j = i
    BY <1>6, <1>9, <2>1, <2>2
  <2>3. CASE j # i
    BY <1>6, <1>9, <2>1, <2>3
  <2> QED
    BY <2>2, <2>3
<1>12. TextFits(y, new, left)
  BY <1>7, <1>8, <1>9, <1>10, <1>11 DEF TextFits
<1> QED
  BY <1>1, <1>3, <1>5, <1>12

\* A document is un-indexed; if the limit of now admits less of it than the
\* limit of then, its id is among those that left postings behind.
LEMMA TextRemoveFits ==
  ASSUME NEW x, NEW toks, NEW left, TextFits(x, toks, left),
         NEW i \in DOMAIN toks, NEW text \in Texts, NEW max \in Nat,
         NEW more, left \subseteq more,
         Range(toks[i]) \subseteq Range(Tokenize(text, max)) \/ i \in more
  PROVE  TextFits(TextRemove(x, i, text, max), Without(toks, i), more)
<1>1. PICK s : s = Tokenize(text, max)
  OBVIOUS
<1>2. PICK y : y = TextRemove(x, i, text, max)
  OBVIOUS
<1>3. i \in DOMAIN x.docLen /\ i \in Ids
  BY DEF TextFits
<1>4. /\ y.docLen = Without(x.docLen, i)
      /\ y.totalLen = x.totalLen - x.docLen[i]
      /\ y.postings = [t \in Terms |-> IF t \in Range(s)
                                       THEN [x.postings[t] EXCEPT ![i] = 0] ELSE x.postings[t]]
  BY <1>1, <1>2, <1>3 DEF TextRemove
<1>5. PICK new : new = Without(toks, i)
  OBVIOUS
<1>6. /\ DOMAIN new = DOMAIN toks \ {i}
      /\ \A j \in DOMAIN new : j # i /\ j \in DOMAIN toks /\ new[j] = toks[j]
  BY <1>5 DEF Without
<1>7. /\ DOMAIN y.docLen = DOMAIN new /\ DOMAIN new \subseteq Ids
      /\ \A j \in DOMAIN new : new[j] \in Seq(Terms) /\ y.docLen[j] = Len(new[j])
  BY <1>4, <1>6 DEF TextFits, Without
<1>8. IsFiniteSet(Words(y.docLen)) /\ y.totalLen = Cardinality(Words(y.docLen))
  <2>1. x.docLen[i] \in Nat
    BY DEF TextFits
  <2> QED
    BY <1>3, <1>4, <2>1, WordsWithout DEF TextFits
<1>9. /\ y.postings \in [Terms -> [Ids -> Nat]]
      /\ \A t \in Terms, j \in Ids :
           y.postings[t][j] = IF t \in Range(s) /\ j = i THEN 0 ELSE x.postings[t][j]
  BY <1>4 DEF TextFits
<1>10. \A j \in DOMAIN new : \A t \in Range(new[j]) : y.postings[t][j] # 0
  <2> SUFFICES ASSUME NEW j \in DOMAIN new, NEW t \in Range(new[j])
               PROVE  y.postings[t][j] # 0
    OBVIOUS
  <2>1. t \in Terms /\ j \in Ids
    BY <1>7 DEF Range
  <2> QED
    BY <1>6, <1>9, <2>1 DEF TextFits
<1>11. \A j \in Ids \ more : \A t \in Terms :
         y.postings[t][j] = IF j \in DOMAIN new /\ t \in Range(new[j]) THEN 1 ELSE 0
  <2> SUFFICES ASSUME NEW j \in Ids \ more, NEW t \in Terms
               PROVE  y.postings[t][j] = IF j \in DOMAIN new /\ t \in Range(new[j]) THEN 1 ELSE 0
    OBVIOUS
  <2>1. x.postings[t][j] = IF j \in DOMAIN toks /\ t \in Range(toks[j]) THEN 1 ELSE 0
    BY DEF TextFits
  <2>2. CASE j = i
    <3>1. t \notin Range(s) => t \notin Range(toks[i])
      BY <1>1, <2>2
    <3> QED
      BY <1>6, <1>9, <2>1, <2>2, <3>1
  <2>3. CASE j # i
    BY <1>6, <1>9, <2>1, <2>3
  <2> QED
    BY <2>2, <2>3
<1>12. TextFits(y, new, more)
  BY <1>7, <1>8, <1>9, <1>10, <1>11 DEF TextFits
<1> QED
  BY <1>2, <1>5, <1>12

-----------------------------------------------------------------------------
(***************************************************************************)
(* The vector array.                                                       *)
(***************************************************************************)

\* The ids are finitely many, and so are those with a slot.
LEMMA OwnersFinite ==
  ASSUME NEW slots, DOMAIN slots \subseteq Ids
  PROVE  IsFiniteSet(Owners(slots)) /\ Cardinality(Owners(slots)) \in Nat
<1>1. IsFiniteSet(Ids)
  BY BoundsAssumption, FS_Interval DEF Ids
<1>2. Owners(slots) \subseteq Ids
  BY DEF Owners
<1>3. IsFiniteSet(Owners(slots))
  BY <1>1, <1>2, FS_Subset
<1> QED
  BY <1>3, FS_CardinalityType

\* An empty array is shared out among none.
LEMMA EmptyVectorsFit ==
  ASSUME NEW mode, NEW slots, DOMAIN slots = {}, NEW given
  PROVE  VectorsFit(NewMemory(mode).vectors, slots, given)
<1> DEFINE x == NewMemory(mode).vectors
<1>1. x.data = <<>> /\ x.free = <<>> /\ x.live = 0
  BY DEF NewMemory
<1> HIDE DEF x
<1>2. Owners(slots) = {}
  BY DEF Owners
<1>3. x.live = Cardinality(Owners(slots))
  BY <1>1, <1>2, FS_EmptySet
<1>4. x.data \in Seq(Vectors \cup {Zero}) /\ x.free \in Seq(DOMAIN x.data) /\ DOMAIN x.data = {}
  BY <1>1
<1>5. IsInjective(x.free)
  BY <1>1 DEF IsInjective
<1>6. VectorsFit(x, slots, given)
  BY <1>2, <1>3, <1>4, <1>5 DEF VectorsFit
<1> QED
  BY <1>6 DEF x

\* Only the slots of the ids and what these were given matter.
LEMMA SameVectorsFit ==
  ASSUME NEW x, NEW slots, NEW given, VectorsFit(x, slots, given),
         NEW slots2, NEW given2, DOMAIN slots2 = DOMAIN slots,
         \A i \in DOMAIN slots : slots2[i] = slots[i] /\ given2[i] = given[i]
  PROVE  VectorsFit(x, slots2, given2)
<1>1. Owners(slots2) = Owners(slots)
  BY DEF Owners
<1>2. \A i \in Owners(slots) : slots2[i] = slots[i] /\ given2[i] = given[i]
  BY DEF Owners
<1> QED
  BY <1>1, <1>2 DEF VectorsFit

\* A record that has a slot is given another vector.
LEMMA OverwriteFits ==
  ASSUME NEW x, NEW slots, NEW given, VectorsFit(x, slots, given),
         NEW i \in Owners(slots), NEW v \in Vectors,
         NEW given2, given2[i] = v, \A j \in DOMAIN slots : j # i => given2[j] = given[j]
  PROVE  VectorsFit(VectorOverwrite(x, slots[i], v), slots, given2)
<1>1. PICK y : y = VectorOverwrite(x, slots[i], v)
  OBVIOUS
<1>2. y.data = [x.data EXCEPT ![slots[i]] = v] /\ y.free = x.free /\ y.live = x.live
  BY <1>1 DEF VectorOverwrite
<1>3. /\ x.data \in Seq(Vectors \cup {Zero}) /\ slots[i] \in DOMAIN x.data
      /\ i \in DOMAIN slots /\ slots[i] # 0
  BY DEF VectorsFit, Owners
<1>4. /\ y.data \in Seq(Vectors \cup {Zero}) /\ DOMAIN y.data = DOMAIN x.data
      /\ y.data[slots[i]] = v
      /\ \A n \in DOMAIN x.data : n # slots[i] => y.data[n] = x.data[n]
  BY <1>2, <1>3
<1>5. v # None
  BY VectorsAssumption
<1>6. \A j \in Owners(slots) : y.data[slots[j]] = given2[j]
  <2> SUFFICES ASSUME NEW j \in Owners(slots)
               PROVE  y.data[slots[j]] = given2[j]
    OBVIOUS
  <2>1. j \in DOMAIN slots
    BY DEF Owners
  <2>2. CASE j = i
    BY <1>4, <2>2
  <2>3. CASE j # i
    BY <1>4, <2>1, <2>3 DEF VectorsFit
  <2> QED
    BY <2>2, <2>3
<1>7. \A j \in DOMAIN slots : slots[j] \in Nat /\ (slots[j] = 0 <=> given2[j] = None)
  BY <1>3, <1>5 DEF VectorsFit
<1>8. VectorsFit(y, slots, given2)
  BY <1>2, <1>4, <1>6, <1>7 DEF VectorsFit
<1> QED
  BY <1>1, <1>8

\* A free list without its last slot.
LEMMA FrontFacts ==
  ASSUME NEW S, NEW s \in Seq(S), s # <<>>, IsInjective(s)
  PROVE  /\ Front(s) \in Seq(S) /\ IsInjective(Front(s))
         /\ Last(s) \in S
         /\ Range(Front(s)) = Range(s) \ {Last(s)} /\ Last(s) \in Range(s)
<1>1. Len(s) \in Nat /\ DOMAIN s = 1 .. Len(s) /\ Len(s) # 0
  BY EmptySeq
<1>2. PICK n \in Nat : n = Len(s) - 1
  <2>1. Len(s) - 1 \in Nat
    BY <1>1
  <2> QED
    BY <2>1
<1>3. \A k \in 1 .. n : k \in DOMAIN s /\ s[k] \in S
  BY <1>1, <1>2
<1>4. /\ SubSeq(s, 1, n) \in Seq(S)
      /\ Len(SubSeq(s, 1, n)) = IF 1 <= n THEN n - 1 + 1 ELSE 0
      /\ \A k \in 1 .. n - 1 + 1 : SubSeq(s, 1, n)[k] = s[1 + k - 1]
  BY <1>3, SubSeqProperties
<1>5. PICK f : f = Front(s)
  OBVIOUS
<1>6. f \in Seq(S) /\ DOMAIN f = 1 .. n /\ \A k \in 1 .. n : f[k] = s[k]
  BY <1>2, <1>4, <1>5 DEF Front
<1>7. Last(s) = s[n + 1] /\ DOMAIN s = 1 .. n + 1 /\ n + 1 \in DOMAIN s
  BY <1>1, <1>2 DEF Last
<1>8. IsInjective(f)
  BY <1>3, <1>6 DEF IsInjective
<1>9. \A k \in 1 .. n : s[k] # s[n + 1]
  BY <1>3, <1>7 DEF IsInjective
<1>10. \A k \in DOMAIN s : k \in 1 .. n \/ k = n + 1
  BY <1>7
<1>11. Range(f) = Range(s) \ {s[n + 1]}
  <2>1. \A z : z \in Range(f) <=> \E k \in 1 .. n : z = s[k]
    BY <1>6 DEF Range
  <2>2. \A z : z \in Range(s) <=> \E k \in DOMAIN s : z = s[k]
    BY DEF Range
  <2>3. \A z : z \in Range(f) <=> z \in Range(s) /\ z # s[n + 1]
    BY <1>3, <1>9, <1>10, <2>1, <2>2
  <2> QED
    BY <2>3
<1>12. Last(s) \in S /\ Last(s) \in Range(s)
  BY <1>7 DEF Range
<1> QED
  BY <1>5, <1>6, <1>7, <1>8, <1>11, <1>12

\* A record without a slot gets one: the last one freed, or a new one.
LEMMA InsertFits ==
  ASSUME NEW x, NEW slots, NEW given, VectorsFit(x, slots, given),
         NEW i \in Ids, i \notin Owners(slots), NEW v \in Vectors,
         NEW given2, given2[i] = v, \A j \in DOMAIN slots : j # i => given2[j] = given[j]
  PROVE  VectorsFit(VectorInsert(x, v), Bind(slots, i, SlotFor(x)), given2)
<1>1. PICK y : y = VectorInsert(x, v)
  OBVIOUS
<1>2. PICK slot : slot = SlotFor(x)
  OBVIOUS
<1>3. PICK new : new = Bind(slots, i, slot)
  OBVIOUS
<1>4. /\ x.data \in Seq(Vectors \cup {Zero}) /\ x.free \in Seq(DOMAIN x.data)
      /\ Len(x.data) \in Nat /\ DOMAIN x.data = 1 .. Len(x.data)
      /\ IsInjective(x.free) /\ Range(x.free) \subseteq DOMAIN x.data
  <2>1. x.data \in Seq(Vectors \cup {Zero}) /\ x.free \in Seq(DOMAIN x.data) /\ IsInjective(x.free)
    BY DEF VectorsFit
  <2> QED
    BY <2>1 DEF Range
<1>5. /\ slot \in Nat \ {0} /\ \A j \in Owners(slots) : slots[j] # slot
      /\ y.data \in Seq(Vectors \cup {Zero}) /\ DOMAIN y.data = DOMAIN x.data \cup {slot}
      /\ y.data[slot] = v /\ \A n \in DOMAIN x.data : n # slot => y.data[n] = x.data[n]
      /\ y.free \in Seq(DOMAIN x.data) /\ IsInjective(y.free)
      /\ Range(y.free) = Range(x.free) \ {slot}
      /\ y.live = x.live + 1
  <2>1. CASE x.free = <<>>
    <3>1. /\ slot = Len(x.data) + 1 /\ y.data = Append(x.data, v) /\ y.free = x.free
          /\ y.live = x.live + 1
      BY <1>1, <1>2, <2>1 DEF SlotFor, VectorInsert
    <3>2. /\ Append(x.data, v) \in Seq(Vectors \cup {Zero})
          /\ Len(Append(x.data, v)) = Len(x.data) + 1
          /\ \A n \in 1 .. Len(x.data) : Append(x.data, v)[n] = x.data[n]
          /\ Append(x.data, v)[Len(x.data) + 1] = v
      BY <1>4, AppendProperties
    <3>3. slot \notin DOMAIN x.data /\ slot \in Nat \ {0}
      BY <1>4, <3>1
    <3>4. \A j \in Owners(slots) : slots[j] # slot
      BY <3>3 DEF VectorsFit
    <3>5. DOMAIN y.data = DOMAIN x.data \cup {slot} /\ y.data \in Seq(Vectors \cup {Zero})
      BY <1>4, <3>1, <3>2
    <3>6. Range(y.free) = Range(x.free) \ {slot}
      BY <1>4, <3>1, <3>3
    <3> QED
      BY <1>4, <3>1, <3>2, <3>3, <3>4, <3>5, <3>6
  <2>2. CASE x.free # <<>>
    <3>1. /\ slot = Last(x.free) /\ y.data = [x.data EXCEPT ![slot] = v] /\ y.free = Front(x.free)
          /\ y.live = x.live + 1
      BY <1>1, <1>2, <2>2 DEF SlotFor, VectorInsert
    <3>2. /\ Front(x.free) \in Seq(DOMAIN x.data) /\ IsInjective(Front(x.free))
          /\ Last(x.free) \in DOMAIN x.data
          /\ Range(Front(x.free)) = Range(x.free) \ {Last(x.free)} /\ Last(x.free) \in Range(x.free)
      BY <1>4, <2>2, FrontFacts
    <3>3. slot \in DOMAIN x.data /\ slot \in Nat \ {0} /\ slot \in Range(x.free)
      BY <1>4, <3>1, <3>2
    <3>4. \A j \in Owners(slots) : slots[j] # slot
      BY <3>3 DEF VectorsFit
    <3>5. /\ DOMAIN y.data = DOMAIN x.data \cup {slot} /\ y.data \in Seq(Vectors \cup {Zero})
          /\ y.data[slot] = v /\ \A n \in DOMAIN x.data : n # slot => y.data[n] = x.data[n]
      BY <1>4, <3>1, <3>3
    <3> QED
      BY <3>1, <3>2, <3>3, <3>4, <3>5
  <2> QED
    BY <2>1, <2>2
<1>6. /\ DOMAIN new = DOMAIN slots \cup {i} /\ new[i] = slot
      /\ \A j \in DOMAIN slots : j # i => new[j] = slots[j]
  BY <1>3 DEF Bind
<1>7. Owners(new) = Owners(slots) \cup {i}
  BY <1>5, <1>6 DEF Owners
<1>8. \A j \in Owners(slots) : j # i /\ j \in DOMAIN slots /\ new[j] = slots[j]
  BY <1>6 DEF Owners
<1>9. DOMAIN new \subseteq Ids /\ DOMAIN slots \subseteq Ids
  BY <1>6 DEF VectorsFit
<1>10. y.live = Cardinality(Owners(new))
  <2>1. IsFiniteSet(Owners(slots))
    BY <1>9, OwnersFinite
  <2>2. Cardinality(Owners(slots) \cup {i}) = Cardinality(Owners(slots)) + 1
    BY <2>1, FS_AddElement
  <2> QED
    BY <1>5, <1>7, <2>2 DEF VectorsFit
<1>11. \A j, k \in Owners(new) : new[j] = new[k] => j = k
  BY <1>5, <1>6, <1>7, <1>8 DEF VectorsFit
<1>12. \A j \in Owners(new) : /\ new[j] \in DOMAIN y.data /\ new[j] \notin Range(y.free)
                              /\ y.data[new[j]] = given2[j]
  <2> SUFFICES ASSUME NEW j \in Owners(new)
               PROVE  /\ new[j] \in DOMAIN y.data /\ new[j] \notin Range(y.free)
                      /\ y.data[new[j]] = given2[j]
    OBVIOUS
  <2>1. CASE j = i
    BY <1>5, <1>6, <2>1
  <2>2. CASE j # i
    <3>1. j \in Owners(slots) /\ j \in DOMAIN slots /\ new[j] = slots[j]
      BY <1>7, <1>8, <2>2
    <3>2. slots[j] \in DOMAIN x.data /\ slots[j] \notin Range(x.free) /\ x.data[slots[j]] = given[j]
      BY <3>1 DEF VectorsFit
    <3> QED
      BY <1>5, <2>2, <3>1, <3>2
  <2> QED
    BY <2>1, <2>2
<1>13. \A n \in DOMAIN y.data : n \in Range(y.free) \/ \E j \in Owners(new) : new[j] = n
  <2> SUFFICES ASSUME NEW n \in DOMAIN y.data, n # slot, n \notin Range(y.free)
               PROVE  \E j \in Owners(new) : new[j] = n
    BY <1>6, <1>7
  <2>1. n \in DOMAIN x.data /\ n \notin Range(x.free)
    BY <1>5
  <2>2. PICK j \in Owners(slots) : slots[j] = n
    BY <2>1 DEF VectorsFit
  <2> QED
    BY <1>7, <1>8, <2>2
<1>14. \A j \in DOMAIN new : new[j] \in Nat /\ (new[j] = 0 <=> given2[j] = None)
  <2> SUFFICES ASSUME NEW j \in DOMAIN new
               PROVE  new[j] \in Nat /\ (new[j] = 0 <=> given2[j] = None)
    OBVIOUS
  <2>1. CASE j = i
    BY <1>5, <1>6, <2>1, VectorsAssumption
  <2>2. CASE j # i
    BY <1>6, <2>2 DEF VectorsFit
  <2> QED
    BY <2>1, <2>2
<1>15. y.free \in Seq(DOMAIN y.data)
  BY <1>5
<1>16. VectorsFit(y, new, given2)
  BY <1>5, <1>9, <1>10, <1>11, <1>12, <1>13, <1>14, <1>15 DEF VectorsFit
<1> QED
  BY <1>1, <1>2, <1>3, <1>16

\* A record goes, and its slot is freed.
LEMMA RemoveFits ==
  ASSUME NEW x, NEW slots, NEW given, VectorsFit(x, slots, given),
         NEW i \in Owners(slots),
         NEW given2, \A j \in DOMAIN slots : j # i => given2[j] = given[j]
  PROVE  VectorsFit(VectorRemove(x, slots[i]), Without(slots, i), given2)
<1>1. PICK slot : slot = slots[i]
  OBVIOUS
<1>2. PICK y : y = VectorRemove(x, slot)
  OBVIOUS
<1>3. PICK new : new = Without(slots, i)
  OBVIOUS
<1>4. /\ x.data \in Seq(Vectors \cup {Zero}) /\ x.free \in Seq(DOMAIN x.data)
      /\ Len(x.data) \in Nat /\ DOMAIN x.data = 1 .. Len(x.data)
      /\ IsInjective(x.free)
      /\ slot \in DOMAIN x.data /\ slot \notin Range(x.free)
      /\ DOMAIN slots \subseteq Ids
  BY <1>1 DEF VectorsFit
<1>5. /\ y.data = [x.data EXCEPT ![slot] = Zero] /\ y.free = Append(x.free, slot)
      /\ y.live = x.live - 1
  BY <1>2, <1>4 DEF VectorRemove
<1>6. /\ y.data \in Seq(Vectors \cup {Zero}) /\ DOMAIN y.data = DOMAIN x.data
      /\ \A n \in DOMAIN x.data : n # slot => y.data[n] = x.data[n]
  BY <1>4, <1>5
<1>7. /\ y.free \in Seq(DOMAIN x.data) /\ IsInjective(y.free)
      /\ Range(y.free) = Range(x.free) \cup {slot}
  <2>1. /\ y.free \in Seq(DOMAIN x.data) /\ Len(y.free) = Len(x.free) + 1
        /\ \A n \in 1 .. Len(x.free) : y.free[n] = x.free[n]
        /\ y.free[Len(x.free) + 1] = slot
    BY <1>4, <1>5, AppendProperties
  <2>2. /\ Len(x.free) \in Nat /\ DOMAIN x.free = 1 .. Len(x.free)
        /\ DOMAIN y.free = 1 .. Len(x.free) + 1
    BY <1>4, <2>1
  <2>3. \A n \in DOMAIN y.free : n \in DOMAIN x.free \/ n = Len(x.free) + 1
    BY <2>2
  <2>4. \A n \in DOMAIN x.free : n \in DOMAIN y.free /\ y.free[n] = x.free[n] /\ x.free[n] # slot
    BY <1>4, <2>1, <2>2 DEF Range
  <2>5. IsInjective(y.free)
    BY <1>4, <2>1, <2>3, <2>4 DEF IsInjective
  <2>6. Range(y.free) = Range(x.free) \cup {slot}
    <3>1. Len(x.free) + 1 \in DOMAIN y.free
      BY <2>2
    <3>2. \A z : z \in Range(y.free) <=> \E n \in DOMAIN y.free : z = y.free[n]
      BY DEF Range
    <3>3. \A z : z \in Range(x.free) <=> \E n \in DOMAIN x.free : z = x.free[n]
      BY DEF Range
    <3>4. \A z : z \in Range(y.free) <=> z \in Range(x.free) \/ z = slot
      BY <2>1, <2>3, <2>4, <3>1, <3>2, <3>3
    <3> QED
      BY <3>4
  <2> QED
    BY <2>1, <2>5, <2>6
<1>8. /\ DOMAIN new = DOMAIN slots \ {i}
      /\ \A j \in DOMAIN new : j # i /\ j \in DOMAIN slots /\ new[j] = slots[j]
  BY <1>3 DEF Without
<1>9. Owners(new) = Owners(slots) \ {i}
  BY <1>8 DEF Owners
<1>10. \A j \in Owners(new) : /\ j \in DOMAIN new /\ j \in DOMAIN slots /\ j \in Owners(slots) /\ j # i
                              /\ new[j] = slots[j]
  BY <1>8, <1>9 DEF Owners
<1>11. y.live = Cardinality(Owners(new))
  <2>1. IsFiniteSet(Owners(slots))
    BY <1>4, OwnersFinite
  <2>2. Cardinality(Owners(slots) \ {i}) = Cardinality(Owners(slots)) - 1
    BY <2>1, FS_RemoveElement
  <2> QED
    BY <1>5, <1>9, <2>2 DEF VectorsFit
<1>12. \A j, k \in Owners(new) : new[j] = new[k] => j = k
  BY <1>10 DEF VectorsFit
<1>13. \A j \in Owners(new) : /\ new[j] \in DOMAIN y.data /\ new[j] \notin Range(y.free)
                              /\ y.data[new[j]] = given2[j]
  <2> SUFFICES ASSUME NEW j \in Owners(new)
               PROVE  /\ new[j] \in DOMAIN y.data /\ new[j] \notin Range(y.free)
                      /\ y.data[new[j]] = given2[j]
    OBVIOUS
  <2>1. slots[j] \in DOMAIN x.data /\ slots[j] \notin Range(x.free) /\ x.data[slots[j]] = given[j]
    BY <1>10 DEF VectorsFit
  <2>2. slots[j] # slot
    BY <1>1, <1>10 DEF VectorsFit
  <2> QED
    BY <1>6, <1>7, <1>10, <2>1, <2>2
<1>14. \A n \in DOMAIN y.data : n \in Range(y.free) \/ \E j \in Owners(new) : new[j] = n
  <2> SUFFICES ASSUME NEW n \in DOMAIN y.data, n \notin Range(y.free)
               PROVE  \E j \in Owners(new) : new[j] = n
    OBVIOUS
  <2>1. n \in DOMAIN x.data /\ n \notin Range(x.free) /\ n # slot
    BY <1>6, <1>7
  <2>2. PICK j \in Owners(slots) : slots[j] = n
    BY <2>1 DEF VectorsFit
  <2>3. j \in Owners(new)
    BY <1>1, <1>9, <2>1, <2>2
  <2> QED
    BY <1>10, <2>2, <2>3
<1>15. \A j \in DOMAIN new : new[j] \in Nat /\ (new[j] = 0 <=> given2[j] = None)
  BY <1>8 DEF VectorsFit
<1>16. DOMAIN new \subseteq Ids /\ y.free \in Seq(DOMAIN y.data)
  BY <1>4, <1>6, <1>7, <1>8
<1>17. VectorsFit(y, new, given2)
  BY <1>6, <1>7, <1>11, <1>12, <1>13, <1>14, <1>15, <1>16 DEF VectorsFit
<1> QED
  BY <1>1, <1>2, <1>3, <1>17

\* A record without a slot comes, is replaced or goes.
LEMMA BindNoneFits ==
  ASSUME NEW x, NEW slots, NEW given, VectorsFit(x, slots, given),
         NEW i \in Ids, i \notin Owners(slots),
         NEW given2, given2[i] = None, \A j \in DOMAIN slots : j # i => given2[j] = given[j]
  PROVE  VectorsFit(x, Bind(slots, i, 0), given2)
<1>1. PICK new : new = Bind(slots, i, 0)
  OBVIOUS
<1>2. /\ DOMAIN new = DOMAIN slots \cup {i} /\ new[i] = 0
      /\ \A j \in DOMAIN slots : j # i => new[j] = slots[j]
  BY <1>1 DEF Bind
<1>3. Owners(new) = Owners(slots)
  BY <1>2 DEF Owners
<1>4. \A j \in Owners(slots) : j # i /\ new[j] = slots[j] /\ given2[j] = given[j]
  BY <1>2 DEF Owners
<1>5. \A j \in DOMAIN new : new[j] \in Nat /\ (new[j] = 0 <=> given2[j] = None)
  BY <1>2 DEF VectorsFit
<1>6. VectorsFit(x, new, given2)
  BY <1>2, <1>3, <1>4, <1>5 DEF VectorsFit
<1> QED
  BY <1>1, <1>6

LEMMA WithoutNoneFits ==
  ASSUME NEW x, NEW slots, NEW given, VectorsFit(x, slots, given),
         NEW i, i \notin Owners(slots),
         NEW given2, \A j \in DOMAIN slots : j # i => given2[j] = given[j]
  PROVE  VectorsFit(x, Without(slots, i), given2)
<1>1. PICK new : new = Without(slots, i)
  OBVIOUS
<1>2. /\ DOMAIN new = DOMAIN slots \ {i}
      /\ \A j \in DOMAIN new : j # i /\ j \in DOMAIN slots /\ new[j] = slots[j]
  BY <1>1 DEF Without
<1>3. Owners(new) = Owners(slots)
  BY <1>2 DEF Owners
<1>4. \A j \in Owners(slots) : j \in DOMAIN slots /\ j # i /\ new[j] = slots[j] /\ given2[j] = given[j]
  BY <1>2, <1>3 DEF Owners
<1>5. \A j \in DOMAIN new : new[j] \in Nat /\ (new[j] = 0 <=> given2[j] = None)
  BY <1>2 DEF VectorsFit
<1>6. VectorsFit(x, new, given2)
  BY <1>2, <1>3, <1>4, <1>5 DEF VectorsFit
<1> QED
  BY <1>1, <1>6

-----------------------------------------------------------------------------
(***************************************************************************)
(* The tokens and the slots of the records.                                *)
(***************************************************************************)
\* A record that is new, or takes the place of one that was un-indexed.
LEMMA ToksNew ==
  ASSUME NEW records, NEW under, DOMAIN under = DOMAIN records, NEW i, NEW r, NEW max
  PROVE  /\ Toks(Bind(records, i, r), Bind(under, i, max))
              = Bind(Without(Toks(records, under), i), i, Tokenize(r.text, max))
         /\ i \notin DOMAIN records =>
              Toks(Bind(records, i, r), Bind(under, i, max))
                = Bind(Toks(records, under), i, Tokenize(r.text, max))
  BY DEF Toks, Bind, Without

LEMMA ToksWithout ==
  ASSUME NEW records, NEW under, DOMAIN under = DOMAIN records, NEW i
  PROVE  /\ Toks(Without(records, i), Without(under, i)) = Without(Toks(records, under), i)
         /\ i \notin DOMAIN records => Toks(records, Without(under, i)) = Toks(records, under)
  BY DEF Toks, Without

LEMMA SlotsBind ==
  ASSUME NEW records, NEW i, NEW r
  PROVE  Slots(Bind(records, i, r)) = Bind(Slots(records), i, r.slot)
  BY DEF Slots, Bind

LEMMA SlotsWithout ==
  ASSUME NEW records, NEW i
  PROVE  Slots(Without(records, i)) = Without(Slots(records), i)
  BY DEF Slots, Without

-----------------------------------------------------------------------------
(***************************************************************************)
(* The invariant.                                                          *)
(***************************************************************************)

\* What is held goes with the record, and stays with the others.
LEMMA HoldingFacts ==
  ASSUME NEW given, NEW left
  PROVE  /\ DOMAIN Holding(given, left) = DOMAIN given
         /\ \A i \in DOMAIN given :
              Holding(given, left)[i] = IF i \in DOMAIN left THEN left[i] ELSE given[i]
  BY DEF Holding

LEMMA HoldingWithout ==
  ASSUME NEW given, NEW left, NEW i, NEW j \in DOMAIN given, j # i
  PROVE  Holding(Without(given, i), Without(left, i))[j] = Holding(given, left)[j]
  BY DEF Holding, Without

LEMMA HoldingRestricted ==
  ASSUME NEW given, NEW left, NEW S \in SUBSET DOMAIN given
  PROVE  \A j \in S :
           Holding([i \in S |-> given[i]], [i \in S \cap DOMAIN left |-> left[i]])[j]
             = Holding(given, left)[j]
  BY DEF Holding

\* The invariant says the rest of what the two indexes are to agree on.
LEMMA FitFacts ==
  ASSUME IInv
  PROVE  /\ mem.vectors.data \in Seq(Vectors \cup {Zero})
         /\ mem.vectors.live \in Nat
         /\ \A i \in DOMAIN mem.records : mem.records[i].slot = 0 <=> Held[i] = None
         /\ \A i \in DOMAIN mem.records :
              mem.records[i].slot # 0 => mem.vectors.data[mem.records[i].slot] = Held[i]
<1>1. /\ DOMAIN Slots(mem.records) = DOMAIN mem.records
      /\ \A i \in DOMAIN mem.records : Slots(mem.records)[i] = mem.records[i].slot
  BY DEF Slots
<1>2. \A i \in DOMAIN mem.records : mem.records[i].slot # 0 => i \in Owners(Slots(mem.records))
  BY <1>1 DEF Owners
<1> QED
  BY <1>1, <1>2 DEF IInv, TypeOK, VectorInv, VectorsFit

\* From a vector array that fits to its type.
LEMMA VectorTypes ==
  ASSUME NEW x, NEW slots, NEW given, VectorsFit(x, slots, given)
  PROVE  x.live \in Nat /\ Range(x.data) \subseteq Vectors \cup {Zero}
<1>1. Cardinality(Owners(slots)) \in Nat
  BY OwnersFinite DEF VectorsFit
<1>2. x.data \in Seq(Vectors \cup {Zero})
  BY DEF VectorsFit
<1>3. Range(x.data) \subseteq Vectors \cup {Zero}
  BY <1>2 DEF Range
<1> QED
  BY <1>1, <1>3 DEF VectorsFit

\* And of a keyword index.
LEMMA TextTypes ==
  ASSUME NEW x, NEW toks, NEW left, TextFits(x, toks, left)
  PROVE  x.totalLen \in Nat /\ x.postings \in [Terms -> [Ids -> Nat]]
  BY FS_CardinalityType DEF TextFits

LEMMA InitInv == Init => IInv
<1> SUFFICES ASSUME Init
             PROVE  IInv
  OBVIOUS
<1>1. PICK mode \in Modes : mem = NewMemory(mode) /\ maxTerms \in Caps[mode]
  BY DEF Init
<1>2. /\ mem.mode = mode /\ mem.records = [i \in {} |-> i] /\ mem.nextId = 1
      /\ mem.text.docLen = [i \in {} |-> i] /\ mem.vectors.data = <<>>
  BY <1>1 DEF NewMemory
<1>3. /\ now = 0 /\ dead = {} /\ dump = [i \in {} |-> i] /\ limit = 0
      /\ embedded = [i \in {} |-> i] /\ inherited = [i \in {} |-> i]
      /\ indexedUnder = [i \in {} |-> i]
      /\ stale = {} /\ named = {}
  BY DEF Init
<1>4. DOMAIN mem.records = {} /\ DOMAIN Toks(mem.records, indexedUnder) = {}
      /\ DOMAIN Slots(mem.records) = {}
  BY <1>2 DEF Toks, Slots
<1>5. TextFits(mem.text, Toks(mem.records, indexedUnder), stale)
  BY <1>1, <1>4, EmptyTextFits
<1>6. VectorsFit(mem.vectors, Slots(mem.records), Held)
  BY <1>1, <1>4, EmptyVectorsFit
<1>7. /\ mem.text.totalLen \in Nat /\ mem.text.postings \in [Terms -> [Ids -> Nat]]
      /\ mem.vectors.live \in Nat /\ Range(mem.vectors.data) \subseteq Vectors \cup {Zero}
  BY <1>5, <1>6, TextTypes, VectorTypes
<1>8. DOMAIN dump = {} /\ DOMAIN embedded = {} /\ DOMAIN indexedUnder = {}
  BY <1>3
<1>9. TypeOK
  BY <1>1, <1>2, <1>3, <1>4, <1>7, <1>8, BoundsAssumption DEF TypeOK
<1>10. HistoryInv /\ NamesInv
  BY <1>8 DEF HistoryInv, NamesInv
<1> QED
  BY <1>5, <1>6, <1>9, <1>10 DEF IInv, TextInv, VectorInv

\* A step that leaves the index and its history alone.
LEMMA SameIndex ==
  ASSUME IInv, UNCHANGED <<mem, embedded, inherited, indexedUnder, stale, named, dump>>
  PROVE  HistoryInv' /\ NamesInv' /\ TextInv' /\ VectorInv'
<1>1. HistoryInv'
  BY DEF IInv, HistoryInv, Held, StoresVectors
<1>2. NamesInv'
  BY DEF IInv, NamesInv
<1>3. TextInv'
  BY DEF IInv, TextInv, IndexesText
<1>4. VectorInv'
  BY DEF IInv, VectorInv, Held
<1> QED
  BY <1>1, <1>2, <1>3, <1>4

LEMMA QuietInv ==
  ASSUME IInv,
         \/ Sweep
         \/ \E max \in Caps[mem.mode] : ConfigSet(max)
         \/ Tick
         \/ UNCHANGED vars
  PROVE  IInv'
<1>1. UNCHANGED <<mem, embedded, inherited, indexedUnder, stale, named, dump>>
  BY DEF Sweep, ConfigSet, Tick, vars, work, history
<1>2. TypeOK'
  <2>1. CASE Sweep
    <3>1. dead' \subseteq DOMAIN mem'.records
      BY <1>1, <2>1 DEF Sweep, Dead
    <3>2. UNCHANGED <<maxTerms, now, limit>>
      BY <2>1 DEF Sweep
    <3> QED
      BY <1>1, <3>1, <3>2 DEF IInv, TypeOK, IndexesText, StoresVectors
  <2>2. CASE \E max \in Caps[mem.mode] : ConfigSet(max)
    <3>1. maxTerms' \in Caps[mem.mode] /\ UNCHANGED <<now, dead, limit>>
      BY <2>2 DEF ConfigSet, work
    <3> QED
      BY <1>1, <3>1 DEF IInv, TypeOK, IndexesText, StoresVectors
  <2>3. CASE Tick
    <3>1. now' \in 0 .. MaxTime /\ UNCHANGED <<maxTerms, dead, limit>>
      BY <2>3, BoundsAssumption DEF Tick, work, IInv, TypeOK
    <3> QED
      BY <1>1, <3>1 DEF IInv, TypeOK, IndexesText, StoresVectors
  <2>4. CASE UNCHANGED vars
    <3>1. UNCHANGED <<maxTerms, now, dead, limit>>
      BY <2>4 DEF vars, work
    <3> QED
      BY <1>1, <3>1 DEF IInv, TypeOK, IndexesText, StoresVectors
  <2> QED
    BY <2>1, <2>2, <2>3, <2>4
<1> QED
  BY <1>1, <1>2, SameIndex DEF IInv

\* The deletion of a record, by whoever: the indexes go along with it.
LEMMA DropFacts ==
  ASSUME IInv, NEW i \in Ids, i \notin DOMAIN dump, Drop(i)
  PROVE  /\ mem'.mode = mem.mode /\ mem'.nextId = mem.nextId
         /\ DOMAIN mem'.records = DOMAIN mem.records \ {i}
         /\ \A j \in DOMAIN mem'.records : mem'.records[j] = mem.records[j]
         /\ DOMAIN indexedUnder' = DOMAIN mem'.records
         /\ DOMAIN embedded' = DOMAIN embedded \ {i}
         /\ DOMAIN inherited' \subseteq DOMAIN embedded'
         /\ \A j \in DOMAIN embedded' : Held'[j] = Held[j]
         /\ \A j \in DOMAIN indexedUnder' : indexedUnder'[j] \in Nat \ {0}
         /\ mem'.text.postings \in [Terms -> [Ids -> Nat]] /\ mem'.text.totalLen \in Nat
         /\ ~IndexesText(mem) => mem'.text.docLen = [j \in {} |-> j]
         /\ ~StoresVectors(mem) => mem'.vectors.data = <<>>
         /\ stale' \subseteq Ids /\ UNCHANGED <<maxTerms, now, named>>
         /\ TextInv' /\ VectorInv'
<1>1. /\ mem' = DelRecord(mem, i, maxTerms) /\ stale' = stale \cup LeftBehind(i)
      /\ embedded' = Without(embedded, i) /\ inherited' = Without(inherited, i)
      /\ indexedUnder' = Without(indexedUnder, i)
      /\ UNCHANGED <<maxTerms, now, named>>
  BY DEF Drop
<1>2. /\ DOMAIN mem.records \subseteq Ids /\ DOMAIN indexedUnder = DOMAIN mem.records
      /\ DOMAIN embedded = DOMAIN mem.records \cup DOMAIN dump
      /\ \A j \in DOMAIN mem.records : mem.records[j].text \in Texts /\ mem.records[j].slot \in Nat
      /\ stale \subseteq Ids
      /\ maxTerms \in Nat
  BY BoundsAssumption DEF IInv, TypeOK, Record
<1>3. /\ DOMAIN embedded' = DOMAIN embedded \ {i}
      /\ DOMAIN inherited' \subseteq DOMAIN embedded'
      /\ \A j \in DOMAIN embedded' : Held'[j] = Held[j]
      /\ DOMAIN indexedUnder' = DOMAIN mem.records \ {i}
      /\ \A j \in DOMAIN indexedUnder' : indexedUnder'[j] = indexedUnder[j]
  <2>1. Held' = Holding(Without(embedded, i), Without(inherited, i))
    BY <1>1 DEF Held
  <2>2. DOMAIN inherited \subseteq DOMAIN embedded
    BY DEF IInv, TypeOK
  <2>3. DOMAIN Without(inherited, i) = DOMAIN inherited \ {i}
    BY DEF Without
  <2>4. DOMAIN embedded' = DOMAIN embedded \ {i}
    BY <1>1 DEF Without
  <2>5. ASSUME NEW j \in DOMAIN embedded, j # i
        PROVE  Holding(Without(embedded, i), Without(inherited, i))[j]
                 = Holding(embedded, inherited)[j]
    BY <2>5, HoldingWithout
  <2>6. Held = Holding(embedded, inherited)
    BY DEF Held
  <2>7. \A j \in DOMAIN embedded' : Held'[j] = Held[j]
    BY <2>1, <2>4, <2>5, <2>6
  <2> QED
    BY <1>1, <1>2, <2>2, <2>3, <2>4, <2>7 DEF Without
<1>4. \A j \in DOMAIN indexedUnder' : indexedUnder'[j] \in Nat \ {0}
  BY <1>2, <1>3 DEF IInv, HistoryInv
<1>5. stale' \subseteq Ids
  BY <1>1, <1>2 DEF LeftBehind
<1>6. \A j \in DOMAIN Slots(mem.records) : j # i => Held'[j] = Held[j]
  BY <1>2, <1>3 DEF Slots
<1>7. CASE i \notin DOMAIN mem.records
  <2>1. mem' = mem
    BY <1>1, <1>7 DEF DelRecord
  <2>2. LeftBehind(i) = {}
    BY <1>7 DEF LeftBehind
  <2>3. stale' = stale
    BY <1>1, <2>2
  <2>4. Toks(mem.records, Without(indexedUnder, i)) = Toks(mem.records, indexedUnder)
    BY <1>2, <1>7, ToksWithout
  <2>5. TextInv'
    BY <1>1, <2>1, <2>3, <2>4 DEF IInv, TextInv, IndexesText
  <2>6. VectorsFit(mem.vectors, Slots(mem.records), Held')
    <3>1. \A j \in DOMAIN Slots(mem.records) : Held'[j] = Held[j]
      BY <1>6, <1>7 DEF Slots
    <3> QED
      BY <3>1, SameVectorsFit DEF IInv, VectorInv
  <2>7. VectorInv'
    BY <2>1, <2>6 DEF VectorInv
  <2>8. DOMAIN mem'.records = DOMAIN mem.records \ {i}
    BY <1>7, <2>1
  <2> QED
    BY <1>1, <1>3, <1>4, <1>5, <2>1, <2>5, <2>7, <2>8 DEF IInv, TypeOK
<1>8. CASE i \in DOMAIN mem.records
  <2>1. /\ mem'.mode = mem.mode /\ mem'.nextId = mem.nextId
        /\ mem'.records = Without(mem.records, i)
        /\ mem'.text = IF IndexesText(mem)
                       THEN TextRemove(mem.text, i, mem.records[i].text, maxTerms) ELSE mem.text
        /\ mem'.vectors = IF mem.records[i].slot = 0 THEN mem.vectors
                          ELSE VectorRemove(mem.vectors, mem.records[i].slot)
    BY <1>1, <1>8 DEF DelRecord
  <2>2. /\ DOMAIN mem'.records = DOMAIN mem.records \ {i}
        /\ \A j \in DOMAIN mem'.records : mem'.records[j] = mem.records[j]
    BY <2>1 DEF Without
  <2>3. Toks(mem'.records, indexedUnder') = Without(Toks(mem.records, indexedUnder), i)
    BY <1>1, <1>2, <2>1, ToksWithout
  <2>4. ASSUME IndexesText(mem)
        PROVE  TextFits(mem'.text, Toks(mem'.records, indexedUnder'), stale')
    <3>1. PICK toks : toks = Toks(mem.records, indexedUnder)
      OBVIOUS
    <3>2. /\ i \in DOMAIN toks /\ toks[i] = Tokenize(mem.records[i].text, indexedUnder[i])
      BY <1>8, <3>1 DEF Toks
    <3>3. \/ Range(toks[i]) \subseteq Range(Tokenize(mem.records[i].text, maxTerms))
          \/ i \in stale'
      BY <1>1, <1>8, <2>4, <3>2 DEF LeftBehind
    <3>4. TextFits(mem.text, toks, stale) /\ stale \subseteq stale'
      BY <1>1, <2>4, <3>1 DEF IInv, TextInv
    <3>5. TextFits(TextRemove(mem.text, i, mem.records[i].text, maxTerms), Without(toks, i), stale')
      BY <1>2, <1>8, <3>2, <3>3, <3>4, TextRemoveFits
    <3> QED
      BY <2>1, <2>3, <2>4, <3>1, <3>5
  <2>5. TextInv'
    BY <2>1, <2>4 DEF TextInv, IndexesText
  <2>6. mem'.text.postings \in [Terms -> [Ids -> Nat]] /\ mem'.text.totalLen \in Nat
    <3>1. CASE IndexesText(mem)
      BY <2>4, <3>1, TextTypes
    <3>2. CASE ~IndexesText(mem)
      BY <2>1, <3>2 DEF IInv, TypeOK
    <3> QED
      BY <3>1, <3>2
  <2>7. PICK slots : slots = Slots(mem.records)
    OBVIOUS
  <2>8. i \in DOMAIN slots /\ slots[i] = mem.records[i].slot
    BY <1>8, <2>7 DEF Slots
  <2>9. VectorsFit(mem'.vectors, Without(slots, i), Held')
    <3>1. CASE mem.records[i].slot = 0
      <4>1. i \notin Owners(slots)
        BY <2>8, <3>1 DEF Owners
      <4> QED
        BY <1>6, <2>1, <2>7, <3>1, <4>1, WithoutNoneFits DEF IInv, VectorInv
    <3>2. CASE mem.records[i].slot # 0
      <4>1. i \in Owners(slots)
        BY <2>8, <3>2 DEF Owners
      <4> QED
        BY <1>6, <2>1, <2>7, <2>8, <3>2, <4>1, RemoveFits DEF IInv, VectorInv
    <3> QED
      BY <3>1, <3>2
  <2>10. VectorInv'
    BY <2>1, <2>7, <2>9, SlotsWithout DEF VectorInv
  <2>11. ~StoresVectors(mem) => mem'.vectors.data = <<>>
    <3> SUFFICES ASSUME ~StoresVectors(mem)
                 PROVE  mem'.vectors.data = <<>>
      OBVIOUS
    <3>1. mem.vectors.data = <<>>
      BY DEF IInv, TypeOK
    <3>2. mem.records[i].slot > 0 => mem.records[i].slot > Len(mem.vectors.data)
      BY <3>1
    <3> QED
      BY <1>2, <1>8, <2>1, <3>1, <3>2 DEF VectorRemove
  <2>12. ~IndexesText(mem) => mem'.text.docLen = [j \in {} |-> j]
    BY <2>1 DEF IInv, TypeOK
  <2> QED
    BY <1>1, <1>3, <1>4, <1>5, <2>1, <2>2, <2>5, <2>6, <2>10, <2>11, <2>12
<1> QED
  BY <1>7, <1>8

LEMMA DropInv ==
  ASSUME IInv, NEW i \in Ids, i \notin DOMAIN dump, Drop(i), UNCHANGED <<dump, limit>>,
         dead' = dead \ {i}
  PROVE  IInv'
<1>1. TypeOK'
  <2>1. IndexesText(mem)' = IndexesText(mem) /\ StoresVectors(mem)' = StoresVectors(mem)
    BY DropFacts DEF IndexesText, StoresVectors
  <2>2. mem'.vectors.live \in Nat /\ Range(mem'.vectors.data) \subseteq Vectors \cup {Zero}
    BY DropFacts, VectorTypes DEF VectorInv
  <2>3. /\ DOMAIN mem'.records \subseteq Ids
        /\ \A j \in DOMAIN mem'.records : mem'.records[j] \in Record
        /\ dead' \subseteq DOMAIN mem'.records
        /\ DOMAIN dump' \subseteq Ids \ DOMAIN mem'.records
        /\ DOMAIN embedded' = DOMAIN mem'.records \cup DOMAIN dump'
    <3>1. /\ DOMAIN mem'.records = DOMAIN mem.records \ {i}
          /\ \A j \in DOMAIN mem'.records : mem'.records[j] = mem.records[j]
          /\ DOMAIN embedded' = DOMAIN embedded \ {i}
      BY DropFacts
    <3>2. /\ DOMAIN mem.records \subseteq Ids /\ dead \subseteq DOMAIN mem.records
          /\ DOMAIN dump \subseteq Ids \ DOMAIN mem.records
          /\ DOMAIN embedded = DOMAIN mem.records \cup DOMAIN dump
          /\ \A j \in DOMAIN mem.records : mem.records[j] \in Record
      BY DEF IInv, TypeOK
    <3> QED
      BY <3>1, <3>2
  <2>4. limit' \in Nat /\ (limit' = 0 <=> DOMAIN dump' = {})
    BY DEF IInv, TypeOK
  <2>5. /\ mem'.mode \in Modes /\ mem'.nextId \in Nat \ {0} /\ maxTerms' \in Caps[mem'.mode]
        /\ now' \in 0 .. MaxTime /\ named' \subseteq Ids
    BY DropFacts DEF IInv, TypeOK
  <2> QED
    BY <2>1, <2>2, <2>3, <2>4, <2>5, DropFacts DEF TypeOK
<1>2. HistoryInv'
  <2>1. StoresVectors(mem)' = StoresVectors(mem)
    BY DropFacts DEF StoresVectors
  <2>2. DOMAIN dump \subseteq DOMAIN embedded'
    BY DropFacts DEF IInv, TypeOK
  <2> QED
    BY <2>1, <2>2, DropFacts DEF IInv, HistoryInv
<1>3. NamesInv'
  BY DropFacts DEF IInv, NamesInv
<1> QED
  BY <1>1, <1>2, <1>3, DropFacts DEF IInv

LEMMA DelInv ==
  ASSUME IInv, NEW i \in Ids, Del(i)
  PROVE  IInv'
<1>1. Drop(i) /\ UNCHANGED <<dead, dump, limit>> /\ dead = {} /\ DOMAIN dump = {}
  BY DEF Del, Idle, work
<1> QED
  BY <1>1, DropInv

LEMMA SweepRecordInv ==
  ASSUME IInv, NEW i \in Ids, SweepRecord(i)
  PROVE  IInv'
<1>1. Drop(i) /\ UNCHANGED <<dump, limit>> /\ dead' = dead \ {i} /\ i \in dead
  BY DEF SweepRecord
<1>2. i \notin DOMAIN dump
  BY <1>1 DEF IInv, TypeOK
<1> QED
  BY <1>1, <1>2, DropInv

LEMMA ExpireInv ==
  ASSUME IInv, NEW i \in Ids, NEW ttl \in Ttls \cup {0}, Expire(i, ttl)
  PROVE  IInv'
<1>1. PICK at : at = IF ttl = 0 THEN Never ELSE now + ttl
  OBVIOUS
<1>2. /\ i \in DOMAIN mem.records /\ mem' = SetDeadline(mem, i, at)
      /\ UNCHANGED <<maxTerms, now, dead, dump, limit, embedded, inherited, indexedUnder, stale, named>>
  BY <1>1 DEF Expire, Live, work, history
<1>3. at \in Nat \cup {Never}
  BY <1>1, BoundsAssumption DEF IInv, TypeOK
<1>4. PICK r : r = [text |-> mem.records[i].text, expireAt |-> at, slot |-> mem.records[i].slot]
  OBVIOUS
<1>5. /\ mem'.mode = mem.mode /\ mem'.nextId = mem.nextId /\ mem'.text = mem.text
      /\ mem'.vectors = mem.vectors /\ mem'.records = Bind(mem.records, i, r)
  BY <1>2, <1>4 DEF SetDeadline
<1>6. /\ DOMAIN mem'.records = DOMAIN mem.records /\ mem'.records[i] = r
      /\ \A j \in DOMAIN mem.records : j # i => mem'.records[j] = mem.records[j]
  BY <1>2, <1>5 DEF Bind
<1>7. r \in Record /\ r.text = mem.records[i].text /\ r.slot = mem.records[i].slot
  BY <1>2, <1>3, <1>4 DEF IInv, TypeOK, Record
<1>8. Toks(mem'.records, indexedUnder') = Toks(mem.records, indexedUnder)
      /\ Slots(mem'.records) = Slots(mem.records)
  BY <1>2, <1>6, <1>7 DEF Toks, Slots
<1>9. TypeOK'
  <2>1. \A j \in DOMAIN mem'.records : mem'.records[j] \in Record
    BY <1>6, <1>7 DEF IInv, TypeOK
  <2> QED
    BY <1>2, <1>5, <1>6, <2>1 DEF IInv, TypeOK, IndexesText, StoresVectors
<1>10. HistoryInv' /\ NamesInv'
  BY <1>2, <1>5 DEF IInv, HistoryInv, Held, NamesInv, StoresVectors
<1>11. TextInv' /\ VectorInv'
  BY <1>2, <1>5, <1>8 DEF IInv, TextInv, VectorInv, Held, IndexesText
<1> QED
  BY <1>9, <1>10, <1>11 DEF IInv

\* What is to be loaded is given the vector it had.
LEMMA RebuildInv ==
  ASSUME IInv, NEW max \in Nat \ {0}, Rebuild(max)
  PROVE  IInv'
<1>1. PICK live : live = Live(mem, now)
  OBVIOUS
<1>2. /\ dump' = RecordsForDump(mem, now) /\ limit' = IF live = {} THEN 0 ELSE max
      /\ mem' = Anew(mem) /\ embedded' = [i \in live |-> embedded[i]]
      /\ inherited' = [i \in live \cap DOMAIN inherited |-> inherited[i]]
      /\ indexedUnder' = [i \in {} |-> i] /\ stale' = {}
      /\ UNCHANGED <<maxTerms, now, dead, named>> /\ dead = {}
  BY <1>1 DEF Rebuild, Idle
<1>3. /\ mem'.mode = mem.mode /\ mem'.nextId = mem.nextId
      /\ mem'.records = [i \in {} |-> i]
      /\ mem'.text = NewMemory(mem.mode).text /\ mem'.vectors = NewMemory(mem.mode).vectors
  BY <1>2 DEF Anew, NewMemory
<1>4. /\ DOMAIN mem'.records = {} /\ DOMAIN Toks(mem'.records, indexedUnder') = {}
      /\ DOMAIN Slots(mem'.records) = {} /\ DOMAIN indexedUnder' = {}
  BY <1>2, <1>3 DEF Toks, Slots
<1>5. TextFits(mem'.text, Toks(mem'.records, indexedUnder'), stale')
  BY <1>3, <1>4, EmptyTextFits
<1>6. VectorsFit(mem'.vectors, Slots(mem'.records), Held')
  BY <1>3, <1>4, EmptyVectorsFit
<1>7. TextInv' /\ VectorInv'
  BY <1>5, <1>6 DEF TextInv, VectorInv
<1>8. live \subseteq DOMAIN mem.records /\ DOMAIN mem.records \subseteq DOMAIN embedded
  BY <1>1 DEF Live, IInv, TypeOK
<1>9. /\ DOMAIN embedded' = live /\ DOMAIN inherited' \subseteq live
      /\ \A i \in live : Held'[i] = Held[i]
      /\ DOMAIN dump' = live
      /\ \A i \in live : /\ dump'[i].text = mem.records[i].text
                         /\ dump'[i].expireAt = mem.records[i].expireAt
                         /\ dump'[i].vector = VectorOf(mem, mem.records[i])
  <2>1. Held' = Holding([i \in live |-> embedded[i]],
                        [i \in live \cap DOMAIN inherited |-> inherited[i]])
    BY <1>2 DEF Held
  <2>2. \A i \in live : Held'[i] = Held[i]
    BY <1>8, <2>1, HoldingRestricted DEF Held
  <2> QED
    BY <1>1, <1>2, <2>2 DEF RecordsForDump
<1>10. \A i \in live : VectorOf(mem, mem.records[i]) = Held[i]
  BY <1>8, FitFacts DEF VectorOf
<1>11. HistoryInv'
  <2>1. StoresVectors(mem)' = StoresVectors(mem)
    BY <1>3 DEF StoresVectors
  <2>2. \A i \in live : mem.records[i].text \in Texts /\ mem.records[i].expireAt \in Nat \cup {Never}
    BY <1>8 DEF IInv, TypeOK, Record
  <2>3. \A i \in DOMAIN embedded' : /\ Held'[i] \in Vectors \cup {None}
                                    /\ ~StoresVectors(mem) => Held'[i] = None
    BY <1>8, <1>9 DEF IInv, HistoryInv
  <2> QED
    BY <1>4, <1>9, <1>10, <2>1, <2>2, <2>3 DEF HistoryInv
<1>12. NamesInv'
  BY <1>2, <1>3, <1>8, <1>9 DEF IInv, NamesInv
<1>13. TypeOK'
  <2>1. /\ mem'.text.totalLen \in Nat /\ mem'.text.postings \in [Terms -> [Ids -> Nat]]
        /\ mem'.vectors.live \in Nat /\ Range(mem'.vectors.data) \subseteq Vectors \cup {Zero}
    BY <1>5, <1>6, TextTypes, VectorTypes
  <2>2. mem'.text.docLen = [i \in {} |-> i] /\ mem'.vectors.data = <<>>
    BY <1>3 DEF NewMemory
  <2>3. live \subseteq Ids
    BY <1>8 DEF IInv, TypeOK
  <2>4. limit' \in Nat /\ (limit' = 0 <=> live = {})
    BY <1>2
  <2>5. /\ mem'.mode \in Modes /\ mem'.nextId \in Nat \ {0} /\ maxTerms' \in Caps[mem'.mode]
        /\ now' \in 0 .. MaxTime /\ named' \subseteq Ids
    BY <1>2, <1>3 DEF IInv, TypeOK
  <2> QED
    BY <1>2, <1>4, <1>9, <2>1, <2>2, <2>3, <2>4, <2>5 DEF TypeOK
<1> QED
  BY <1>7, <1>11, <1>12, <1>13 DEF IInv

LEMMA LoadInv ==
  ASSUME IInv, NEW i \in Ids, Load(i)
  PROVE  IInv'
<1>1. /\ i \in DOMAIN dump /\ mem' = LoadRecord(mem, i, dump[i], limit)
      /\ dump' = Without(dump, i) /\ limit' = IF DOMAIN dump = {i} THEN 0 ELSE limit
      /\ indexedUnder' = Bind(indexedUnder, i, limit)
      /\ UNCHANGED <<maxTerms, now, dead, embedded, inherited, stale, named>>
  BY DEF Load
<1>2. /\ i \notin DOMAIN mem.records /\ i \in DOMAIN embedded /\ limit \in Nat \ {0}
      /\ DOMAIN indexedUnder = DOMAIN mem.records
      /\ dump[i].text \in Texts /\ dump[i].expireAt \in Nat \cup {Never}
      /\ dump[i].vector = Held[i] /\ Held[i] \in Vectors \cup {None}
      /\ ~StoresVectors(mem) => Held[i] = None
  BY <1>1 DEF IInv, TypeOK, HistoryInv
<1>3. PICK slot : slot = IF Held[i] # None THEN SlotFor(mem.vectors) ELSE 0
  OBVIOUS
<1>4. PICK r : r = [text |-> dump[i].text, expireAt |-> dump[i].expireAt, slot |-> slot]
  OBVIOUS
<1>5. /\ mem'.mode = mem.mode /\ mem'.nextId = mem.nextId
      /\ mem'.records = Bind(mem.records, i, r)
      /\ mem'.text = IF IndexesText(mem) THEN TextInsert(mem.text, i, dump[i].text, limit) ELSE mem.text
      /\ mem'.vectors = IF Held[i] # None THEN VectorInsert(mem.vectors, Held[i])
                        ELSE mem.vectors
  <2>1. (dump[i].vector # None /\ StoresVectors(mem)) <=> Held[i] # None
    BY <1>2
  <2> QED
    BY <1>1, <1>2, <1>3, <1>4, <2>1 DEF LoadRecord
<1>6. /\ DOMAIN mem'.records = DOMAIN mem.records \cup {i} /\ mem'.records[i] = r
      /\ \A j \in DOMAIN mem.records : mem'.records[j] = mem.records[j]
      /\ DOMAIN indexedUnder' = DOMAIN mem'.records
      /\ indexedUnder'[i] = limit
      /\ \A j \in DOMAIN mem.records : indexedUnder'[j] = indexedUnder[j]
  BY <1>1, <1>2, <1>5 DEF Bind
<1>7. /\ DOMAIN dump' = DOMAIN dump \ {i}
      /\ \A j \in DOMAIN dump' : dump'[j] = dump[j]
  BY <1>1 DEF Without
<1>8. ASSUME IndexesText(mem)
      PROVE  TextFits(mem'.text, Toks(mem'.records, indexedUnder'), stale')
  <2>1. PICK toks : toks = Toks(mem.records, indexedUnder)
    OBVIOUS
  <2>2. i \notin DOMAIN toks
    BY <1>2, <2>1 DEF Toks
  <2>3. TextFits(mem.text, toks, stale)
    BY <1>8, <2>1 DEF IInv, TextInv
  <2>4. TextFits(TextInsert(mem.text, i, dump[i].text, limit),
                 Bind(toks, i, Tokenize(dump[i].text, limit)), stale)
    BY <1>2, <2>2, <2>3, TextInsertFits
  <2>5. Toks(mem'.records, indexedUnder') = Bind(toks, i, Tokenize(r.text, limit))
    BY <1>1, <1>2, <1>5, <2>1, ToksNew
  <2>6. r.text = dump[i].text
    BY <1>4
  <2> QED
    BY <1>1, <1>5, <1>8, <2>4, <2>5, <2>6
<1>9. TextInv'
  BY <1>5, <1>8 DEF TextInv, IndexesText
<1>10. PICK slots : slots = Slots(mem.records)
  OBVIOUS
<1>11. /\ Slots(mem'.records) = Bind(slots, i, slot)
       /\ i \notin Owners(slots)
  <2>1. r.slot = slot
    BY <1>4
  <2>2. i \notin DOMAIN slots
    BY <1>2, <1>10 DEF Slots
  <2> QED
    BY <1>5, <1>10, <2>1, <2>2, SlotsBind DEF Owners
<1>12. VectorsFit(mem'.vectors, Bind(slots, i, slot), Held)
  <2>1. VectorsFit(mem.vectors, slots, Held)
    BY <1>10 DEF IInv, VectorInv
  <2>2. CASE Held[i] # None
    <3>1. Held[i] \in Vectors
      BY <1>2, <2>2
    <3> QED
      BY <1>3, <1>5, <1>11, <2>1, <2>2, <3>1, InsertFits
  <2>3. CASE Held[i] = None
    BY <1>3, <1>5, <1>11, <2>1, <2>3, BindNoneFits
  <2> QED
    BY <2>2, <2>3
<1>13. VectorInv'
  BY <1>1, <1>11, <1>12 DEF VectorInv, Held
<1>14. r \in Record
  <2>1. slot \in Nat
    <3>1. Bind(slots, i, slot)[i] = slot /\ i \in DOMAIN Bind(slots, i, slot)
      BY DEF Bind
    <3> QED
      BY <1>12, <3>1 DEF VectorsFit
  <2> QED
    BY <1>2, <1>4, <2>1 DEF Record
<1>15. TypeOK'
  <2>1. /\ mem'.text.totalLen \in Nat /\ mem'.text.postings \in [Terms -> [Ids -> Nat]]
    <3>1. CASE IndexesText(mem)
      BY <1>8, <3>1, TextTypes
    <3>2. CASE ~IndexesText(mem)
      BY <1>5, <3>2 DEF IInv, TypeOK
    <3> QED
      BY <3>1, <3>2
  <2>2. mem'.vectors.live \in Nat /\ Range(mem'.vectors.data) \subseteq Vectors \cup {Zero}
    BY <1>12, VectorTypes
  <2>3. /\ ~IndexesText(mem)' => mem'.text.docLen = [j \in {} |-> j]
        /\ ~StoresVectors(mem)' => mem'.vectors.data = <<>>
    BY <1>2, <1>5 DEF IInv, TypeOK, IndexesText, StoresVectors
  <2>4. limit' \in Nat /\ (limit' = 0 <=> DOMAIN dump' = {})
    BY <1>1, <1>2, <1>7
  <2>5. /\ mem'.mode \in Modes /\ mem'.nextId \in Nat \ {0} /\ maxTerms' \in Caps[mem'.mode]
        /\ now' \in 0 .. MaxTime /\ named' \subseteq Ids /\ stale' \subseteq Ids
    BY <1>1, <1>5 DEF IInv, TypeOK
  <2>6. /\ DOMAIN mem'.records \subseteq Ids
        /\ \A j \in DOMAIN mem'.records : mem'.records[j] \in Record
        /\ dead' \subseteq DOMAIN mem'.records
        /\ DOMAIN dump' \subseteq Ids \ DOMAIN mem'.records
        /\ DOMAIN embedded' = DOMAIN mem'.records \cup DOMAIN dump'
        /\ DOMAIN inherited' \subseteq DOMAIN embedded'
    BY <1>1, <1>6, <1>7, <1>14 DEF IInv, TypeOK
  <2> QED
    BY <1>6, <2>1, <2>2, <2>3, <2>4, <2>5, <2>6 DEF TypeOK
<1>16. HistoryInv'
  <2>1. \A j \in DOMAIN indexedUnder' : indexedUnder'[j] \in Nat \ {0}
    BY <1>2, <1>6 DEF IInv, HistoryInv
  <2>2. StoresVectors(mem)' = StoresVectors(mem)
    BY <1>5 DEF StoresVectors
  <2> QED
    BY <1>1, <1>7, <2>1, <2>2 DEF IInv, HistoryInv, Held
<1>17. NamesInv'
  BY <1>1, <1>5 DEF IInv, NamesInv
<1> QED
  BY <1>9, <1>13, <1>15, <1>16, <1>17 DEF IInv

\* A request that is refused takes an id at most.
LEMMA RefusedInv ==
  ASSUME IInv, NEW q \in Requests, Add(q), Refused(mem, q, now)
  PROVE  IInv'
<1>1. /\ mem'.mode = mem.mode /\ mem'.records = mem.records /\ mem'.text = mem.text
      /\ mem'.vectors = mem.vectors
      /\ mem'.nextId = IF q.id = Unnamed THEN mem.nextId + 1 ELSE mem.nextId
  BY DEF Add, AddRecord
<1>2. UNCHANGED <<maxTerms, now, dead, dump, limit, embedded, inherited, indexedUnder, stale, named>>
  BY DEF Add, work, history
<1>3. mem.nextId \in Nat \ {0} /\ mem'.nextId \in Nat \ {0} /\ mem.nextId <= mem'.nextId
  BY <1>1 DEF IInv, TypeOK
<1>4. TypeOK'
  BY <1>1, <1>2, <1>3 DEF IInv, TypeOK, IndexesText, StoresVectors
<1>5. HistoryInv'
  BY <1>1, <1>2 DEF IInv, HistoryInv, Held, StoresVectors
<1>6. NamesInv'
  <2>1. \A i \in Ids : i \in mem'.nextId .. MaxAssigned => i \in mem.nextId .. MaxAssigned
    BY <1>3, BoundsAssumption DEF Ids
  <2>2. DOMAIN embedded \subseteq Ids
    BY DEF IInv, TypeOK
  <2> QED
    BY <1>2, <2>1, <2>2 DEF IInv, NamesInv
<1>7. TextInv' /\ VectorInv'
  BY <1>1, <1>2 DEF IInv, TextInv, VectorInv, Held, IndexesText
<1> QED
  BY <1>4, <1>5, <1>6, <1>7 DEF IInv

\* A request that is admitted: the record is new or replaces one, with its
\* text, its vector and what the observer knows of both.
LEMMA AdmittedInv ==
  ASSUME IInv, NEW q \in Requests, Add(q), ~Refused(mem, q, now)
  PROVE  IInv'
<1>1. PICK i : i = IdOf(mem, q)
  OBVIOUS
<1>2. /\ q \in Request /\ q.id \in Ids \cup {Unnamed} /\ q.text \in Texts
      /\ q.vector \in Vectors \cup {None, Unfit} /\ q.ttl \in Ttls \cup {Never}
  BY RequestsAssumption DEF Request
<1>3. /\ dead = {} /\ DOMAIN dump = {} /\ (q.id = Unnamed => i <= MaxAssigned)
      /\ mem' = AddRecord(mem, q, now, maxTerms)
      /\ stale' = stale \cup LeftBehind(i)
      /\ indexedUnder' = Bind(indexedUnder, i, maxTerms)
      /\ embedded' = Bind(embedded, i, IF q.vector # None THEN q.vector
                                       ELSE IF i \in Live(mem, now) THEN embedded[i] ELSE None)
      /\ inherited' = IF q.vector # None THEN Without(inherited, i)
                      ELSE IF Inherits(i, q) THEN Bind(inherited, i, VectorOf(mem, mem.records[i]))
                      ELSE inherited
      /\ named' = IF q.id \in mem.nextId .. MaxAssigned THEN named \cup {i} ELSE named
      /\ UNCHANGED <<maxTerms, now, dead, dump, limit>>
  BY <1>1 DEF Add, Idle, work
<1>4. /\ DOMAIN mem.records \subseteq Ids /\ DOMAIN indexedUnder = DOMAIN mem.records
      /\ DOMAIN embedded = DOMAIN mem.records
      /\ \A j \in DOMAIN mem.records : /\ mem.records[j].text \in Texts
                                       /\ mem.records[j].expireAt \in Nat \cup {Never}
                                       /\ mem.records[j].slot \in Nat
      /\ stale \subseteq Ids /\ named \subseteq Ids /\ now \in Nat
      /\ maxTerms \in Nat \ {0} /\ mem.nextId \in Nat \ {0}
  BY <1>3, BoundsAssumption DEF IInv, TypeOK, Record
<1>5. i \in Ids /\ (q.id # Unnamed => i = q.id) /\ (q.id = Unnamed => i = mem.nextId)
  BY <1>1, <1>2, <1>3, <1>4, BoundsAssumption DEF IdOf, Ids
<1>6. q.vector # None => q.vector \in Vectors /\ StoresVectors(mem)
  BY <1>2 DEF Refused
<1>7. PICK r : r = Updated(mem, i, q, now)
  OBVIOUS
<1>8. /\ mem'.mode = mem.mode /\ mem'.records = Bind(mem.records, i, r)
      /\ mem'.text = StoreText(mem, i, q, maxTerms)
      /\ mem'.vectors = StoreVector(mem, i, q)
      /\ mem'.nextId = IF q.id = Unnamed THEN mem.nextId + 1 ELSE mem.nextId
  BY <1>1, <1>3, <1>7 DEF AddRecord
<1>9. PICK slot : slot = r.slot
  OBVIOUS
<1>10. r.text = q.text /\ r.expireAt \in Nat \cup {Never}
       /\ r = [text |-> r.text, expireAt |-> r.expireAt, slot |-> slot]
       /\ (i \in DOMAIN mem.records =>
             slot = IF q.vector # None /\ mem.records[i].slot = 0 THEN SlotFor(mem.vectors)
                    ELSE mem.records[i].slot)
       /\ (i \notin DOMAIN mem.records =>
             slot = IF q.vector # None THEN SlotFor(mem.vectors) ELSE 0)
  <2>1. PICK old : old = IF i \in DOMAIN mem.records THEN mem.records[i] ELSE NewRecord(q.text)
    OBVIOUS
  <2>2. old.expireAt \in Nat \cup {Never}
    BY <1>4, <2>1 DEF NewRecord
  <2>3. r = [text |-> q.text,
             expireAt |-> IF q.ttl = Never THEN old.expireAt ELSE now + q.ttl,
             slot |-> IF q.vector # None /\ old.slot = 0 THEN SlotFor(mem.vectors) ELSE old.slot]
    BY <1>7, <2>1 DEF Updated
  <2>4. i \notin DOMAIN mem.records => old.slot = 0
    BY <2>1 DEF NewRecord
  <2>5. q.ttl # Never => now + q.ttl \in Nat
    <3>1. q.ttl # Never => q.ttl \in Ttls
      BY <1>2
    <3>2. \A ttl \in Ttls : ttl \in Nat
      BY BoundsAssumption
    <3> QED
      BY <1>4, <3>1, <3>2
  <2> QED
    BY <1>9, <2>1, <2>2, <2>3, <2>4, <2>5
<1>11. /\ DOMAIN mem'.records = DOMAIN mem.records \cup {i} /\ mem'.records[i] = r
       /\ \A j \in DOMAIN mem.records : j # i => mem'.records[j] = mem.records[j]
       /\ DOMAIN indexedUnder' = DOMAIN mem'.records /\ indexedUnder'[i] = maxTerms
       /\ \A j \in DOMAIN mem.records : j # i => indexedUnder'[j] = indexedUnder[j]
       /\ DOMAIN embedded' = DOMAIN mem'.records
       /\ \A j \in DOMAIN mem.records : j # i => Held'[j] = Held[j]
       /\ DOMAIN inherited' \subseteq DOMAIN embedded'
       /\ Held'[i] = IF q.vector # None THEN q.vector
                     ELSE IF i \in DOMAIN mem.records THEN Held[i] ELSE None
  <2>1. /\ DOMAIN mem'.records = DOMAIN mem.records \cup {i} /\ mem'.records[i] = r
        /\ \A j \in DOMAIN mem.records : j # i => mem'.records[j] = mem.records[j]
        /\ DOMAIN indexedUnder' = DOMAIN mem'.records /\ indexedUnder'[i] = maxTerms
        /\ \A j \in DOMAIN mem.records : j # i => indexedUnder'[j] = indexedUnder[j]
    BY <1>3, <1>4, <1>8 DEF Bind
  <2>2. /\ DOMAIN embedded' = DOMAIN mem'.records
        /\ \A j \in DOMAIN mem.records : j # i => embedded'[j] = embedded[j]
        /\ embedded'[i] = IF q.vector # None THEN q.vector
                          ELSE IF i \in Live(mem, now) THEN embedded[i] ELSE None
    BY <1>3, <1>4, <2>1 DEF Bind
  <2>3. DOMAIN inherited \subseteq DOMAIN mem.records
    BY <1>4 DEF IInv, TypeOK
  <2>4. /\ \A j : j # i => (j \in DOMAIN inherited' <=> j \in DOMAIN inherited)
        /\ \A j \in DOMAIN inherited : j # i => inherited'[j] = inherited[j]
        /\ q.vector # None => i \notin DOMAIN inherited'
        /\ q.vector = None /\ Inherits(i, q) =>
             i \in DOMAIN inherited' /\ inherited'[i] = VectorOf(mem, mem.records[i])
        /\ q.vector = None /\ ~Inherits(i, q) => inherited' = inherited
    BY <1>3 DEF Bind, Without
  <2>5. DOMAIN inherited' \subseteq DOMAIN embedded'
    BY <2>1, <2>2, <2>3, <2>4
  <2>6. /\ \A j \in DOMAIN mem.records :
             Held[j] = IF j \in DOMAIN inherited THEN inherited[j] ELSE embedded[j]
        /\ \A j \in DOMAIN embedded' :
             Held'[j] = IF j \in DOMAIN inherited' THEN inherited'[j] ELSE embedded'[j]
    BY <1>4, HoldingFacts DEF Held
  <2>7. \A j \in DOMAIN mem.records : j # i => Held'[j] = Held[j]
    BY <2>1, <2>2, <2>4, <2>6
  <2>8. Held'[i] = IF i \in DOMAIN inherited' THEN inherited'[i] ELSE embedded'[i]
    BY <2>1, <2>2, <2>6
  <2>9. CASE q.vector # None
    BY <2>1, <2>2, <2>4, <2>5, <2>7, <2>8, <2>9
  <2>10. CASE q.vector = None /\ Inherits(i, q)
    <3>1. i \in DOMAIN mem.records /\ mem.records[i].slot # 0
      BY <2>10 DEF Inherits, Dead
    <3>2. VectorOf(mem, mem.records[i]) = Held[i]
      BY <3>1, FitFacts DEF VectorOf
    <3> QED
      BY <2>1, <2>2, <2>4, <2>5, <2>7, <2>8, <2>10, <3>1, <3>2
  <2>11. CASE q.vector = None /\ ~Inherits(i, q)
    <3>1. inherited' = inherited
      BY <2>4, <2>11
    <3>2. CASE i \in Live(mem, now)
      <4>1. i \in DOMAIN mem.records
        BY <3>2 DEF Live
      <4>2. Held'[i] = Held[i]
        BY <2>2, <2>6, <2>8, <2>11, <3>1, <3>2, <4>1
      <4> QED
        BY <2>1, <2>2, <2>5, <2>7, <2>11, <4>1, <4>2
    <3>3. CASE i \in DOMAIN mem.records /\ i \notin Live(mem, now)
      <4>1. mem.records[i].slot = 0
        BY <2>11, <3>3 DEF Inherits, Dead
      <4>2. Held[i] = None
        BY <3>3, <4>1, FitFacts
      <4>3. embedded'[i] = None
        BY <2>2, <2>11, <3>3
      <4>4. Held'[i] = Held[i]
        BY <2>6, <2>8, <3>1, <3>3, <4>2, <4>3
      <4> QED
        BY <2>1, <2>2, <2>5, <2>7, <2>11, <3>3, <4>4
    <3>4. CASE i \notin DOMAIN mem.records
      <4>1. embedded'[i] = None
        BY <2>2, <2>11, <3>4 DEF Live
      <4>2. Held'[i] = None
        BY <2>3, <2>8, <3>1, <3>4, <4>1
      <4> QED
        BY <2>1, <2>2, <2>5, <2>7, <2>11, <3>4, <4>2
    <3> QED
      BY <3>2, <3>3, <3>4
  <2> QED
    BY <2>9, <2>10, <2>11
<1>12. ASSUME IndexesText(mem)
       PROVE  TextFits(mem'.text, Toks(mem'.records, indexedUnder'), stale')
  <2>1. PICK toks : toks = Toks(mem.records, indexedUnder)
    OBVIOUS
  <2>2. TextFits(mem.text, toks, stale) /\ stale \subseteq stale'
    BY <1>3, <1>12, <2>1 DEF IInv, TextInv
  <2>3. /\ Toks(mem'.records, indexedUnder') = Bind(Without(toks, i), i, Tokenize(q.text, maxTerms))
        /\ i \notin DOMAIN mem.records =>
             Toks(mem'.records, indexedUnder') = Bind(toks, i, Tokenize(q.text, maxTerms))
    BY <1>3, <1>4, <1>8, <1>10, <2>1, ToksNew
  <2>4. CASE i \in DOMAIN mem.records
    <3>1. i \in DOMAIN toks /\ toks[i] = Tokenize(mem.records[i].text, indexedUnder[i])
      BY <2>1, <2>4 DEF Toks
    <3>2. \/ Range(toks[i]) \subseteq Range(Tokenize(mem.records[i].text, maxTerms))
          \/ i \in stale'
      BY <1>3, <1>12, <2>4, <3>1 DEF LeftBehind
    <3>3. PICK x : x = TextRemove(mem.text, i, mem.records[i].text, maxTerms)
      OBVIOUS
    <3>4. TextFits(x, Without(toks, i), stale')
      BY <1>4, <2>2, <2>4, <3>1, <3>2, <3>3, TextRemoveFits
    <3>5. i \notin DOMAIN Without(toks, i)
      BY DEF Without
    <3>6. TextFits(TextInsert(x, i, q.text, maxTerms),
                   Bind(Without(toks, i), i, Tokenize(q.text, maxTerms)), stale')
      BY <1>2, <1>4, <1>5, <3>4, <3>5, TextInsertFits
    <3>7. mem'.text = TextInsert(x, i, q.text, maxTerms)
      BY <1>8, <1>12, <2>4, <3>3 DEF StoreText
    <3> QED
      BY <2>3, <3>6, <3>7
  <2>5. CASE i \notin DOMAIN mem.records
    <3>1. LeftBehind(i) = {}
      BY <2>5 DEF LeftBehind
    <3>2. stale' = stale
      BY <1>3, <3>1
    <3>3. i \notin DOMAIN toks
      BY <2>1, <2>5 DEF Toks
    <3>4. TextFits(TextInsert(mem.text, i, q.text, maxTerms),
                   Bind(toks, i, Tokenize(q.text, maxTerms)), stale)
      BY <1>2, <1>4, <1>5, <2>2, <3>3, TextInsertFits
    <3>5. mem'.text = TextInsert(mem.text, i, q.text, maxTerms)
      BY <1>8, <1>12, <2>5 DEF StoreText
    <3> QED
      BY <2>3, <2>5, <3>2, <3>4, <3>5
  <2> QED
    BY <2>4, <2>5
<1>13. TextInv'
  BY <1>8, <1>12 DEF TextInv, IndexesText
<1>14. PICK slots : slots = Slots(mem.records)
  OBVIOUS
<1>15. /\ Slots(mem'.records) = Bind(slots, i, slot)
       /\ DOMAIN slots = DOMAIN mem.records
       /\ \A j \in DOMAIN slots : slots[j] = mem.records[j].slot
       /\ VectorsFit(mem.vectors, slots, Held)
  <2>1. Slots(Bind(mem.records, i, r)) = Bind(Slots(mem.records), i, r.slot)
    BY SlotsBind
  <2>2. VectorsFit(mem.vectors, Slots(mem.records), Held)
    BY DEF IInv, VectorInv
  <2>3. DOMAIN slots = DOMAIN mem.records /\ \A j \in DOMAIN slots : slots[j] = mem.records[j].slot
    BY <1>14 DEF Slots
  <2> QED
    BY <1>8, <1>9, <1>14, <2>1, <2>2, <2>3
<1>16. \A j \in DOMAIN slots : j # i => Held'[j] = Held[j]
  BY <1>11, <1>15
<1>17. VectorsFit(mem'.vectors, Bind(slots, i, slot), Held')
  <2>1. CASE q.vector = None
    <3>1. mem'.vectors = mem.vectors
      BY <1>8, <2>1 DEF StoreVector
    <3>2. CASE i \in DOMAIN mem.records
      <4>1. slot = slots[i] /\ Held'[i] = Held[i]
        BY <1>10, <1>11, <1>15, <2>1, <3>2
      <4>2. /\ DOMAIN Bind(slots, i, slot) = DOMAIN slots
            /\ \A j \in DOMAIN slots : Bind(slots, i, slot)[j] = slots[j]
        BY <1>15, <3>2, <4>1 DEF Bind
      <4>3. \A j \in DOMAIN slots : Held'[j] = Held[j]
        BY <1>16, <4>1
      <4> QED
        BY <1>15, <3>1, <4>2, <4>3, SameVectorsFit
    <3>3. CASE i \notin DOMAIN mem.records
      <4>1. slot = 0 /\ Held'[i] = None /\ i \notin Owners(slots)
        BY <1>10, <1>11, <1>15, <2>1, <3>3 DEF Owners
      <4> QED
        BY <1>5, <1>15, <1>16, <3>1, <4>1, BindNoneFits
    <3> QED
      BY <3>2, <3>3
  <2>2. CASE q.vector # None
    <3>1. q.vector \in Vectors /\ Held'[i] = q.vector
      BY <1>6, <1>11, <2>2
    <3>2. CASE i \in Owners(slots)
      <4>1. i \in DOMAIN mem.records /\ mem.records[i].slot # 0 /\ slot = slots[i]
        BY <1>10, <1>15, <3>2 DEF Owners
      <4>2. mem'.vectors = VectorOverwrite(mem.vectors, slots[i], q.vector)
        BY <1>8, <1>15, <2>2, <4>1 DEF StoreVector
      <4>3. VectorsFit(mem'.vectors, slots, Held')
        BY <1>15, <1>16, <3>1, <3>2, <4>2, OverwriteFits
      <4>4. /\ DOMAIN Bind(slots, i, slot) = DOMAIN slots
            /\ \A j \in DOMAIN slots : Bind(slots, i, slot)[j] = slots[j]
        BY <1>15, <4>1 DEF Bind
      <4> QED
        BY <4>3, <4>4, SameVectorsFit
    <3>3. CASE i \notin Owners(slots)
      <4>1. i \notin DOMAIN mem.records \/ mem.records[i].slot = 0
        BY <1>15, <3>3 DEF Owners
      <4>2. slot = SlotFor(mem.vectors)
        BY <1>10, <2>2, <4>1
      <4>3. mem'.vectors = VectorInsert(mem.vectors, q.vector)
        BY <1>8, <2>2, <4>1 DEF StoreVector
      <4> QED
        BY <1>5, <1>15, <1>16, <3>1, <3>3, <4>2, <4>3, InsertFits
    <3> QED
      BY <3>2, <3>3
  <2> QED
    BY <2>1, <2>2
<1>18. VectorInv'
  BY <1>15, <1>17 DEF VectorInv
<1>19. r \in Record
  <2>1. slot \in Nat
    <3>1. Bind(slots, i, slot)[i] = slot /\ i \in DOMAIN Bind(slots, i, slot)
      BY DEF Bind
    <3> QED
      BY <1>17, <3>1 DEF VectorsFit
  <2> QED
    BY <1>2, <1>10, <2>1 DEF Record
<1>20. StoresVectors(mem)' = StoresVectors(mem) /\ IndexesText(mem)' = IndexesText(mem)
  BY <1>8 DEF StoresVectors, IndexesText
<1>21. TypeOK'
  <2>1. /\ mem'.text.totalLen \in Nat /\ mem'.text.postings \in [Terms -> [Ids -> Nat]]
    <3>1. CASE IndexesText(mem)
      BY <1>12, <3>1, TextTypes
    <3>2. CASE ~IndexesText(mem)
      BY <1>8, <3>2 DEF IInv, TypeOK, StoreText
    <3> QED
      BY <3>1, <3>2
  <2>2. mem'.vectors.live \in Nat /\ Range(mem'.vectors.data) \subseteq Vectors \cup {Zero}
    BY <1>17, VectorTypes
  <2>3. ~IndexesText(mem) => mem'.text.docLen = [j \in {} |-> j]
    BY <1>8 DEF IInv, TypeOK, StoreText
  <2>4. ~StoresVectors(mem) => mem'.vectors.data = <<>>
    BY <1>6, <1>8 DEF IInv, TypeOK, StoreVector
  <2>5. limit' \in Nat /\ (limit' = 0 <=> DOMAIN dump' = {})
    BY <1>3 DEF IInv, TypeOK
  <2>6. stale' \subseteq Ids /\ named' \subseteq Ids
    BY <1>3, <1>4, <1>5 DEF LeftBehind
  <2>7. /\ mem'.mode \in Modes /\ mem'.nextId \in Nat \ {0} /\ maxTerms' \in Caps[mem'.mode]
        /\ now' \in 0 .. MaxTime
    BY <1>3, <1>8 DEF IInv, TypeOK
  <2>8. /\ DOMAIN mem'.records \subseteq Ids
        /\ \A j \in DOMAIN mem'.records : mem'.records[j] \in Record
        /\ dead' \subseteq DOMAIN mem'.records
        /\ DOMAIN dump' \subseteq Ids \ DOMAIN mem'.records
        /\ DOMAIN embedded' = DOMAIN mem'.records \cup DOMAIN dump'
    BY <1>3, <1>4, <1>5, <1>11, <1>19 DEF IInv, TypeOK
  <2> QED
    BY <1>11, <1>20, <2>1, <2>2, <2>3, <2>4, <2>5, <2>6, <2>7, <2>8 DEF TypeOK
<1>22. HistoryInv'
  <2>1. \A j \in DOMAIN indexedUnder' : indexedUnder'[j] \in Nat \ {0}
    BY <1>4, <1>11 DEF IInv, HistoryInv
  <2>2. \A j \in DOMAIN embedded' : /\ Held'[j] \in Vectors \cup {None}
                                    /\ ~StoresVectors(mem) => Held'[j] = None
    BY <1>4, <1>6, <1>11 DEF IInv, HistoryInv
  <2>3. DOMAIN dump' = {}
    BY <1>3
  <2> QED
    BY <1>20, <2>1, <2>2, <2>3 DEF HistoryInv
<1>23. NamesInv'
  <2> SUFFICES ASSUME NEW j \in DOMAIN embedded', j \in mem'.nextId .. MaxAssigned
               PROVE  j \in named'
    BY DEF NamesInv
  <2>1. j \in mem.nextId .. MaxAssigned
    BY <1>4, <1>8, BoundsAssumption
  <2>2. CASE j # i
    BY <1>3, <1>4, <1>11, <2>1, <2>2 DEF IInv, NamesInv
  <2>3. CASE j = i
    <3>1. q.id # Unnamed
      BY <1>4, <1>5, <1>8, <2>3
    <3> QED
      BY <1>3, <1>5, <2>1, <2>3, <3>1
  <2> QED
    BY <2>2, <2>3
<1> QED
  BY <1>13, <1>18, <1>21, <1>22, <1>23 DEF IInv

LEMMA StepInv == IInv /\ [Next]_vars => IInv'
<1> SUFFICES ASSUME IInv, [Next]_vars
             PROVE  IInv'
  OBVIOUS
<1>1. CASE \E q \in Requests : Add(q)
  BY <1>1, RefusedInv, AdmittedInv
<1>2. CASE \E i \in Ids : Del(i)
  BY <1>2, DelInv
<1>3. CASE \E i \in Ids, ttl \in Ttls \cup {0} : Expire(i, ttl)
  BY <1>3, ExpireInv
<1>4. CASE Copy \/ Restart
  <2>1. maxTerms \in Nat \ {0} /\ Unlimited \in Nat \ {0}
    BY BoundsAssumption, TextsAssumption DEF IInv, TypeOK
  <2> QED
    BY <1>4, <2>1, RebuildInv DEF Copy, Restart
<1>5. CASE \E i \in Ids : SweepRecord(i) \/ Load(i)
  BY <1>5, SweepRecordInv, LoadInv
<1>6. CASE Sweep \/ (\E max \in Caps[mem.mode] : ConfigSet(max)) \/ Tick \/ UNCHANGED vars
  BY <1>6, QuietInv
<1> QED
  BY <1>1, <1>2, <1>3, <1>4, <1>5, <1>6 DEF Next, Proceed

-----------------------------------------------------------------------------
(***************************************************************************)
(* The theorems.                                                           *)
(***************************************************************************)
LEMMA Invariance == Spec => []IInv
<1>1. Init => IInv
  BY InitInv
<1>2. IInv /\ [Next]_vars => IInv'
  BY StepInv
<1> QED
  BY <1>1, <1>2, PTL DEF Spec

\* Every variable keeps its type, a sweep works on records that are there, a
\* rebuilding on records that are not there yet, and the index a mode does not
\* keep stays empty (add, del, sweep_expired, try_clone and load_record).
THEOREM TypeCorrect == Spec => []TypeOK
<1>1. IInv => TypeOK
  BY DEF IInv
<1> QED
  BY <1>1, Invariance, PTL

\* The slots as the invariant has them, read off the records.
LEMMA VectorsAgree == IInv => VectorIndexAgrees
<1> SUFFICES ASSUME IInv
             PROVE  VectorIndexAgrees
  OBVIOUS
<1>1. PICK slots : slots = Slots(mem.records)
  OBVIOUS
<1>2. /\ DOMAIN slots = DOMAIN mem.records
      /\ \A i \in DOMAIN mem.records : slots[i] = mem.records[i].slot
      /\ VectorsFit(mem.vectors, slots, Held)
  BY <1>1 DEF Slots, IInv, VectorInv
<1>3. PICK owners : owners = {i \in DOMAIN mem.records : mem.records[i].slot # 0}
  OBVIOUS
<1>4. PICK used : used = {mem.records[i].slot : i \in owners}
  OBVIOUS
<1>5. Owners(slots) = owners /\ \A i \in owners : i \in DOMAIN mem.records /\ slots[i] = mem.records[i].slot
  BY <1>2, <1>3 DEF Owners
<1>6. SlotsOwned
  <2>1. \A i, j \in owners : mem.records[i].slot = mem.records[j].slot => i = j
    BY <1>2, <1>5 DEF VectorsFit
  <2>2. used \cap Range(mem.vectors.free) = {}
    BY <1>2, <1>4, <1>5 DEF VectorsFit
  <2>3. Range(mem.vectors.free) \subseteq DOMAIN mem.vectors.data
    <3>1. mem.vectors.free \in Seq(DOMAIN mem.vectors.data)
      BY <1>2 DEF VectorsFit
    <3> QED
      BY <3>1 DEF Range
  <2>4. used \subseteq DOMAIN mem.vectors.data
    BY <1>2, <1>4, <1>5 DEF VectorsFit
  <2>5. \A n \in DOMAIN mem.vectors.data : n \in Range(mem.vectors.free) \/ n \in used
    BY <1>2, <1>4, <1>5 DEF VectorsFit
  <2>6. used \cup Range(mem.vectors.free) = DOMAIN mem.vectors.data
    BY <2>3, <2>4, <2>5
  <2>7. IsInjective(mem.vectors.free) /\ mem.vectors.live = Cardinality(owners)
    BY <1>2, <1>5 DEF VectorsFit
  <2> QED
    BY <1>3, <1>4, <2>1, <2>2, <2>6, <2>7 DEF SlotsOwned
<1>7. VectorIsOwn
  <2> SUFFICES ASSUME StoresVectors(mem), NEW i \in Live(mem, now) \ DOMAIN inherited
               PROVE  /\ i \in DOMAIN SearchVector(mem, now) <=> embedded[i] # None
                      /\ i \in DOMAIN SearchVector(mem, now) => SearchVector(mem, now)[i] = embedded[i]
    BY DEF VectorIsOwn
  <2>1. i \in DOMAIN mem.records /\ i \in DOMAIN embedded
    BY DEF Live, IInv, TypeOK
  <2>2. Held[i] = embedded[i]
    BY <2>1, HoldingFacts DEF Held
  <2>3. /\ mem.records[i].slot = 0 <=> embedded[i] = None
        /\ mem.records[i].slot # 0 => mem.vectors.data[mem.records[i].slot] = embedded[i]
    BY <2>1, <2>2, FitFacts
  <2> QED
    BY <2>3 DEF SearchVector
<1> QED
  BY <1>6, <1>7 DEF VectorIndexAgrees

\* The slots are shared out without overlap or loss, the counter is exact, and
\* a search compares the query with the vector each live record was last given,
\* but for the records that inherited an expired one's (insert, overwrite and
\* remove in vector.rs and their callers).
THEOREM VectorIndexCorrect == Spec => []VectorIndexAgrees
  BY Invariance, VectorsAgree, PTL

\* A term that is searched for has a posting where a live record has it.
LEMMA TextAgrees == IInv => TextIndexAgrees
<1> SUFFICES ASSUME IInv, IndexesText(mem)
             PROVE  TextIndexAgrees
  BY DEF TextIndexAgrees, SearchFinds, LengthsAgree
<1>1. PICK toks : toks = Toks(mem.records, indexedUnder)
  OBVIOUS
<1>2. /\ DOMAIN toks = DOMAIN mem.records
      /\ \A i \in DOMAIN mem.records : toks[i] = Tokenize(mem.records[i].text, indexedUnder[i])
      /\ TextFits(mem.text, toks, stale)
  BY <1>1 DEF Toks, IInv, TextInv
<1>3. LengthsAgree
  BY <1>2 DEF TextFits, LengthsAgree
<1>4. maxTerms \in Nat \ {0} /\ DOMAIN mem.records \subseteq Ids
  BY BoundsAssumption DEF IInv, TypeOK
<1>5. SearchFinds
  <2> SUFFICES ASSUME NEW t \in Terms
               PROVE  /\ \A i \in Live(mem, now) :
                           t \in Range(Tokenize(mem.records[i].text, indexedUnder[i]))
                             => i \in SearchText(mem, <<t>>, now, maxTerms)
                      /\ \A i \in SearchText(mem, <<t>>, now, maxTerms) \ stale :
                           t \in Range(mem.records[i].text) /\ mem.text.postings[t][i] = 1
    BY DEF SearchFinds
  <2>1. SearchText(mem, <<t>>, now, maxTerms)
          = IF mem.text.totalLen = 0 THEN {}
            ELSE {i \in Live(mem, now) : mem.text.postings[t][i] > 0}
    <3>1. Range(Tokenize(<<t>>, maxTerms)) = {t}
      BY <1>4, TokenizeTerm
    <3> QED
      BY <3>1 DEF SearchText, TextSearch
  <2>2. \A i \in Live(mem, now) : i \in DOMAIN mem.records /\ i \in Ids
    BY <1>4 DEF Live
  <2>3. \A i \in Ids : mem.text.postings[t][i] \in Nat
    BY DEF IInv, TypeOK
  <2>4. ASSUME NEW i \in Live(mem, now),
               t \in Range(Tokenize(mem.records[i].text, indexedUnder[i]))
        PROVE  i \in SearchText(mem, <<t>>, now, maxTerms)
    <3>1. t \in Range(toks[i]) /\ i \in DOMAIN toks
      BY <1>2, <2>2, <2>4
    <3>2. mem.text.postings[t][i] # 0
      BY <1>2, <3>1 DEF TextFits
    <3>3. toks[i] \in Seq(Terms) /\ Len(toks[i]) # 0
      <4>1. toks[i] \in Seq(Terms)
        BY <1>2, <3>1 DEF TextFits
      <4>2. DOMAIN toks[i] # {} /\ DOMAIN toks[i] = 1 .. Len(toks[i])
        BY <3>1, <4>1 DEF Range
      <4> QED
        BY <4>1, <4>2
    <3>4. i \in DOMAIN mem.text.docLen /\ mem.text.docLen[i] \in Nat \ {0}
      BY <1>2, <3>1, <3>3 DEF TextFits
    <3>5. mem.text.totalLen # 0
      BY <1>2, <3>4, WordsThere DEF TextFits
    <3> QED
      BY <2>1, <2>2, <2>3, <3>2, <3>5
  <2>5. ASSUME NEW i \in SearchText(mem, <<t>>, now, maxTerms) \ stale
        PROVE  t \in Range(mem.records[i].text) /\ mem.text.postings[t][i] = 1
    <3>1. i \in Live(mem, now) /\ mem.text.postings[t][i] > 0
      BY <2>1
    <3>2. i \in Ids /\ i \in DOMAIN mem.records
      BY <2>2, <3>1
    <3>3. mem.text.postings[t][i] = IF i \in DOMAIN toks /\ t \in Range(toks[i]) THEN 1 ELSE 0
      BY <1>2, <3>2 DEF TextFits
    <3>4. mem.text.postings[t][i] = 1 /\ t \in Range(toks[i])
      BY <3>1, <3>3
    <3>5. mem.records[i].text \in Texts /\ indexedUnder[i] \in Nat
      BY <3>2 DEF IInv, TypeOK, HistoryInv, Record
    <3>6. Range(toks[i]) \subseteq Range(mem.records[i].text)
      BY <1>2, <3>2, <3>5, TokenizeFacts
    <3> QED
      BY <3>4, <3>6
  <2> QED
    BY <2>4, <2>5
<1> QED
  BY <1>3, <1>5 DEF TextIndexAgrees

\* MEM.SEARCH finds the live records under the terms they were indexed under
\* and under no others, each counted once, and the lengths are those of the
\* records, up to what a change of the limit leaves behind (index, remove and
\* search in text.rs and their callers).
THEOREM TextIndexCorrect == Spec => []TextIndexAgrees
  BY Invariance, TextAgrees, PTL

\* Only MEM.ADD moves the counter, and not beyond the ids it may assign.
LEMMA AssignedStep ==
  ASSUME IInv, [Next]_vars
  PROVE  /\ mem'.nextId > mem.nextId /\ mem'.records # mem.records
         /\ mem.nextId \in DOMAIN mem.records
         => mem.nextId \in named
<1> SUFFICES ASSUME mem'.nextId > mem.nextId, mem.nextId \in DOMAIN mem.records
             PROVE  mem.nextId \in named
  OBVIOUS
<1>1. mem.nextId \in Nat /\ DOMAIN mem.records \subseteq DOMAIN embedded
  BY DEF IInv, TypeOK
<1>2. mem'.nextId # mem.nextId
  BY <1>1
<1>3. CASE \E q \in Requests : Add(q)
  <2>1. PICK q \in Requests : Add(q)
    BY <1>3
  <2>2. mem'.nextId = IF q.id = Unnamed THEN mem.nextId + 1 ELSE mem.nextId
    BY <2>1 DEF Add, AddRecord
  <2>3. mem.nextId <= MaxAssigned
    BY <1>2, <2>1, <2>2 DEF Add, IdOf
  <2>4. mem.nextId \in mem.nextId .. MaxAssigned
    BY <1>1, <2>3, BoundsAssumption
  <2> QED
    BY <1>1, <2>4 DEF IInv, NamesInv
<1>4. ASSUME NEW i, Drop(i)
      PROVE  FALSE
  BY <1>2, <1>4 DEF Drop, DelRecord
<1>5. CASE \E i \in Ids : Del(i) \/ SweepRecord(i)
  BY <1>4, <1>5 DEF Del, SweepRecord
<1>6. CASE \E i \in Ids, ttl \in Ttls \cup {0} : Expire(i, ttl)
  BY <1>2, <1>6 DEF Expire, SetDeadline
<1>7. CASE Copy \/ Restart
  BY <1>2, <1>7 DEF Copy, Restart, Rebuild, Anew
<1>8. CASE \E i \in Ids : Load(i)
  BY <1>2, <1>8 DEF Load, LoadRecord
<1>9. CASE Sweep \/ (\E max \in Caps[mem.mode] : ConfigSet(max)) \/ Tick \/ UNCHANGED vars
  BY <1>2, <1>9 DEF Sweep, ConfigSet, Tick, vars
<1> QED
  BY <1>3, <1>5, <1>6, <1>7, <1>8, <1>9 DEF Next, Proceed

\* The server never gives out an id that is in use, unless a client chose it
\* ahead of the counter (next_id in mod.rs, through COPY, save and restart).
THEOREM AssignedIdCorrect == Spec => AssignedIdIsNew
<1>1. IInv /\ [Next]_vars
        => [/\ mem'.nextId > mem.nextId /\ mem'.records # mem.records
            /\ mem.nextId \in DOMAIN mem.records
            => mem.nextId \in named]_vars
  BY AssignedStep
<1> QED
  BY <1>1, Invariance, PTL DEF Spec, AssignedIdIsNew

=============================================================================
