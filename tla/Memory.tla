------------------------------- MODULE Memory -------------------------------
(***************************************************************************)
(* One memory index (src/src/types/memory): records with their own         *)
(* deadlines, the keyword index and the vector array that are kept in step *)
(* with them by hand, and the commands of src/src/commands/memory.rs.      *)
(*                                                                         *)
(* Abstractions.  A text is the sequence of terms the tokenizer makes of   *)
(* it without a limit; a posting is counted, its term frequency is not     *)
(* kept.  A vector is a value that passes validate, or Unfit.  Scores and  *)
(* filters, and with them importance, metadata and the two timestamps, are *)
(* left out: a search is the set of records it may rank.  Id n is the name *)
(* m<n>, which the server assigns and a client may also choose; slot n is  *)
(* position n - 1 of the vector array, and slot 0 is None.  The sweep and  *)
(* the rebuilding of an index take a step per record, and nothing else is  *)
(* done to the index until they are through; the clock may go on.          *)
(***************************************************************************)
EXTENDS Integers, FiniteSets, SequencesExt

CONSTANTS
  Modes,      \* the modes MEM.CREATE is given: SEARCH, VECTOR, HYBRID
  MaxId,      \* bound on the ids
  MaxAssigned, \* bound on the ids the server assigns
  Texts,      \* the texts clients store
  Vectors,    \* the vectors they store
  Ttls,       \* the record TTLs they give
  Requests,   \* the MEM.ADD requests they send
  Caps,       \* per mode, the values mem-max-terms-per-doc is set to
  MaxRecords, \* mem-max-records, 0 for no limit
  Unlimited,  \* usize::MAX, as a limit on the terms of a text
  MaxPostings, \* bound on the postings of one id under one term
  MaxTime     \* bound on the clock

Ids == 1 .. MaxId
Unnamed == 0
Never == -1
None == "none"
Unfit == "unfit"  \* the wrong dimension, or no direction under cosine
Zero == "zero"    \* what a freed slot is filled with

Request == [id : Ids \cup {Unnamed}, text : Texts, vector : Vectors \cup {None, Unfit},
            ttl : Ttls \cup {Never}, cond : {"any", "nx", "xx"}]

ASSUME ModesAssumption == Modes \subseteq {"SEARCH", "VECTOR", "HYBRID"}
ASSUME BoundsAssumption ==
  /\ MaxId \in Nat \ {0} /\ MaxAssigned \in 0 .. MaxId /\ MaxRecords \in Nat
  /\ MaxPostings \in Nat /\ MaxTime \in Nat
  /\ Caps \in [Modes -> SUBSET (Nat \ {0})] /\ Ttls \subseteq Nat \ {0}
ASSUME TextsAssumption ==
  /\ \A text \in Texts : text \in Seq(Range(text)) /\ Len(text) <= Unlimited
  /\ Unlimited \in Nat \ {0}
ASSUME VectorsAssumption == {None, Unfit, Zero} \cap Vectors = {}
ASSUME RequestsAssumption == Requests \subseteq Request

VARIABLES
  mem,          \* the struct Memory
  maxTerms,     \* mem-max-terms-per-doc, which CONFIG SET may change
  now,          \* the wall clock
  dead,         \* the records a sweep has found and not yet dropped
  dump,         \* the records an index is being rebuilt from, still to be loaded
  limit,        \* the limit they are indexed under; 0 when there are none
  embedded,     \* history: the vector each record was last given
  inherited,    \* history: the vectors records have from an expired one of their id
  indexedUnder, \* history: the limit each record was last indexed under
  stale,        \* history: the ids that left postings behind
  named         \* history: the ids a client chose before the server came to them

history == <<embedded, inherited, indexedUnder, stale, named>>
work == <<dead, dump, limit>>
vars == <<mem, maxTerms, now, work, history>>

Terms == UNION {Range(text) : text \in Texts}

Bind(f, x, y) == [z \in DOMAIN f \cup {x} |-> IF z = x THEN y ELSE f[z]]
Without(f, x) == [z \in DOMAIN f \ {x} |-> f[z]]

-----------------------------------------------------------------------------
(***************************************************************************)
(* The record, and which structures a mode keeps.                          *)
(***************************************************************************)
NewRecord(text) == [text |-> text, expireAt |-> Never, slot |-> 0]
IsLive(r, t) == r.expireAt = Never \/ r.expireAt > t

IndexesText(m) == m.mode \in {"SEARCH", "HYBRID"}
StoresVectors(m) == m.mode \in {"VECTOR", "HYBRID"}

NewMemory(mode) ==
  [mode |-> mode, records |-> [i \in {} |-> i],
   text |-> [postings |-> [t \in Terms |-> [i \in Ids |-> 0]],
             docLen |-> [i \in {} |-> i], totalLen |-> 0],
   vectors |-> [data |-> <<>>, free |-> <<>>, live |-> 0],
   nextId |-> 1]

Live(m, t) == {i \in DOMAIN m.records : IsLive(m.records[i], t)}
Dead(m, t) == DOMAIN m.records \ Live(m, t)

-----------------------------------------------------------------------------
(***************************************************************************)
(* TextIndex.                                                              *)
(***************************************************************************)
Tokenize(text, max) == SubSeq(text, 1, IF Len(text) < max THEN Len(text) ELSE max)

TextRemove(x, i, text, max) ==
  IF i \notin DOMAIN x.docLen THEN x
  ELSE [docLen |-> Without(x.docLen, i),
        totalLen |-> x.totalLen - x.docLen[i],
        postings |-> [t \in Terms |-> IF t \in Range(Tokenize(text, max))
                                      THEN [x.postings[t] EXCEPT ![i] = 0] ELSE x.postings[t]]]

TextInsert(x, i, text, max) ==
  LET terms == Tokenize(text, max)
  IN  [docLen |-> Bind(x.docLen, i, Len(terms)),
       totalLen |-> x.totalLen + Len(terms),
       postings |-> [t \in Terms |-> IF t \in Range(terms)
                                     THEN [x.postings[t] EXCEPT ![i] = @ + 1] ELSE x.postings[t]]]

\* The ids TextIndex::search scores; `keep` is what its closure lets through.
TextSearch(x, terms, keep) ==
  IF x.totalLen = 0 THEN {}
  ELSE {i \in keep : \E t \in Range(terms) : x.postings[t][i] > 0}

-----------------------------------------------------------------------------
(***************************************************************************)
(* VectorIndex.                                                            *)
(***************************************************************************)
SlotFor(x) == IF x.free = <<>> THEN Len(x.data) + 1 ELSE Last(x.free)

VectorOverwrite(x, slot, v) ==
  [data |-> [x.data EXCEPT ![slot] = v], free |-> x.free, live |-> x.live]

\* A slip: the slot is taken from the free list but stays on it.
VectorInsertKept(x, v) ==
  [data |-> IF x.free = <<>> THEN Append(x.data, v) ELSE [x.data EXCEPT ![Last(x.free)] = v],
   free |-> x.free, live |-> x.live + 1]

VectorInsert(x, v) ==
  IF x.free = <<>>
  THEN [data |-> Append(x.data, v), free |-> x.free, live |-> x.live + 1]
  ELSE [data |-> [x.data EXCEPT ![Last(x.free)] = v], free |-> Front(x.free),
        live |-> x.live + 1]

VectorRemove(x, slot) ==
  IF slot > Len(x.data) \/ slot \in Range(x.free) THEN x
  ELSE [data |-> [x.data EXCEPT ![slot] = Zero], free |-> Append(x.free, slot),
        live |-> x.live - 1]

-----------------------------------------------------------------------------
(***************************************************************************)
(* Memory: adding and deleting.                                            *)
(***************************************************************************)
IdOf(m, q) == IF q.id = Unnamed THEN m.nextId ELSE q.id

\* A slip: the vector is not looked at before it is stored.
RefusedUnvalidated(m, q, t) ==
  LET existing == IdOf(m, q) \in Live(m, t)
  IN  \/ IF existing THEN q.cond = "nx" ELSE q.cond = "xx"
      \/ ~existing /\ MaxRecords > 0 /\ Cardinality(DOMAIN m.records) >= MaxRecords
      \/ q.vector = None /\ m.mode = "VECTOR" /\ ~existing

\* Whether add refuses the request.  The limit counts expired records too,
\* as does MEM.CARD.
Refused(m, q, t) ==
  LET existing == IdOf(m, q) \in Live(m, t)
  IN  \/ IF existing THEN q.cond = "nx" ELSE q.cond = "xx"
      \/ ~existing /\ MaxRecords > 0 /\ Cardinality(DOMAIN m.records) >= MaxRecords
      \/ q.vector # None /\ (~StoresVectors(m) \/ q.vector = Unfit)
      \/ q.vector = None /\ m.mode = "VECTOR" /\ ~existing

\* The record add makes: of the one in the map, expired or not, if there is
\* one.
Updated(m, i, q, t) ==
  LET old == IF i \in DOMAIN m.records THEN m.records[i] ELSE NewRecord(q.text)
  IN  [text |-> q.text,
       expireAt |-> IF q.ttl = Never THEN old.expireAt ELSE t + q.ttl,
       slot |-> IF q.vector # None /\ old.slot = 0 THEN SlotFor(m.vectors) ELSE old.slot]

StoreVector(m, i, q) ==
  IF q.vector = None THEN m.vectors
  ELSE IF i \in DOMAIN m.records /\ m.records[i].slot # 0
  THEN VectorOverwrite(m.vectors, m.records[i].slot, q.vector)
  ELSE VectorInsert(m.vectors, q.vector)

\* A slip: the text the record had is not un-indexed.
StoreTextOver(m, i, q, max) ==
  IF IndexesText(m) THEN TextInsert(m.text, i, q.text, max) ELSE m.text

\* TextIndex::index.
StoreText(m, i, q, max) ==
  IF ~IndexesText(m) THEN m.text
  ELSE IF i \in DOMAIN m.records
  THEN TextInsert(TextRemove(m.text, i, m.records[i].text, max), i, q.text, max)
  ELSE TextInsert(m.text, i, q.text, max)

AddRecord(m, q, t, max) ==
  LET i == IdOf(m, q)
      refused == Refused(m, q, t)
  IN  [mode |-> m.mode,
       records |-> IF refused THEN m.records ELSE Bind(m.records, i, Updated(m, i, q, t)),
       text |-> IF refused THEN m.text ELSE StoreText(m, i, q, max),
       vectors |-> IF refused THEN m.vectors ELSE StoreVector(m, i, q),
       nextId |-> IF q.id = Unnamed THEN m.nextId + 1 ELSE m.nextId]

DelRecord(m, i, max) ==
  IF i \notin DOMAIN m.records THEN m
  ELSE LET r == m.records[i]
       IN  [mode |-> m.mode,
            records |-> Without(m.records, i),
            text |-> IF IndexesText(m) THEN TextRemove(m.text, i, r.text, max) ELSE m.text,
            vectors |-> IF r.slot = 0 THEN m.vectors ELSE VectorRemove(m.vectors, r.slot),
            nextId |-> m.nextId]

SetDeadline(m, i, at) ==
  LET r == m.records[i]
  IN  [mode |-> m.mode,
       records |-> Bind(m.records, i, [text |-> r.text, expireAt |-> at, slot |-> r.slot]),
       text |-> m.text, vectors |-> m.vectors, nextId |-> m.nextId]

-----------------------------------------------------------------------------
(***************************************************************************)
(* Rebuilding an index from its live records.                              *)
(***************************************************************************)
VectorOf(m, r) == IF r.slot = 0 THEN None ELSE m.vectors.data[r.slot]

RecordsForDump(m, t) ==
  [i \in Live(m, t) |->
     LET r == m.records[i]
     IN  [text |-> r.text, expireAt |-> r.expireAt, vector |-> VectorOf(m, r)]]

\* A slip: the counter behind the server's ids starts over.
AnewFromOne(m) == NewMemory(m.mode)

Anew(m) ==
  LET e == NewMemory(m.mode)
  IN  [mode |-> m.mode, records |-> e.records, text |-> e.text, vectors |-> e.vectors,
       nextId |-> m.nextId]

LoadRecord(m, i, r, max) ==
  LET keep == r.vector # None /\ StoresVectors(m)
      slot == IF keep THEN SlotFor(m.vectors) ELSE 0
  IN  [mode |-> m.mode,
       records |-> Bind(m.records, i, [text |-> r.text, expireAt |-> r.expireAt, slot |-> slot]),
       text |-> IF IndexesText(m) THEN TextInsert(m.text, i, r.text, max) ELSE m.text,
       vectors |-> IF keep THEN VectorInsert(m.vectors, r.vector) ELSE m.vectors,
       nextId |-> m.nextId]

-----------------------------------------------------------------------------
(***************************************************************************)
(* What the retrieval commands rank.  Filters and the limits on scans and  *)
(* results are left out: they only take records away.                      *)
(***************************************************************************)
SearchText(m, terms, t, max) ==
  IF IndexesText(m) THEN TextSearch(m.text, Tokenize(terms, max), Live(m, t)) ELSE {}

\* The vectors a search compares the query with.
SearchVector(m, t) ==
  IF StoresVectors(m)
  THEN [i \in {i \in Live(m, t) : m.records[i].slot # 0} |-> m.vectors.data[m.records[i].slot]]
  ELSE [i \in {} |-> i]

-----------------------------------------------------------------------------
(***************************************************************************)
(* The commands.                                                           *)
(***************************************************************************)
Init ==
  /\ \E mode \in Modes : mem = NewMemory(mode) /\ maxTerms \in Caps[mode]
  /\ now = 0
  /\ dead = {} /\ dump = [i \in {} |-> i] /\ limit = 0
  /\ embedded = [i \in {} |-> i] /\ inherited = [i \in {} |-> i]
  /\ indexedUnder = [i \in {} |-> i]
  /\ stale = {} /\ named = {}

\* Neither a sweep nor a rebuilding is half done.
Idle == dead = {} /\ DOMAIN dump = {}

\* The record i is un-indexed under the present limit: what the limit of the
\* time had admitted beyond it stays.
LeftBehind(i) ==
  IF /\ i \in DOMAIN mem.records /\ IndexesText(mem)
     /\ Range(Tokenize(mem.records[i].text, indexedUnder[i]))
          \ Range(Tokenize(mem.records[i].text, maxTerms)) # {}
  THEN {i} ELSE {}

\* A record that is added without a vector, over an expired one that waits for
\* the sweep, has that one's slot and what is in it.
Inherits(i, q) ==
  q.vector = None /\ i \in Dead(mem, now) /\ mem.records[i].slot # 0

Add(q) ==
  LET i == IdOf(mem, q)
  IN  /\ Idle
      /\ q.id = Unnamed => i <= MaxAssigned
      /\ mem' = AddRecord(mem, q, now, maxTerms)
      /\ \A t \in Terms : mem'.text.postings[t][i] <= MaxPostings
      /\ IF Refused(mem, q, now) THEN UNCHANGED history
         ELSE /\ stale' = stale \cup LeftBehind(i)
              /\ indexedUnder' = Bind(indexedUnder, i, maxTerms)
              /\ embedded' = Bind(embedded, i, IF q.vector # None THEN q.vector
                                               ELSE IF i \in Live(mem, now) THEN embedded[i]
                                               ELSE None)
              /\ inherited' = IF q.vector # None THEN Without(inherited, i)
                              ELSE IF Inherits(i, q)
                              THEN Bind(inherited, i, VectorOf(mem, mem.records[i]))
                              ELSE inherited
              /\ named' = IF q.id \in mem.nextId .. MaxAssigned THEN named \cup {i} ELSE named
      /\ UNCHANGED <<maxTerms, now, work>>

\* The record goes, and what the observer knew of it.
Drop(i) ==
  /\ mem' = DelRecord(mem, i, maxTerms)
  /\ stale' = stale \cup LeftBehind(i)
  /\ embedded' = Without(embedded, i)
  /\ inherited' = Without(inherited, i)
  /\ indexedUnder' = Without(indexedUnder, i)
  /\ UNCHANGED <<maxTerms, now, named>>

Del(i) ==
  /\ Idle
  /\ Drop(i)
  /\ UNCHANGED work

\* Of live records only; 0 takes the deadline away.
Expire(i, ttl) ==
  /\ Idle
  /\ i \in Live(mem, now)
  /\ mem' = SetDeadline(mem, i, IF ttl = 0 THEN Never ELSE now + ttl)
  /\ UNCHANGED <<maxTerms, now, work, history>>

\* sweep_expired lists the expired records first,
Sweep ==
  /\ Idle
  /\ Dead(mem, now) # {}
  /\ dead' = Dead(mem, now)
  /\ UNCHANGED <<mem, maxTerms, now, dump, limit, history>>

\* A slip: the sweep deletes with the liveness check of the other commands.
SweepRecordLive(i) ==
  /\ i \in dead
  /\ dead' = dead \ {i}
  /\ IF i \in Live(mem, now) THEN Drop(i) ELSE UNCHANGED <<mem, maxTerms, now, history>>
  /\ UNCHANGED <<dump, limit>>

\* and drops them one by one, in the order of the hash map.
SweepRecord(i) ==
  /\ i \in dead
  /\ dead' = dead \ {i}
  /\ Drop(i)
  /\ UNCHANGED <<dump, limit>>

ConfigSet(max) ==
  /\ Idle
  /\ maxTerms' = max
  /\ UNCHANGED <<mem, now, work, history>>

\* The clients go on with an index rebuilt from the live records of this one.
Rebuild(max) ==
  /\ Idle
  /\ dump' = RecordsForDump(mem, now)
  /\ limit' = IF Live(mem, now) = {} THEN 0 ELSE max
  /\ mem' = Anew(mem)
  /\ embedded' = [i \in Live(mem, now) |-> embedded[i]]
  /\ inherited' = [i \in Live(mem, now) \cap DOMAIN inherited |-> inherited[i]]
  /\ indexedUnder' = [i \in {} |-> i]
  /\ stale' = {}
  /\ UNCHANGED <<maxTerms, now, dead, named>>

\* COPY clones without a limit on the terms.
Copy == Rebuild(Unlimited)

\* A save, and a restart under the present limit.
Restart == Rebuild(maxTerms)

\* One more record is loaded.  The dump has them in the order of their names,
\* in which m10 comes before m2: here any order will do.
Load(i) ==
  /\ i \in DOMAIN dump
  /\ mem' = LoadRecord(mem, i, dump[i], limit)
  /\ dump' = Without(dump, i)
  /\ limit' = IF DOMAIN dump = {i} THEN 0 ELSE limit
  /\ indexedUnder' = Bind(indexedUnder, i, limit)
  /\ UNCHANGED <<maxTerms, now, dead, embedded, inherited, stale, named>>

Tick ==
  /\ now < MaxTime
  /\ now' = now + 1
  /\ UNCHANGED <<mem, maxTerms, work, history>>

\* What the thread does on its own account.
Proceed ==
  \/ Sweep
  \/ \E i \in Ids : SweepRecord(i) \/ Load(i)

Next ==
  \/ \E q \in Requests : Add(q)
  \/ \E i \in Ids : Del(i)
  \/ \E i \in Ids, ttl \in Ttls \cup {0} : Expire(i, ttl)
  \/ \E max \in Caps[mem.mode] : ConfigSet(max)
  \/ Copy
  \/ Restart
  \/ Proceed
  \/ Tick

\* What is begun is finished, and the tick of the server comes round.
Spec == Init /\ [][Next]_vars /\ WF_vars(Proceed)

-----------------------------------------------------------------------------
(***************************************************************************)
(* Properties.                                                             *)
(***************************************************************************)
Record == [text : Texts, expireAt : Nat \cup {Never}, slot : Nat]

\* Every variable has its type, and the indexes a mode does not keep are empty.
TypeOK ==
  /\ mem.mode \in Modes
  /\ DOMAIN mem.records \subseteq Ids
  /\ \A i \in DOMAIN mem.records : mem.records[i] \in Record
  /\ mem.text.postings \in [Terms -> [Ids -> Nat]]
  /\ mem.text.totalLen \in Nat /\ mem.vectors.live \in Nat /\ mem.nextId \in Nat \ {0}
  /\ Range(mem.vectors.data) \subseteq Vectors \cup {Zero}
  /\ ~IndexesText(mem) => mem.text.docLen = [i \in {} |-> i]
  /\ ~StoresVectors(mem) => mem.vectors.data = <<>>
  /\ maxTerms \in Caps[mem.mode] /\ now \in 0 .. MaxTime
  /\ dead \subseteq DOMAIN mem.records
  /\ DOMAIN dump \subseteq Ids \ DOMAIN mem.records
  /\ limit \in Nat /\ (limit = 0 <=> DOMAIN dump = {})
  /\ DOMAIN embedded = DOMAIN mem.records \cup DOMAIN dump
  /\ DOMAIN inherited \subseteq DOMAIN embedded
  /\ DOMAIN indexedUnder = DOMAIN mem.records
  /\ stale \subseteq Ids /\ named \subseteq Ids

\* The vector array is shared out without overlap: a record's slot lies in it,
\* belongs to no other record and is not on the free list, every other slot is
\* on the free list once, and the counter VSEARCH is admitted by is exact
\* (insert, overwrite and remove in vector.rs, and who calls which in add,
\* del, the sweep and load_record).
SlotsOwned ==
  LET owners == {i \in DOMAIN mem.records : mem.records[i].slot # 0}
      used == {mem.records[i].slot : i \in owners}
  IN  /\ \A i, j \in owners : mem.records[i].slot = mem.records[j].slot => i = j
      /\ used \cap Range(mem.vectors.free) = {}
      /\ used \cup Range(mem.vectors.free) = DOMAIN mem.vectors.data
      /\ IsInjective(mem.vectors.free)
      /\ mem.vectors.live = Cardinality(owners)

\* A vector search compares the query with the vector a record was last given,
\* never with what another record left in a slot or put there since, and no
\* live record that was given one is left out.  The exception is a record
\* added without a vector over an expired one of its id that the sweep had not
\* come to: add takes over that record with its slot, and a search ranks the
\* new text by the dead record's vector.
VectorIsOwn ==
  LET searched == SearchVector(mem, now)
  IN  StoresVectors(mem) =>
        \A i \in Live(mem, now) \ DOMAIN inherited :
          /\ i \in DOMAIN searched <=> embedded[i] # None
          /\ i \in DOMAIN searched => searched[i] = embedded[i]

\* The vector index and the records agree, through replacement, deletion, the
\* sweep, COPY and restart, but for inherited vectors.
VectorIndexAgrees == SlotsOwned /\ VectorIsOwn

\* MEM.SEARCH finds every live record under every term it was indexed under,
\* and under no term that is not in its text, each one counted once, unless
\* postings of an earlier record of that id were left behind (TextIndex::remove
\* tokenizes with the limit of now, not with the one of then).
SearchFinds ==
  IndexesText(mem) =>
    \A t \in Terms :
      LET found == SearchText(mem, <<t>>, now, maxTerms)
      IN  /\ \A i \in Live(mem, now) :
               t \in Range(Tokenize(mem.records[i].text, indexedUnder[i])) => i \in found
          /\ \A i \in found \ stale :
               t \in Range(mem.records[i].text) /\ mem.text.postings[t][i] = 1

\* The words of the documents, each told by its document and its place.
Words(docLen) == UNION {{i} \X (1 .. docLen[i]) : i \in DOMAIN docLen}

\* The collection statistics BM25 divides by are those of the records in the
\* map, so the subtraction from the total never underflows (total_len in
\* text.rs).
LengthsAgree ==
  IndexesText(mem) =>
    /\ DOMAIN mem.text.docLen = DOMAIN mem.records
    /\ \A i \in DOMAIN mem.text.docLen :
         mem.text.docLen[i] = Len(Tokenize(mem.records[i].text, indexedUnder[i]))
    /\ mem.text.totalLen = Cardinality(Words(mem.text.docLen))

\* The keyword index and the records agree, up to what a change of
\* mem-max-terms-per-doc leaves behind.
TextIndexAgrees == SearchFinds /\ LengthsAgree

\* A record the server names never takes the place of another, unless a client
\* has chosen that name itself: the counter survives COPY, save and restart
\* (src/tests/memory.rs:524, next_id in mod.rs).
AssignedIdIsNew ==
  [][/\ mem'.nextId > mem.nextId /\ mem'.records # mem.records
     /\ mem.nextId \in DOMAIN mem.records
     => mem.nextId \in named]_vars

\* Expired records are reclaimed in the end, and with them their place under
\* mem-max-records (sweep_memory_records on every tick).
ExpiredReclaimed == Dead(mem, now) # {} ~> Dead(mem, now) = {}

\* A record that was added can be read: expired records that wait for the
\* sweep make no difference to what a client sees (src/src/app.rs:164).
AddedIsThere ==
  [][\A q \in Requests :
       Add(q) /\ ~Refused(mem, q, now) => IdOf(mem, q) \in Live(mem', now)]_vars

=============================================================================
