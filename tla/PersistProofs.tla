---------------------------- MODULE PersistProofs ----------------------------
(***************************************************************************)
(* The snapshot, proved for any keys, types, writes and bounds: what a     *)
(* save leaves on disk, what of it survives a kill, and what a load makes  *)
(* of it.                                                                  *)
(***************************************************************************)
EXTENDS Persist, KeyspaceProofs

Saved == [value : Value, expireAt : Expiry]
Snapshots == UNION {[D -> Saved] : D \in SUBSET Keys}

\* No key occurs twice in a file.
OncePerKey(q) == \A i, j \in DOMAIN q : q[i].key = q[j].key => i = j

\* The records of q are of keys of the snapshot m, with their types; a record
\* without deadline is of a key without one, or of a string.
From(q, m) ==
  \A i \in DOMAIN q :
    /\ q[i].key \in DOMAIN m
    /\ q[i].value.type = m[q[i].key].value.type
    /\ q[i].expireAt = Never => m[q[i].key].expireAt = Never \/ q[i].value.type = "string"

\* q has a copy of everything in m that is still live at t, the keys of K aside.
HasCopy(q, k, e) == \E i \in DOMAIN q : q[i].key = k /\ CopyOf(Restored(q[i]), e)
CoversBut(q, m, K, t) ==
  \A k \in DOMAIN m \ K : IsLive(m[k], t) => HasCopy(q, k, m[k])

NoneEmpty(m) == \A k \in DOMAIN m : ~IsEmptyCollection(m[k].value)

Typed ==
  /\ phase \in {"down", "loading", "serving", "saving", "exiting"}
  /\ Good(store, {})
  /\ now \in Time
  /\ lastCheck \in {"unset", "running", "elapsed"}
  /\ unwritten \subseteq [key : Keys, type : StoreType]
  /\ tmp \in Seq(Record) /\ unread \in Seq(Record) /\ dump.records \in Seq(Record)
  /\ dump.tail \in {"whole", "line", "blob"}
  /\ dump.tail = "line" => dump.records # <<>>
  /\ failures \in 0 .. MaxFailures
  /\ begun \in Snapshots /\ done \in Snapshots /\ lost \subseteq Keys
  /\ ~Saving => unwritten = {}
  /\ phase # "loading" => unread = <<>>
  /\ phase = "down" => store = EmptyStore

\* What a load will read, against the last save that completed.
DumpInv ==
  /\ OncePerKey(LoadV2(dump))
  /\ From(LoadV2(dump), done)
  /\ CoversBut(LoadV2(dump), done, lost, now)
  /\ NoneEmpty(done)

\* What a save has written, and what it will still find in the store.
SaveInv ==
  Saving =>
    /\ \A x \in unwritten : x.key \in DOMAIN begun /\ x.type = begun[x.key].value.type
    /\ OncePerKey(tmp)
    /\ From(tmp, begun)
    /\ \A x \in unwritten, i \in DOMAIN tmp : tmp[i].key # x.key
    /\ CoversBut(tmp, begun, {x.key : x \in unwritten}, now)
    /\ NoneEmpty(begun)
    /\ \A k \in DOMAIN begun : IsLive(begun[k], now) => k \in DOMAIN store.map
    /\ \A k \in DOMAIN begun \cap DOMAIN store.map : Contents(store)[k] = begun[k]
    /\ LiveKeys(store, now) \subseteq DOMAIN begun

\* The store s holds the record r.
Installed(s, r) ==
  r.key \in DOMAIN s.map /\ Contents(s)[r.key] = Restored(r)

\* A load has installed what it has read, unless it was due or empty.
LoadInv ==
  phase = "loading" =>
    /\ OncePerKey(unread)
    /\ \A j \in DOMAIN unread : /\ unread[j].key \notin DOMAIN store.map
                                /\ \E i \in DOMAIN LoadV2(dump) : LoadV2(dump)[i] = unread[j]
    /\ \A i \in DOMAIN LoadV2(dump) :
         \/ \E j \in DOMAIN unread : unread[j] = LoadV2(dump)[i]
         \/ Installed(store, LoadV2(dump)[i])
         \/ ~IsLive(Restored(LoadV2(dump)[i]), now)
         \/ IsEmptyCollection(LoadV2(dump)[i].value)
    /\ \A k \in DOMAIN store.map :
         \E i \in DOMAIN LoadV2(dump) : LoadV2(dump)[i].key = k /\ Installed(store, LoadV2(dump)[i])
    /\ ~store.dirty => DOMAIN store.map = {}

\* A store without unsaved changes is in the dump, also while it is saved.
CleanInv ==
  phase \in {"serving", "saving", "exiting"} /\ ~store.dirty =>
    \A k \in LiveKeys(store, now) : HasCopy(LoadV2(dump), k, store.map[k])

IInv == Typed /\ DumpInv /\ SaveInv /\ LoadInv /\ CleanInv

-----------------------------------------------------------------------------
(***************************************************************************)
(* Snapshots, records and the clock.                                       *)
(***************************************************************************)
LEMMA SnapshotFacts ==
  ASSUME NEW m \in Snapshots
  PROVE  /\ DOMAIN m \in SUBSET Keys
         /\ \A k \in DOMAIN m : m[k] \in Saved /\ m[k].value \in Value /\ m[k].expireAt \in Expiry
<1>1. PICK D \in SUBSET Keys : m \in [D -> Saved]
  BY DEF Snapshots
<1>2. \A k \in DOMAIN m : m[k] \in Saved
  BY <1>1
<1> QED
  BY <1>1, <1>2 DEF Saved

\* What is live later is live now.
LEMMA LiveBefore ==
  ASSUME NEW t \in Int, NEW u \in Int, t <= u, NEW e, e.expireAt \in Expiry, IsLive(e, u)
  PROVE  IsLive(e, t)
BY DEF IsLive, Expiry, Never

LEMMA NothingFacts == Nothing \in Snapshots /\ DOMAIN Nothing = {} /\ NoneEmpty(Nothing)
<1>1. Nothing \in [{} -> Saved] /\ {} \in SUBSET Keys
  BY DEF Nothing
<1>2. Nothing \in Snapshots
  BY <1>1 DEF Snapshots
<1> QED
  BY <1>1, <1>2 DEF NoneEmpty

LEMMA EmptyStoreFacts ==
  /\ Good(EmptyStore, {}) /\ DOMAIN EmptyStore.map = {} /\ EmptyStore.dirty = FALSE
<1>1. Good(EmptyStore, {})
  BY EmptyStoreGood DEF EmptyStore
<1> QED
  BY <1>1 DEF EmptyStore

\* The entries of the store, and what of them a snapshot takes.
LEMMA StoreFacts ==
  ASSUME NEW s, Good(s, {})
  PROVE  /\ DOMAIN s.map \in SUBSET Keys
         /\ DOMAIN Contents(s) = DOMAIN s.map
         /\ \A k \in DOMAIN s.map :
              /\ s.map[k].value \in Value /\ s.map[k].expireAt \in Expiry
              /\ ~IsEmptyCollection(s.map[k].value)
              /\ Contents(s)[k] = [value |-> s.map[k].value, expireAt |-> s.map[k].expireAt]
<1>1. \A k \in DOMAIN s.map : ~IsEmptyCollection(s.map[k].value)
  BY DEF Good
<1>2. /\ DOMAIN s.map \in SUBSET Keys
      /\ \A k \in DOMAIN s.map : s.map[k].value \in Value /\ s.map[k].expireAt \in Expiry
  BY GoodFields
<1> QED
  BY <1>1, <1>2 DEF Contents

\* A file covers a snapshot for as long as it is not written to.
LEMMA CoversLater ==
  ASSUME NEW t \in Int, NEW u \in Int, t <= u, NEW q, NEW m \in Snapshots, NEW K,
         CoversBut(q, m, K, t)
  PROVE  CoversBut(q, m, K, u)
<1> SUFFICES ASSUME NEW k \in DOMAIN m \ K, IsLive(m[k], u)
             PROVE  HasCopy(q, k, m[k])
  BY DEF CoversBut
<1>1. m[k].expireAt \in Expiry
  BY SnapshotFacts
<1>2. IsLive(m[k], t)
  BY <1>1, LiveBefore
<1> QED
  BY <1>2 DEF CoversBut

\* Of a store that is left alone, less and less is live.
LEMMA LiveKeysShrink ==
  ASSUME NEW t \in Int, NEW u \in Int, t <= u, NEW s, Good(s, {})
  PROVE  LiveKeys(s, u) \subseteq LiveKeys(s, t)
<1> SUFFICES ASSUME NEW k \in DOMAIN s.map, IsLive(s.map[k], u)
             PROVE  IsLive(s.map[k], t)
  BY DEF LiveKeys
<1>1. s.map[k].expireAt \in Expiry
  BY StoreFacts
<1> QED
  BY <1>1, LiveBefore

\* Truncating takes less than a millisecond.
LEMMA MillisFacts ==
  ASSUME NEW m \in Nat \ {0}, NEW a \in Nat
  PROVE  a \div m \in Nat /\ m * (a \div m) <= a /\ a <= m * (a \div m) + (m - 1)
OBVIOUS

LEMMA TimesFacts ==
  ASSUME NEW m \in Nat, NEW a \in Nat, NEW b \in Nat
  PROVE  m * a \in Nat /\ m * (a + b) = m * a + m * b
OBVIOUS

\* A record stands for an entry with its value, and with a deadline exactly
\* if the record has one.
LEMMA RestoredFacts ==
  ASSUME NEW r, r.expireAt \in Expiry
  PROVE  /\ Restored(r).value = r.value /\ Restored(r).expireAt \in Expiry
         /\ Restored(r).expireAt = Never <=> r.expireAt = Never
         /\ r.expireAt < 0 <=> r.expireAt = Never
         /\ r.expireAt \in Nat => FromMillis(r.expireAt) \in Nat /\ Restored(r).expireAt = FromMillis(r.expireAt)
<1>1. r.expireAt \in Nat => FromMillis(r.expireAt) \in Nat
  BY MilliAssumption, TimesFacts DEF FromMillis
<1> QED
  BY <1>1 DEF Restored, Expiry, Never

\* What load_v2 makes of a file is a sequence of records.
LEMMA LoadTyped ==
  ASSUME NEW f, f.records \in Seq(Record), f.tail = "line" => f.records # <<>>
  PROVE  /\ LoadV2(f) \in Seq(Record)
         /\ \A i \in DOMAIN LoadV2(f) : /\ LoadV2(f)[i] \in Record
                                       /\ LoadV2(f)[i].value \in Value
                                       /\ LoadV2(f)[i].expireAt \in Expiry
<1>1. LoadV2(f) \in Seq(Record)
  <2>1. CASE ReadFails(f)
    BY <2>1 DEF LoadV2
  <2>2. CASE ~ReadFails(f) /\ f.tail = "line"
    <3>1. PICK n : n = Len(f.records)
      OBVIOUS
    <3>2. n \in Nat \ {0} /\ f.records[n] \in Record
      BY <2>2, <3>1, EmptySeq, ElementOfSeq
    <3>3. \A i \in 1 .. n - 1 : f.records[i] \in Record
      BY <3>1, <3>2, ElementOfSeq
    <3>4. SubSeq(f.records, 1, n - 1) \in Seq(Record)
      BY <3>2, <3>3, SubSeqProperties
    <3>5. Partial(f.records[n]) \in Seq(Record)
      BY <3>2 DEF Partial
    <3>6. LoadV2(f) = SubSeq(f.records, 1, n - 1) \o Partial(f.records[n])
      BY <2>2, <3>1 DEF LoadV2
    <3> QED
      BY <3>4, <3>5, <3>6, ConcatProperties
  <2>3. CASE ~ReadFails(f) /\ f.tail # "line"
    BY <2>3 DEF LoadV2
  <2> QED
    BY <2>1, <2>2, <2>3
<1>2. \A i \in DOMAIN LoadV2(f) : LoadV2(f)[i] \in Record
  BY <1>1, LenProperties
<1> QED
  BY <1>1, <1>2 DEF Record

LEMMA DumpKept ==
  ASSUME IInv, UNCHANGED <<dump, done, lost>>, now' \in Time, now <= now'
  PROVE  DumpInv'
<1>1. now \in Int /\ now' \in Int /\ done \in Snapshots
  BY DEF IInv, Typed, Time
<1>2. CoversBut(LoadV2(dump), done, lost, now)
  BY DEF IInv, DumpInv
<1>3. CoversBut(LoadV2(dump), done, lost, now')
  BY <1>1, <1>2, CoversLater
<1> QED
  BY <1>3 DEF IInv, DumpInv

-----------------------------------------------------------------------------
(***************************************************************************)
(* Serving.                                                                *)
(***************************************************************************)
LEMMA InitInv == Init => IInv
<1> SUFFICES ASSUME Init
             PROVE  IInv
  OBVIOUS
<1>1. LoadV2(dump) = <<>> /\ dump.records = <<>> /\ dump.tail = "whole"
  BY DEF Init, Whole, LoadV2, ReadFails
<1>2. DOMAIN LoadV2(dump) = {}
  BY <1>1
<1>3. <<>> \in Seq(Record) /\ 0 \in Time /\ 0 \in 0 .. MaxFailures
  BY MaxTimeAssumption, MaxFailuresAssumption DEF Time
<1>4. Typed
  BY <1>1, <1>3, NothingFacts, EmptyStoreFacts DEF Init, Typed, Saving
<1>5. DumpInv
  BY <1>2, NothingFacts DEF Init, DumpInv, OncePerKey, From, CoversBut
<1> QED
  BY <1>4, <1>5 DEF Init, IInv, SaveInv, LoadInv, CleanInv, Saving

\* A command changes what is in the store only together with the counter of
\* unsaved changes.
LEMMA CommandInv ==
  ASSUME IInv, NEW s, Good(s, {}), s = store \/ s.dirty = TRUE, Command(s)
  PROVE  IInv'
<1>1. UNCHANGED <<phase, lastCheck, now, unwritten, tmp, dump, unread, failures, begun, done, lost>>
  BY DEF Command, files, history
<1>2. phase = "serving" /\ store' = s
  BY DEF Command
<1>3. Typed'
  BY <1>1, <1>2 DEF IInv, Typed, Saving
<1>4. DumpInv'
  BY <1>1 DEF IInv, DumpInv
<1>5. SaveInv' /\ LoadInv'
  BY <1>1, <1>2 DEF SaveInv, LoadInv, Saving
<1>6. CleanInv'
  <2>1. CASE s = store
    BY <1>1, <1>2, <2>1 DEF IInv, CleanInv
  <2>2. CASE s.dirty = TRUE
    BY <1>2, <2>2 DEF CleanInv
  <2> QED
    BY <2>1, <2>2
<1> QED
  BY <1>3, <1>4, <1>5, <1>6 DEF IInv

LEMMA WriteInv ==
  ASSUME IInv, NEW w \in Writes, Write(w)
  PROVE  IInv'
<1>1. PICK f : f = Find(store, w.key, now)
  OBVIOUS
<1>2. PICK s : s = MarkDirty(InsertEntry(f, w.key, w.value, w.expireAt))
  OBVIOUS
<1>3. w.key \in Keys /\ w.value \in Value /\ w.expireAt \in Expiry /\ ~IsEmptyCollection(w.value)
  BY WritesAssumption DEF Record
<1>4. Good(f, {})
  BY <1>1, FindFacts DEF IInv, Typed
<1>5. Good(s, {} \ {w.key}) /\ s.dirty = TRUE
  BY <1>2, <1>3, <1>4, InsertGood, InsertContents
<1>6. Good(s, {})
  BY <1>5, GoodWeaken
<1>7. Command(s)
  BY <1>1, <1>2 DEF Write
<1> QED
  BY <1>5, <1>6, <1>7, CommandInv

LEMMA RemoveInv ==
  ASSUME IInv, NEW k \in Keys, Remove(k)
  PROVE  IInv'
<1>1. PICK s : s = Del(store, k, now)
  OBVIOUS
<1>2. Good(store, {})
  BY DEF IInv, Typed
<1>3. Good(s, {}) /\ (s = store \/ s.dirty = TRUE)
  BY <1>1, <1>2, DelFacts, DelContents
<1>4. Command(s)
  BY <1>1 DEF Remove
<1> QED
  BY <1>3, <1>4, CommandInv

LEMMA LookupInv ==
  ASSUME IInv, NEW k \in Keys, Lookup(k)
  PROVE  IInv'
<1>1. PICK s : s = Find(store, k, now)
  OBVIOUS
<1>2. Good(store, {})
  BY DEF IInv, Typed
<1>3. Good(s, {}) /\ (s = store \/ s.dirty = TRUE)
  BY <1>1, <1>2, FindFacts, FindContents
<1>4. Command(s)
  BY <1>1 DEF Lookup
<1> QED
  BY <1>3, <1>4, CommandInv

\* The clock moves under everything, a running save and load included.
LEMMA TickInv ==
  ASSUME IInv, Tick
  PROVE  IInv'
<1>1. UNCHANGED <<phase, store, lastCheck, unwritten, tmp, dump, unread, failures, begun, done, lost>>
  BY DEF Tick, process, files, history
<1>2. now \in Int /\ now' \in Int /\ now' \in Time /\ now <= now'
  BY MaxTimeAssumption DEF IInv, Typed, Tick, Time
<1>3. Good(store, {}) /\ begun \in Snapshots
  BY DEF IInv, Typed
<1>4. LiveKeys(store, now') \subseteq LiveKeys(store, now)
  BY <1>2, <1>3, LiveKeysShrink
<1>5. Typed'
  BY <1>1, <1>2 DEF IInv, Typed, Saving
<1>6. DumpInv'
  BY <1>1, <1>2, DumpKept
<1>7. SaveInv'
  <2> SUFFICES ASSUME Saving
               PROVE  SaveInv'
    BY <1>1 DEF SaveInv, Saving
  <2> DEFINE K == {x.key : x \in unwritten}
  <2>1. CoversBut(tmp, begun, K, now)
    BY DEF IInv, SaveInv
  <2>2. CoversBut(tmp, begun, K, now')
    BY <1>2, <1>3, <2>1, CoversLater
  <2>3. \A k \in DOMAIN begun : IsLive(begun[k], now') => IsLive(begun[k], now)
    BY <1>2, <1>3, SnapshotFacts, LiveBefore
  <2> QED
    BY <1>1, <1>4, <2>2, <2>3 DEF IInv, SaveInv, Saving
<1>8. LoadInv'
  <2> SUFFICES ASSUME phase = "loading"
               PROVE  LoadInv'
    BY <1>1 DEF LoadInv
  <2>1. \A i \in DOMAIN LoadV2(dump) : LoadV2(dump)[i].expireAt \in Expiry
    BY LoadTyped DEF IInv, Typed
  <2>2. \A i \in DOMAIN LoadV2(dump) :
          IsLive(Restored(LoadV2(dump)[i]), now') => IsLive(Restored(LoadV2(dump)[i]), now)
    BY <1>2, <2>1, RestoredFacts, LiveBefore
  <2> QED
    BY <1>1, <2>2 DEF IInv, LoadInv
<1>9. CleanInv'
  BY <1>1, <1>4 DEF IInv, CleanInv
<1> QED
  BY <1>5, <1>6, <1>7, <1>8, <1>9 DEF IInv

-----------------------------------------------------------------------------
(***************************************************************************)
(* Saving.                                                                 *)
(***************************************************************************)
LEMMA BeginSaveInv ==
  ASSUME IInv, NEW kind \in {"saving", "exiting"}, BeginSave(kind),
         lastCheck' \in {"unset", "running", "elapsed"}
  PROVE  IInv'
<1>1. UNCHANGED <<store, now, dump, unread, failures, done, lost>>
  BY DEF BeginSave
<1>2. phase = "serving" /\ phase' = kind /\ unwritten' = Listed /\ tmp' = <<>>
  BY DEF BeginSave
<1>3. Good(store, {}) /\ now \in Time
  BY DEF IInv, Typed
<1>4. LiveKeys(store, now) \subseteq DOMAIN store.map /\ DOMAIN store.map \in SUBSET Keys
  BY <1>3, StoreFacts DEF LiveKeys
<1>5. begun' \in [LiveKeys(store, now) -> Saved]
  BY <1>3, <1>4, StoreFacts DEF BeginSave, Saved
<1>6. begun' \in Snapshots
  BY <1>4, <1>5 DEF Snapshots
<1>7. /\ DOMAIN begun' = LiveKeys(store, now)
      /\ \A k \in DOMAIN begun' : begun'[k] = Contents(store)[k]
  BY <1>3, <1>4, StoreFacts DEF BeginSave
<1>8. \A k \in DOMAIN begun' : begun'[k].value = store.map[k].value
  BY <1>4 DEF BeginSave
<1>9. Typed'
  <2>1. unwritten' \subseteq [key : Keys, type : StoreType]
    BY <1>2, <1>3, <1>4, GoodFields DEF Listed
  <2> QED
    BY <1>1, <1>2, <1>6, <2>1 DEF IInv, Typed, Saving
<1>10. DumpInv'
  BY <1>1, <1>3, DumpKept DEF Time
<1>11. SaveInv'
  <2>1. \A x \in unwritten' : x.key \in DOMAIN begun' /\ x.type = begun'[x.key].value.type
    BY <1>2, <1>7, <1>8 DEF Listed
  <2>2. OncePerKey(tmp') /\ From(tmp', begun') /\ DOMAIN tmp' = {}
    BY <1>2 DEF OncePerKey, From
  <2>3. \A k \in DOMAIN begun' : \E x \in unwritten' : x.key = k
    <3> SUFFICES ASSUME NEW k \in LiveKeys(store, now)
                 PROVE  \E x \in Listed : x.key = k
      BY <1>2, <1>7
    <3>1. [key |-> k, type |-> store.map[k].value.type] \in Listed
      BY DEF Listed
    <3> QED
      BY <3>1
  <2>4. CoversBut(tmp', begun', {x.key : x \in unwritten'}, now')
    BY <2>3 DEF CoversBut
  <2>5. NoneEmpty(begun')
    BY <1>3, <1>4, <1>7, <1>8, StoreFacts DEF NoneEmpty
  <2>6. /\ \A k \in DOMAIN begun' : k \in DOMAIN store'.map
        /\ \A k \in DOMAIN begun' \cap DOMAIN store'.map : Contents(store')[k] = begun'[k]
        /\ LiveKeys(store', now') \subseteq DOMAIN begun'
    BY <1>1, <1>4, <1>7
  <2> QED
    BY <2>1, <2>2, <2>4, <2>5, <2>6 DEF SaveInv
<1>12. LoadInv'
  BY <1>2 DEF LoadInv
<1>13. CleanInv'
  BY <1>1, <1>2 DEF IInv, CleanInv
<1> QED
  BY <1>9, <1>10, <1>11, <1>12, <1>13 DEF IInv

\* Nothing but the autosave clock changes.
LEMMA ClockInv ==
  ASSUME IInv, UNCHANGED <<phase, store, now, files, history>>,
         lastCheck' \in {"unset", "running", "elapsed"}
  PROVE  IInv'
<1>1. UNCHANGED <<phase, store, now, unwritten, tmp, dump, unread, failures, begun, done, lost>>
  BY DEF files, history
<1>2. Typed' /\ DumpInv'
  BY <1>1 DEF IInv, Typed, DumpInv, Saving
<1>3. SaveInv' /\ LoadInv' /\ CleanInv'
  BY <1>1 DEF IInv, SaveInv, LoadInv, CleanInv, Saving
<1> QED
  BY <1>2, <1>3 DEF IInv

LEMMA SaveStartsInv ==
  ASSUME IInv, SaveCommand \/ Shutdown \/ Autosave
  PROVE  IInv'
<1>1. lastCheck \in {"unset", "running", "elapsed"}
  BY DEF IInv, Typed
<1>2. CASE SaveCommand \/ Shutdown
  BY <1>1, <1>2, BeginSaveInv DEF SaveCommand, Shutdown
<1>3. CASE Autosave
  <2>1. lastCheck' \in {"unset", "running", "elapsed"}
    BY <1>3 DEF Autosave
  <2>2. BeginSave("saving") \/ UNCHANGED <<phase, store, now, files, history>>
    BY <1>3 DEF Autosave
  <2> QED
    BY <2>1, <2>2, BeginSaveInv, ClockInv
<1> QED
  BY <1>2, <1>3

LEMMA ClockStepInv ==
  ASSUME IInv, StartAutosaveClock \/ IntervalElapses
  PROVE  IInv'
<1>1. /\ UNCHANGED <<phase, store, now, files, history>>
      /\ lastCheck' \in {"unset", "running", "elapsed"}
  BY DEF StartAutosaveClock, IntervalElapses
<1> QED
  BY <1>1, ClockInv

\* The rename puts the whole of what was live at the start in place of the
\* old dump.
LEMMA EndSaveInv ==
  ASSUME IInv, EndSave
  PROVE  IInv'
<1>1. UNCHANGED <<lastCheck, now, unwritten, unread, failures>>
  BY DEF EndSave
<1>2. /\ Saving /\ unwritten = {} /\ tmp' = <<>> /\ done' = begun /\ lost' = {}
      /\ begun' = Nothing /\ phase' \in {"serving", "down"}
      /\ phase' = "serving" <=> phase = "saving"
  BY DEF EndSave, Return, Saving
<1>3. dump'.records = tmp /\ dump'.tail = "whole"
  BY DEF EndSave, Whole
<1>4. LoadV2(dump') = tmp
  BY <1>3 DEF LoadV2, ReadFails
<1>5. Good(store, {}) /\ begun \in Snapshots /\ now \in Time
  BY DEF IInv, Typed
<1>6. /\ Good(store', {})
      /\ phase' = "serving" => store'.map = store.map
      /\ phase' = "down" => store' = EmptyStore
  <2>1. CASE phase = "saving"
    <3>1. store' = [store EXCEPT !.dirty = FALSE]
      BY <2>1 DEF EndSave
    <3>2. store \in Stores
      BY <1>5, GoodFields
    <3>3. store' \in Stores /\ store'.map = store.map /\ store'.keys = store.keys /\ store'.volatile = store.volatile
      BY <3>1, <3>2 DEF Stores
    <3> QED
      BY <1>2, <1>5, <2>1, <3>3 DEF Good, Ok, KeyIndexConsistent, VolatileIndexConsistent
  <2>2. CASE phase # "saving"
    BY <1>2, <2>2, EmptyStoreFacts DEF EndSave
  <2> QED
    BY <2>1, <2>2
<1>7. Typed'
  BY <1>1, <1>2, <1>3, <1>6, NothingFacts, EmptySeq DEF IInv, Typed, Saving
<1>8. /\ OncePerKey(tmp) /\ From(tmp, begun) /\ NoneEmpty(begun)
      /\ CoversBut(tmp, begun, {x.key : x \in unwritten}, now)
      /\ LiveKeys(store, now) \subseteq DOMAIN begun
      /\ \A k \in DOMAIN begun \cap DOMAIN store.map : Contents(store)[k] = begun[k]
  BY <1>2 DEF IInv, SaveInv
<1>9. CoversBut(tmp, begun, {}, now)
  BY <1>2, <1>8 DEF CoversBut
<1>10. DumpInv'
  BY <1>1, <1>2, <1>4, <1>8, <1>9 DEF DumpInv
<1>11. SaveInv' /\ LoadInv'
  BY <1>2 DEF SaveInv, LoadInv, Saving
<1>12. CleanInv'
  <2> SUFFICES ASSUME phase' = "serving", NEW k \in LiveKeys(store', now')
               PROVE  HasCopy(LoadV2(dump'), k, store'.map[k])
    BY <1>2 DEF CleanInv
  <2>1. k \in LiveKeys(store, now) /\ store'.map[k] = store.map[k]
    BY <1>1, <1>6 DEF LiveKeys
  <2>2. k \in DOMAIN store.map /\ IsLive(store.map[k], now) /\ k \in DOMAIN begun
    BY <1>8, <2>1 DEF LiveKeys
  <2>3. Contents(store)[k] = begun[k]
    BY <1>8, <2>2
  <2>4. begun[k].value = store.map[k].value /\ begun[k].expireAt = store.map[k].expireAt
    <3>1. Contents(store)[k] = [value |-> store.map[k].value, expireAt |-> store.map[k].expireAt]
      BY <2>2 DEF Contents
    <3> QED
      BY <2>3, <3>1
  <2>5. HasCopy(tmp, k, begun[k])
    BY <1>9, <2>2, <2>4 DEF CoversBut, IsLive
  <2> QED
    BY <1>4, <2>1, <2>4, <2>5 DEF HasCopy, CopyOf
<1> QED
  BY <1>7, <1>10, <1>11, <1>12 DEF IInv

LEMMA FailSaveInv ==
  ASSUME IInv, FailSave
  PROVE  IInv'
<1>1. UNCHANGED <<lastCheck, now, dump, unread, done, lost>>
  BY DEF FailSave
<1>2. /\ Saving /\ unwritten' = {} /\ tmp' = <<>> /\ begun' = Nothing
      /\ phase' \in {"serving", "down"}
      /\ phase' = "serving" <=> phase = "saving"
  BY DEF FailSave, Return, Saving
<1>3. store' = IF phase = "saving" THEN store ELSE EmptyStore
  BY DEF FailSave
<1>4. failures' \in 0 .. MaxFailures
  BY MaxFailuresAssumption DEF FailSave, IInv, Typed
<1>5. Good(store', {}) /\ (phase' = "down" => store' = EmptyStore)
  BY <1>2, <1>3, EmptyStoreFacts DEF IInv, Typed
<1>6. Typed'
  BY <1>1, <1>2, <1>4, <1>5, NothingFacts, EmptySeq DEF IInv, Typed, Saving
<1>7. now' \in Time /\ now <= now'
  BY <1>1 DEF IInv, Typed, Time
<1>8. DumpInv'
  BY <1>1, <1>7, DumpKept
<1>9. SaveInv' /\ LoadInv'
  BY <1>2 DEF SaveInv, LoadInv, Saving
<1>10. CleanInv'
  BY <1>1, <1>2, <1>3 DEF IInv, CleanInv
<1> QED
  BY <1>6, <1>8, <1>9, <1>10 DEF IInv

-----------------------------------------------------------------------------
(***************************************************************************)
(* Dying and coming back.                                                  *)
(***************************************************************************)
LEMMA KillInv ==
  ASSUME IInv, Kill
  PROVE  IInv'
<1>1. UNCHANGED <<lastCheck, now, dump, failures, done, lost>>
  BY DEF Kill
<1>2. /\ phase' = "down" /\ store' = EmptyStore /\ unwritten' = {} /\ tmp' = <<>>
      /\ unread' = <<>> /\ begun' = Nothing
  BY DEF Kill
<1>3. Typed'
  BY <1>1, <1>2, NothingFacts, EmptyStoreFacts, EmptySeq DEF IInv, Typed, Saving
<1>4. now' \in Time /\ now <= now'
  BY <1>1 DEF IInv, Typed, Time
<1>5. DumpInv'
  BY <1>1, <1>4, DumpKept
<1> QED
  BY <1>2, <1>3, <1>5 DEF IInv, SaveInv, LoadInv, CleanInv, Saving

LEMMA StartInv ==
  ASSUME IInv, Start
  PROVE  IInv'
<1>1. UNCHANGED <<store, now, unwritten, tmp, dump, failures, begun, done, lost>>
  BY DEF Start, history
<1>2. phase = "down" /\ phase' = "loading" /\ lastCheck' = "unset" /\ unread' = LoadV2(dump)
  BY DEF Start
<1>3. unread' \in Seq(Record)
  BY <1>2, LoadTyped DEF IInv, Typed
<1>4. Typed'
  BY <1>1, <1>2, <1>3 DEF IInv, Typed, Saving
<1>5. DumpInv'
  BY <1>1 DEF IInv, DumpInv
<1>6. DOMAIN store'.map = {}
  BY <1>1, <1>2, EmptyStoreFacts DEF IInv, Typed
<1>7. OncePerKey(unread')
  BY <1>2 DEF IInv, DumpInv
<1>8. LoadInv'
  BY <1>1, <1>2, <1>6, <1>7 DEF LoadInv
<1> QED
  BY <1>2, <1>4, <1>5, <1>8 DEF IInv, SaveInv, CleanInv, Saving

LEMMA ServeInv ==
  ASSUME IInv, Serve
  PROVE  IInv'
<1>1. UNCHANGED <<store, lastCheck, now, unwritten, tmp, dump, unread, failures, begun, done, lost>>
  BY DEF Serve, files, history
<1>2. phase = "loading" /\ phase' = "serving" /\ unread = <<>>
  BY DEF Serve
<1>3. Typed' /\ DumpInv'
  BY <1>1, <1>2 DEF IInv, Typed, DumpInv, Saving
<1>4. CleanInv'
  BY <1>1, <1>2 DEF IInv, LoadInv, CleanInv, LiveKeys
<1> QED
  BY <1>2, <1>3, <1>4 DEF IInv, SaveInv, LoadInv, Saving

\* A key that is bound afresh, and what unbinding it leaves.
LEMMA PutWithout ==
  ASSUME NEW s, NEW k, NEW e, NEW d
  PROVE  /\ Put(Put(Contents(s), k, e), k, d) = Put(Contents(s), k, d)
         /\ k \notin DOMAIN s.map => Without(Put(Contents(s), k, e), k) = Contents(s)
BY DEF Contents, Put, Without

\* The entry of a key, from the contents of its store.
LEMMA PutEntry ==
  ASSUME NEW s, NEW m, NEW k, NEW c, Contents(s) = Put(m, k, c)
  PROVE  k \in DOMAIN s.map /\ s.map[k].value = c.value /\ s.map[k].expireAt = c.expireAt
<1>1. k \in DOMAIN Contents(s) /\ Contents(s)[k] = c
  BY DEF Put
<1>2. k \in DOMAIN s.map
  BY <1>1 DEF Contents
<1>3. Contents(s)[k] = [value |-> s.map[k].value, expireAt |-> s.map[k].expireAt]
  BY <1>2 DEF Contents
<1> QED
  BY <1>1, <1>2, <1>3

\* Installing a record adds its key, unless the record is due or empty.
LEMMA InstallRecordFacts ==
  ASSUME NEW s, Good(s, {}), NEW r \in Record, r.key \notin DOMAIN s.map, NEW t \in Int,
         NEW x, x = InstallRecord(s, r, t)
  PROVE  /\ Good(x, {}) /\ x.dirty = TRUE
         /\ IF IsLive(Restored(r), t) /\ ~IsEmptyCollection(r.value)
            THEN Contents(x) = Put(Contents(s), r.key, Restored(r))
            ELSE Contents(x) = Contents(s)
<1>1. r.key \in Keys /\ r.value \in Value /\ r.expireAt \in Expiry
  BY DEF Record
<1>2. r.value.type \in StoreType /\ r.value.size \in Nat
  BY <1>1 DEF Value
<1>3. PICK k : k = r.key
  OBVIOUS
<1>4. PICK i : i = IF r.value.type \in Collections
                   THEN SetSize(GetOrCreate(s, k, r.value.type, t), k, r.value.size)
                   ELSE Install(s, k, r.value)
  OBVIOUS
<1>5. PICK e : e = IF r.expireAt < 0 THEN i ELSE SetExpireAt(i, k, FromMillis(r.expireAt), t)
  OBVIOUS
<1>6. x = DeleteIfEmpty(e, k, t)
  BY <1>3, <1>4, <1>5 DEF InstallRecord
<1>7. /\ Good(i, {k}) /\ i.dirty = TRUE
      /\ Contents(i) = Put(Contents(s), k, [value |-> r.value, expireAt |-> Never])
  <2>1. CASE r.value.type \in Collections
    <3>1. PICK v : v = [type |-> r.value.type, size |-> 0]
      OBVIOUS
    <3>2. v \in Value /\ v.type = r.value.type
      BY <1>2, <3>1 DEF Value
    <3>3. PICK g : g = Install(s, k, v)
      OBVIOUS
    <3>4. GetOrCreate(s, k, r.value.type, t) = g
      BY <1>3, <3>1, <3>3 DEF GetOrCreate, Find, Has
    <3>5. i = SetSize(g, k, r.value.size)
      BY <1>4, <2>1, <3>4
    <3>6. Good(g, {} \cup {k})
      BY <1>1, <1>3, <3>2, <3>3, InstallFacts
    <3>7. Contents(g) = Put(Contents(s), k, [value |-> v, expireAt |-> Never])
      BY <1>1, <1>3, <3>2, <3>3, InstallContents
    <3>8. k \in DOMAIN g.map /\ g.map[k].value = v /\ g.map[k].expireAt = Never
      <4>1. PICK c : c = [value |-> v, expireAt |-> Never]
        OBVIOUS
      <4>2. Contents(g) = Put(Contents(s), k, c)
        BY <3>7, <4>1
      <4>3. k \in DOMAIN g.map /\ g.map[k].value = c.value /\ g.map[k].expireAt = c.expireAt
        BY <4>2, PutEntry
      <4> QED
        BY <4>1, <4>3
    <3>9. Good(i, ({} \cup {k}) \cup {k})
      BY <1>2, <3>5, <3>6, <3>8, SetSizeFacts
    <3>10. /\ Contents(i) = Put(Contents(g), k, [value |-> [type |-> g.map[k].value.type, size |-> r.value.size],
                                               expireAt |-> g.map[k].expireAt])
           /\ i.dirty = TRUE
      BY <1>2, <3>5, <3>6, <3>8, SetSizeContents
    <3>11. [type |-> g.map[k].value.type, size |-> r.value.size] = r.value
      BY <1>1, <3>2, <3>8 DEF Value
    <3>12. Contents(i) = Put(Contents(g), k, [value |-> r.value, expireAt |-> Never])
      BY <3>8, <3>10, <3>11
    <3>13. Contents(i) = Put(Contents(s), k, [value |-> r.value, expireAt |-> Never])
      BY <3>7, <3>12, PutWithout
    <3> QED
      BY <3>9, <3>10, <3>13, GoodWeaken
  <2>2. CASE r.value.type \notin Collections
    <3>1. i = Install(s, k, r.value)
      BY <1>4, <2>2
    <3>2. Good(i, {} \cup {k})
      BY <1>1, <1>3, <3>1, InstallFacts
    <3>3. /\ Contents(i) = Put(Contents(s), k, [value |-> r.value, expireAt |-> Never])
          /\ i.dirty = TRUE
      BY <1>1, <1>3, <3>1, InstallContents
    <3> QED
      BY <3>2, <3>3, GoodWeaken
  <2> QED
    BY <2>1, <2>2
<1>8. k \in DOMAIN i.map /\ i.map[k].value = r.value /\ i.map[k].expireAt = Never
  <2>1. PICK c : c = [value |-> r.value, expireAt |-> Never]
    OBVIOUS
  <2>2. Contents(i) = Put(Contents(s), k, c)
    BY <1>7, <2>1
  <2>3. k \in DOMAIN i.map /\ i.map[k].value = c.value /\ i.map[k].expireAt = c.expireAt
    BY <2>2, PutEntry
  <2> QED
    BY <2>1, <2>3
<1>9. /\ Good(e, {k}) /\ e.dirty = TRUE
      /\ Contents(e) = Put(Contents(s), k, Restored(r))
  <2>1. CASE r.expireAt < 0
    <3>1. Restored(r) = [value |-> r.value, expireAt |-> Never]
      BY <2>1 DEF Restored
    <3> QED
      BY <1>5, <1>7, <2>1, <3>1
  <2>2. CASE ~(r.expireAt < 0)
    <3>1. PICK at : at = FromMillis(r.expireAt)
      OBVIOUS
    <3>2. at \in Nat /\ at \in Expiry
      BY <1>1, <2>2, <3>1, RestoredFacts DEF Expiry, Never
    <3>3. e = SetExpireAt(i, k, at, t)
      BY <1>5, <2>2, <3>1
    <3>4. Good(e, {k})
      BY <1>7, <3>2, <3>3, SetExpireAtFacts
    <3>5. IsLive(i.map[k], t)
      BY <1>8 DEF IsLive
    <3>6. /\ Contents(e) = Put(Contents(i), k, [value |-> i.map[k].value, expireAt |-> at])
          /\ e.dirty = TRUE
      BY <1>7, <1>8, <3>2, <3>3, <3>5, SetExpireAtContents
    <3>7. Restored(r) = [value |-> r.value, expireAt |-> at]
      BY <2>2, <3>1 DEF Restored
    <3> QED
      BY <1>7, <1>8, <3>4, <3>6, <3>7, PutWithout
  <2> QED
    BY <2>1, <2>2
<1>10. k \in DOMAIN e.map /\ e.map[k].value = r.value /\ e.map[k].expireAt = Restored(r).expireAt
  <2>1. PICK c : c = Restored(r)
    OBVIOUS
  <2>2. Contents(e) = Put(Contents(s), k, c)
    BY <1>9, <2>1
  <2>3. k \in DOMAIN e.map /\ e.map[k].value = c.value /\ e.map[k].expireAt = c.expireAt
    BY <2>2, PutEntry
  <2> QED
    BY <1>1, <2>1, <2>3, RestoredFacts
<1>11. Good(x, {})
  BY <1>6, <1>9, DeleteIfEmptyFacts
<1>12. IsLive(e.map[k], t) <=> IsLive(Restored(r), t)
  BY <1>10 DEF IsLive
<1>13. CASE IsLive(Restored(r), t) /\ ~IsEmptyCollection(r.value)
  <2>1. x = e
    BY <1>6, <1>9, <1>10, <1>12, <1>13, DeleteIfEmptyContents
  <2> QED
    BY <1>3, <1>9, <1>11, <1>13, <2>1
<1>14. CASE ~(IsLive(Restored(r), t) /\ ~IsEmptyCollection(r.value))
  <2>1. Contents(x) = Without(Contents(e), k) /\ x.dirty = TRUE
    <3>1. k \in DOMAIN e.map /\ (~IsLive(e.map[k], t) \/ IsEmptyCollection(e.map[k].value))
      BY ONLY <1>10, <1>12, <1>14
    <3>2. Good(e, {k}) /\ x = DeleteIfEmpty(e, k, t)
      BY <1>6, <1>9
    <3> QED
      BY ONLY <3>1, <3>2, DeleteIfEmptyContents
  <2>2. Contents(x) = Contents(s)
    BY <1>3, <1>9, <2>1, PutWithout
  <2> QED
    BY <1>11, <1>14, <2>1, <2>2
<1> QED
  BY <1>13, <1>14

\* One more record is installed: the others stay as they are.
LEMMA LoadEntryInv ==
  ASSUME IInv, LoadEntry
  PROVE  IInv'
<1>1. UNCHANGED <<phase, lastCheck, now, unwritten, tmp, dump, failures, begun, done, lost>>
  BY DEF LoadEntry, history
<1>2. phase = "loading" /\ unread # <<>> /\ unread' = Tail(unread)
  BY DEF LoadEntry
<1>3. PICK r : r = Head(unread)
  OBVIOUS
<1>4. PICK L : L = LoadV2(dump)
  OBVIOUS
<1>5. Good(store, {}) /\ now \in Int /\ unread \in Seq(Record)
  BY DEF IInv, Typed, Time
<1>6. Len(unread) \in Nat \ {0} /\ DOMAIN unread = 1 .. Len(unread)
  BY <1>2, <1>5, EmptySeq, LenProperties
<1>7. r \in Record /\ r = unread[1] /\ 1 \in DOMAIN unread
  BY <1>2, <1>3, <1>5, <1>6, HeadTailProperties
<1>8. /\ unread' \in Seq(Record) /\ Len(unread') = Len(unread) - 1
      /\ \A j \in 1 .. Len(unread') : unread'[j] = unread[j + 1]
  BY <1>2, <1>5, HeadTailProperties
<1>9. DOMAIN unread' = 1 .. Len(unread) - 1
  BY <1>8, LenProperties
<1>10. \A j \in DOMAIN unread' : j + 1 \in DOMAIN unread /\ j + 1 # 1 /\ unread'[j] = unread[j + 1]
  BY <1>6, <1>8, <1>9
<1>11. \A j \in DOMAIN unread : j = 1 \/ (j - 1 \in DOMAIN unread' /\ unread'[j - 1] = unread[j])
  BY <1>6, <1>8, <1>9
<1>12. /\ OncePerKey(unread)
       /\ \A j \in DOMAIN unread : /\ unread[j].key \notin DOMAIN store.map
                                   /\ \E i \in DOMAIN L : L[i] = unread[j]
       /\ \A i \in DOMAIN L : \/ \E j \in DOMAIN unread : unread[j] = L[i]
                              \/ Installed(store, L[i])
                              \/ ~IsLive(Restored(L[i]), now)
                              \/ IsEmptyCollection(L[i].value)
       /\ \A k \in DOMAIN store.map : \E i \in DOMAIN L : L[i].key = k /\ Installed(store, L[i])
  BY <1>2, <1>4 DEF IInv, LoadInv
<1>13. r.key \notin DOMAIN store.map
  BY <1>7, <1>12
<1>14. PICK c : c = Restored(r)
  OBVIOUS
<1>15. /\ Good(store', {}) /\ store'.dirty = TRUE
       /\ IF IsLive(Restored(r), now) /\ ~IsEmptyCollection(r.value)
          THEN Contents(store') = Put(Contents(store), r.key, c)
          ELSE Contents(store') = Contents(store)
  <2>1. PICK x : x = InstallRecord(store, r, now)
    OBVIOUS
  <2>2. store' = x
    BY <1>3, <2>1 DEF LoadEntry
  <2>3. r \in Record /\ Good(store, {}) /\ now \in Int
    BY <1>5, <1>7
  <2>4. /\ Good(x, {}) /\ x.dirty = TRUE
        /\ IF IsLive(Restored(r), now) /\ ~IsEmptyCollection(r.value)
           THEN Contents(x) = Put(Contents(store), r.key, Restored(r))
           ELSE Contents(x) = Contents(store)
    BY <1>13, <2>1, <2>3, InstallRecordFacts
  <2> QED
    BY <1>14, <2>2, <2>4
<1>16. DOMAIN Contents(store) = DOMAIN store.map /\ DOMAIN Contents(store') = DOMAIN store'.map
  BY DEF Contents
<1>17. /\ \A k \in DOMAIN store.map : k \in DOMAIN store'.map /\ Contents(store')[k] = Contents(store)[k]
       /\ \A k \in DOMAIN store'.map : k \in DOMAIN store.map \/ (k = r.key /\ Installed(store', r))
       /\ IsLive(Restored(r), now) /\ ~IsEmptyCollection(r.value) => Installed(store', r)
  <2>1. CASE IsLive(Restored(r), now) /\ ~IsEmptyCollection(r.value)
    <3>1. Contents(store') = Put(Contents(store), r.key, c)
      BY <1>15, <2>1
    <3>2. /\ DOMAIN store'.map = DOMAIN store.map \cup {r.key}
          /\ Contents(store')[r.key] = c
          /\ \A k \in DOMAIN store.map : Contents(store')[k] = Contents(store)[k]
      BY <1>13, <1>16, <3>1 DEF Put
    <3> QED
      BY <1>14, <3>2 DEF Installed
  <2>2. CASE ~(IsLive(Restored(r), now) /\ ~IsEmptyCollection(r.value))
    <3>1. Contents(store') = Contents(store)
      BY <1>15, <2>2
    <3> QED
      BY <1>16, <2>2, <3>1
  <2> QED
    BY <2>1, <2>2
<1>18. \A q : Installed(store, q) => Installed(store', q)
  BY <1>17 DEF Installed
<1>19. Typed'
  BY <1>1, <1>2, <1>8, <1>15 DEF IInv, Typed, Saving
<1>20. DumpInv'
  BY <1>1 DEF IInv, DumpInv
<1>21. LoadInv'
  <2>1. LoadV2(dump') = L
    BY <1>1, <1>4
  <2>2. OncePerKey(unread')
    <3> SUFFICES ASSUME NEW i \in DOMAIN unread', NEW j \in DOMAIN unread',
                        unread'[i].key = unread'[j].key
                 PROVE  i = j
      BY DEF OncePerKey
    <3>1. i + 1 = j + 1
      BY <1>10, <1>12 DEF OncePerKey
    <3> QED
      BY <1>6, <1>9, <3>1
  <2>3. \A j \in DOMAIN unread' : unread'[j].key # r.key
    BY <1>7, <1>10, <1>12 DEF OncePerKey
  <2>4. \A j \in DOMAIN unread' : /\ unread'[j].key \notin DOMAIN store'.map
                                  /\ \E i \in DOMAIN L : L[i] = unread'[j]
    BY <1>10, <1>12, <1>17, <2>3
  <2>5. \A i \in DOMAIN L : \/ \E j \in DOMAIN unread' : unread'[j] = L[i]
                           \/ Installed(store', L[i])
                           \/ ~IsLive(Restored(L[i]), now)
                           \/ IsEmptyCollection(L[i].value)
    BY <1>7, <1>11, <1>12, <1>17, <1>18
  <2>6. \E i \in DOMAIN L : L[i] = r
    BY <1>7, <1>12
  <2>7. \A k \in DOMAIN store'.map : \E i \in DOMAIN L : L[i].key = k /\ Installed(store', L[i])
    BY <1>12, <1>17, <1>18, <2>6
  <2> QED
    BY <1>1, <1>15, <2>1, <2>2, <2>4, <2>5, <2>7 DEF LoadInv
<1> QED
  BY <1>1, <1>2, <1>19, <1>20, <1>21 DEF IInv, SaveInv, CleanInv, Saving

-----------------------------------------------------------------------------
(***************************************************************************)
(* One round of the save.                                                  *)
(***************************************************************************)

\* A lookup leaves the store alone, or drops the key and marks the store.
LEMMA FindEither ==
  ASSUME NEW s, Good(s, {}), NEW k, NEW t, NEW r, r = Find(s, k, t)
  PROVE  r = s \/ (r.dirty = TRUE /\ Contents(r) = Without(Contents(s), k))
BY FindContents

\* g is what two lookups of k leave, the second one at u: k is gone if it is
\* due by then, and nothing else.
FoundTwice(s, k, u, f, g) ==
  /\ Good(f, {}) /\ Good(g, {})
  /\ g = s \/ g.dirty = TRUE
  /\ Has(g, k) <=> k \in DOMAIN s.map /\ IsLive(s.map[k], u)
  /\ Has(g, k) => f = s /\ g = s
  /\ DOMAIN g.map \subseteq DOMAIN s.map /\ DOMAIN s.map \subseteq DOMAIN g.map \cup {k}
  /\ \A y \in DOMAIN g.map : Contents(g)[y] = Contents(s)[y]

LEMMA FindTwice ==
  ASSUME NEW s, Good(s, {}), NEW k, NEW t \in Int, NEW u \in Int, t <= u,
         NEW f, f = Find(s, k, t), NEW g, g = Find(f, k, u)
  PROVE  FoundTwice(s, k, u, f, g)
<1>1. Good(f, {}) /\ Good(g, {})
  BY FindFacts
<1>2. /\ Has(f, k) <=> k \in DOMAIN s.map /\ IsLive(s.map[k], t)
      /\ Has(f, k) => f = s
  BY FindHas
<1>3. /\ Has(g, k) <=> k \in DOMAIN f.map /\ IsLive(f.map[k], u)
      /\ Has(g, k) => g = f
  BY <1>1, FindHas
<1>4. k \in DOMAIN s.map /\ IsLive(s.map[k], u) => IsLive(s.map[k], t)
  BY StoreFacts, LiveBefore
<1>5. /\ Has(g, k) <=> k \in DOMAIN s.map /\ IsLive(s.map[k], u)
      /\ Has(g, k) => f = s /\ g = s
  BY <1>2, <1>3, <1>4 DEF Has
<1>6. f = s \/ (f.dirty = TRUE /\ Contents(f) = Without(Contents(s), k))
  BY FindEither
<1>7. g = f \/ (g.dirty = TRUE /\ Contents(g) = Without(Contents(f), k))
  BY <1>1, FindEither
<1>8. \A x : DOMAIN Contents(x) = DOMAIN x.map
  BY DEF Contents
<1>9. /\ DOMAIN f.map \subseteq DOMAIN s.map /\ DOMAIN s.map \subseteq DOMAIN f.map \cup {k}
      /\ \A y \in DOMAIN f.map : Contents(f)[y] = Contents(s)[y]
  BY <1>6, <1>8 DEF Without
<1>10. /\ DOMAIN g.map \subseteq DOMAIN f.map /\ DOMAIN f.map \subseteq DOMAIN g.map \cup {k}
       /\ \A y \in DOMAIN g.map : Contents(g)[y] = Contents(f)[y]
  BY <1>7, <1>8 DEF Without
<1>11. g = s \/ g.dirty = TRUE
  BY <1>6, <1>7
<1> QED
  BY <1>1, <1>5, <1>9, <1>10, <1>11 DEF FoundTwice

\* The deadline that is written, and what makes it one of the entry e: none
\* if e has none, and otherwise no earlier than the two truncations make it.
Deadline(f, k, t2, t3) == IF PttlMs(f, k, t2) < 0 THEN Never ELSE AsMillis(t3) + PttlMs(f, k, t2)
DeadlineOf(at, e) ==
  IF e.expireAt = Never THEN at = Never
  ELSE at \in Nat /\ FromMillis(at) + Truncated >= e.expireAt

\* The time e - u that was left at u, added to the later v.
LEMMA TruncatedTwice ==
  ASSUME NEW e \in Nat, NEW u \in Nat, NEW v \in Nat, u <= v, u <= e,
         NEW at, at = AsMillis(v) + AsMillis(e - u)
  PROVE  at \in Nat /\ FromMillis(at) + Truncated >= e
<1>1. e - u \in Nat /\ Milli \in Nat \ {0}
  BY MilliAssumption
<1>2. PICK a : a = AsMillis(v)
  OBVIOUS
<1>3. PICK b : b = AsMillis(e - u)
  OBVIOUS
<1>4. PICK n : n = e - u
  OBVIOUS
<1>5. a \in Nat /\ v <= Milli * a + (Milli - 1)
  BY <1>1, <1>2, MillisFacts DEF AsMillis
<1>6. b \in Nat /\ n <= Milli * b + (Milli - 1)
  BY <1>1, <1>3, <1>4, MillisFacts DEF AsMillis
<1>7. FromMillis(at) = Milli * a + Milli * b /\ Milli * a \in Nat /\ Milli * b \in Nat
  BY <1>1, <1>2, <1>3, <1>5, <1>6, TimesFacts DEF FromMillis
<1>8. PICK x, y : x = Milli * a /\ y = Milli * b
  OBVIOUS
<1>9. x \in Nat /\ y \in Nat /\ v <= x + (Milli - 1) /\ e - u <= y + (Milli - 1)
  BY <1>4, <1>5, <1>6, <1>7, <1>8
<1>10. x + y + 2 * (Milli - 1) >= e
  BY <1>1, <1>9
<1> QED
  BY <1>2, <1>3, <1>5, <1>6, <1>7, <1>8, <1>10 DEF Truncated

LEMMA DeadlineFacts ==
  ASSUME NEW f, Good(f, {}), NEW k, NEW t2 \in Nat, NEW t3 \in Nat, t2 <= t3
  PROVE  /\ Deadline(f, k, t2, t3) \in Expiry
         /\ Has(f, k) /\ IsLive(f.map[k], t3) => DeadlineOf(Deadline(f, k, t2, t3), f.map[k])
<1>1. CASE ~Has(f, k)
  BY <1>1 DEF Deadline, PttlMs, Expiry
<1>2. CASE Has(f, k)
  <2>1. f.map[k].expireAt \in Expiry
    BY <1>2, StoreFacts DEF Has
  <2>2. CASE f.map[k].expireAt = Never
    BY <1>2, <2>2 DEF Deadline, DeadlineOf, PttlMs, Expiry
  <2>3. CASE f.map[k].expireAt # Never
    <3>1. PICK e \in Nat : e = f.map[k].expireAt
      BY <2>1, <2>3 DEF Expiry
    <3>2. CASE e < t2
      <4>1. PttlMs(f, k, t2) = 0
        BY <1>2, <2>3, <3>1, <3>2 DEF PttlMs
      <4>2. AsMillis(t3) \in Nat
        BY MilliAssumption, MillisFacts DEF AsMillis
      <4>3. Deadline(f, k, t2, t3) = AsMillis(t3)
        BY <4>1, <4>2 DEF Deadline
      <4>4. ~IsLive(f.map[k], t3)
        BY <2>3, <3>1, <3>2 DEF IsLive
      <4> QED
        BY <4>2, <4>3, <4>4 DEF Expiry
    <3>3. CASE ~(e < t2)
      <4>1. PttlMs(f, k, t2) = AsMillis(e - t2)
        BY <1>2, <2>3, <3>1, <3>3 DEF PttlMs
      <4>2. AsMillis(e - t2) \in Nat
        BY <3>3, MilliAssumption, MillisFacts DEF AsMillis
      <4>3. PICK at : at = AsMillis(t3) + AsMillis(e - t2)
        OBVIOUS
      <4>4. Deadline(f, k, t2, t3) = at
        BY <4>1, <4>2, <4>3 DEF Deadline
      <4>5. at \in Nat /\ FromMillis(at) + Truncated >= e
        BY <3>1, <3>3, <4>3, TruncatedTwice
      <4> QED
        BY <2>3, <3>1, <4>4, <4>5 DEF Expiry, DeadlineOf
    <3> QED
      BY <3>2, <3>3
  <2> QED
    BY <2>2, <2>3
<1> QED
  BY <1>1, <1>2

\* r is a record of a key whose snapshot is e: of its type, without deadline
\* only if e has none or is a string.
RecordFor(r, k, e) ==
  /\ r.key = k /\ r.value.type = e.value.type
  /\ r.expireAt = Never => e.expireAt = Never \/ r.value.type = "string"

LEMMA RecordOfFacts ==
  ASSUME NEW g, Good(g, {}), NEW x \in [key : Keys, type : StoreType], NEW e \in Saved,
         x.type = e.value.type, NEW at \in Expiry,
         Has(g, x.key) =>
           g.map[x.key].value = e.value /\ DeadlineOf(at, e),
         NEW rs, rs = RecordOf(x, g, at)
  PROVE  \/ rs = <<>> /\ ~Has(g, x.key)
         \/ \E r \in Record : /\ rs = <<r>> /\ RecordFor(r, x.key, e)
                              /\ Has(g, x.key) => CopyOf(Restored(r), e)
<1>1. e.value \in Value /\ e.expireAt \in Expiry /\ x.key \in Keys
  BY DEF Saved
<1>2. CASE Has(g, x.key)
  <2>1. PICK r : r = [key |-> x.key, value |-> e.value, expireAt |-> at]
    OBVIOUS
  <2>2. rs = <<r>>
    BY <1>2, <2>1 DEF RecordOf
  <2>3. r \in Record
    BY <1>1, <2>1 DEF Record
  <2>4. CopyOf(Restored(r), e)
    <3>1. r.expireAt = at /\ r.value = e.value /\ r.expireAt \in Expiry /\ DeadlineOf(at, e)
      BY <1>2, <2>1
    <3>2. Restored(r).value = e.value
      BY <3>1, RestoredFacts
    <3>3. CASE e.expireAt = Never
      <4>1. r.expireAt = Never
        BY <3>1, <3>3 DEF DeadlineOf
      <4>2. Restored(r).expireAt = Never
        BY <4>1, RestoredFacts DEF Expiry
      <4> QED
        BY <3>2, <3>3, <4>2 DEF CopyOf
    <3>4. CASE e.expireAt # Never
      <4>1. at \in Nat /\ FromMillis(at) + Truncated >= e.expireAt
        BY <3>1, <3>4 DEF DeadlineOf
      <4>2. Restored(r).expireAt = FromMillis(at) /\ FromMillis(at) \in Nat
        BY <3>1, <4>1, RestoredFacts
      <4>3. FromMillis(at) # Never
        BY <4>2 DEF Never
      <4> QED
        BY <3>2, <3>4, <4>1, <4>2, <4>3 DEF CopyOf
    <3> QED
      BY <3>3, <3>4
  <2>5. r.expireAt = Never => e.expireAt = Never
    BY <1>2, <2>1 DEF DeadlineOf, Never
  <2>6. RecordFor(r, x.key, e)
    BY <2>1, <2>5 DEF RecordFor
  <2> QED
    BY <2>2, <2>3, <2>4, <2>6
<1>3. CASE ~Has(g, x.key) /\ x.type = "string"
  <2>1. PICK r : r = [key |-> x.key, value |-> [type |-> "string", size |-> 0], expireAt |-> at]
    OBVIOUS
  <2>2. rs = <<r>>
    BY <1>3, <2>1 DEF RecordOf
  <2>3. r \in Record
    BY <1>1, <2>1 DEF Record, Value, StoreType
  <2>4. RecordFor(r, x.key, e)
    BY <1>3, <2>1 DEF RecordFor
  <2> QED
    BY <1>3, <2>2, <2>3, <2>4
<1>4. CASE ~Has(g, x.key) /\ x.type # "string"
  BY <1>4 DEF RecordOf
<1> QED
  BY <1>2, <1>3, <1>4

\* A file with one more record, or with none.
LEMMA GrowFacts ==
  ASSUME NEW q \in Seq(Record), NEW r \in Record
  PROVE  /\ q \o <<>> = q
         /\ q \o <<r>> \in Seq(Record)
         /\ DOMAIN (q \o <<r>>) = DOMAIN q \cup {Len(q) + 1}
         /\ Len(q) + 1 \notin DOMAIN q
         /\ (q \o <<r>>)[Len(q) + 1] = r
         /\ \A i \in DOMAIN q : (q \o <<r>>)[i] = q[i]
<1>1. <<r>> \in Seq(Record) /\ Len(<<r>>) = 1 /\ <<r>>[1] = r
  OBVIOUS
<1>2. DOMAIN q = 1 .. Len(q) /\ Len(q) \in Nat
  BY LenProperties
<1>3. PICK p : p = q \o <<r>>
  OBVIOUS
<1>4. /\ p \in Seq(Record) /\ Len(p) = Len(q) + 1
      /\ \A i \in 1 .. Len(q) + 1 : p[i] = IF i <= Len(q) THEN q[i] ELSE <<r>>[i - Len(q)]
  BY <1>1, <1>3, ConcatProperties
<1>5. DOMAIN p = 1 .. Len(q) + 1
  BY <1>4, LenProperties
<1>6. p[Len(q) + 1] = r
  BY <1>1, <1>2, <1>4
<1>7. q \o <<>> = q
  BY ConcatEmptySeq
<1> QED
  BY <1>2, <1>3, <1>4, <1>5, <1>6, <1>7

\* What a round for the key k makes of the file q: at most a record of k is
\* added to it.
Grows(q, p, k, m) ==
  /\ p \in Seq(Record) /\ OncePerKey(p) /\ From(p, m)
  /\ \A i \in DOMAIN p : p[i].key = k \/ \E j \in DOMAIN q : p[i] = q[j]
  /\ \A y, e : HasCopy(q, y, e) => HasCopy(p, y, e)

LEMMA GrowInv ==
  ASSUME NEW q \in Seq(Record), NEW m, NEW k \in DOMAIN m, NEW r \in Record,
         RecordFor(r, k, m[k]), OncePerKey(q), From(q, m), \A i \in DOMAIN q : q[i].key # k,
         NEW p, p = q \o <<r>>
  PROVE  Grows(q, p, k, m) /\ (CopyOf(Restored(r), m[k]) => HasCopy(p, k, m[k]))
<1>1. PICK n : n = Len(q) + 1
  OBVIOUS
<1>2. /\ p \in Seq(Record) /\ DOMAIN p = DOMAIN q \cup {n} /\ n \notin DOMAIN q /\ p[n] = r
      /\ \A i \in DOMAIN q : p[i] = q[i]
  BY <1>1, GrowFacts
<1>3. OncePerKey(p)
  BY <1>2 DEF OncePerKey, RecordFor
<1>4. From(p, m)
  BY <1>2 DEF From, RecordFor
<1>5. \A y, e : HasCopy(q, y, e) => HasCopy(p, y, e)
  BY <1>2 DEF HasCopy
<1>6. CopyOf(Restored(r), m[k]) => HasCopy(p, k, m[k])
  BY <1>2 DEF HasCopy, RecordFor
<1> QED
  BY <1>2, <1>3, <1>4, <1>5, <1>6 DEF RecordFor, Grows

LEMMA SaveEntryGrows ==
  ASSUME IInv, NEW x \in unwritten,
         NEW t1 \in Nat, NEW t2 \in Nat, NEW t3 \in Nat, NEW t4 \in Nat,
         SaveEntry(x, t1, t2, t3, t4)
  PROVE  /\ Good(store', {})
         /\ store' = store \/ store'.dirty = TRUE
         /\ Has(store', x.key) <=> x.key \in DOMAIN store.map /\ IsLive(store.map[x.key], t4)
         /\ DOMAIN store'.map \subseteq DOMAIN store.map
         /\ DOMAIN store.map \subseteq DOMAIN store'.map \cup {x.key}
         /\ \A y \in DOMAIN store'.map : Contents(store')[y] = Contents(store)[y]
         /\ Grows(tmp, tmp', x.key, begun)
         /\ Has(store', x.key) => HasCopy(tmp', x.key, begun[x.key])
<1>1. PICK k : k = x.key
  OBVIOUS
<1>2. PICK f : f = Find(store, k, t1)
  OBVIOUS
<1>3. PICK g : g = Find(f, k, t4)
  OBVIOUS
<1>4. PICK at : at = Deadline(f, k, t2, t3)
  OBVIOUS
<1>5. PICK rs : rs = RecordOf(x, g, at)
  OBVIOUS
<1>6. store' = g /\ tmp' = tmp \o rs /\ t1 <= t2 /\ t2 <= t3 /\ t3 <= t4 /\ Saving
  BY <1>1, <1>2, <1>3, <1>4, <1>5 DEF SaveEntry, Deadline
<1>7. /\ x \in [key : Keys, type : StoreType] /\ Good(store, {}) /\ begun \in Snapshots
      /\ tmp \in Seq(Record)
  BY DEF IInv, Typed
<1>8. /\ Good(f, {}) /\ Good(g, {})
      /\ g = store \/ g.dirty = TRUE
      /\ Has(g, k) <=> k \in DOMAIN store.map /\ IsLive(store.map[k], t4)
      /\ Has(g, k) => f = store /\ g = store
      /\ DOMAIN g.map \subseteq DOMAIN store.map /\ DOMAIN store.map \subseteq DOMAIN g.map \cup {k}
      /\ \A y \in DOMAIN g.map : Contents(g)[y] = Contents(store)[y]
  <2>1. t1 \in Int /\ t4 \in Int /\ t1 <= t4
    BY <1>6
  <2>2. Good(store, {})
    BY <1>7
  <2>3. FoundTwice(store, k, t4, f, g)
    BY <1>2, <1>3, <2>1, <2>2, FindTwice
  <2> QED
    BY <2>3 DEF FoundTwice
<1>9. /\ k \in DOMAIN begun /\ x.type = begun[k].value.type
      /\ OncePerKey(tmp) /\ From(tmp, begun) /\ \A i \in DOMAIN tmp : tmp[i].key # k
      /\ \A y \in DOMAIN begun \cap DOMAIN store.map : Contents(store)[y] = begun[y]
  BY <1>1, <1>6 DEF IInv, SaveInv
<1>10. begun[k] \in Saved /\ begun[k].expireAt \in Expiry
  BY <1>7, <1>9, SnapshotFacts
<1>11. ASSUME Has(g, k)
       PROVE  /\ g.map[k].value = begun[k].value /\ g.map[k].expireAt = begun[k].expireAt
              /\ Has(f, k) /\ f.map[k].expireAt = begun[k].expireAt /\ IsLive(f.map[k], t4)
  <2>1. f = store /\ g = store /\ k \in DOMAIN store.map /\ IsLive(store.map[k], t4)
    BY <1>8, <1>11
  <2>2. Contents(store)[k] = [value |-> store.map[k].value, expireAt |-> store.map[k].expireAt]
    BY <2>1 DEF Contents
  <2>3. Contents(store)[k] = begun[k]
    BY <1>9, <2>1
  <2> QED
    BY <2>1, <2>2, <2>3 DEF Has
<1>12. at \in Expiry
  BY <1>4, <1>6, <1>8, DeadlineFacts
<1>13. ASSUME Has(g, k)
       PROVE  DeadlineOf(at, begun[k])
  <2>1. f.map[k].expireAt \in Expiry /\ IsLive(f.map[k], t4)
    BY <1>10, <1>11, <1>13
  <2>2. IsLive(f.map[k], t3)
    BY <1>6, <2>1, LiveBefore
  <2>3. DeadlineOf(at, f.map[k])
    BY <1>4, <1>6, <1>8, <1>11, <1>13, <2>2, DeadlineFacts
  <2> QED
    BY <1>11, <1>13, <2>3 DEF DeadlineOf
<1>14. \/ rs = <<>> /\ ~Has(g, k)
       \/ \E r \in Record : /\ rs = <<r>> /\ RecordFor(r, k, begun[k])
                            /\ Has(g, k) => CopyOf(Restored(r), begun[k])
  <2>1. PICK e : e = begun[k]
    OBVIOUS
  <2>2. /\ x.type = e.value.type /\ e \in Saved
        /\ Has(g, x.key) => g.map[x.key].value = e.value /\ DeadlineOf(at, e)
    BY <1>1, <1>9, <1>10, <1>11, <1>13, <2>1
  <2>3. \/ rs = <<>> /\ ~Has(g, x.key)
        \/ \E r \in Record : /\ rs = <<r>> /\ RecordFor(r, x.key, e)
                             /\ Has(g, x.key) => CopyOf(Restored(r), e)
    BY <1>5, <1>7, <1>8, <1>12, <2>2, RecordOfFacts
  <2> QED
    BY <1>1, <2>1, <2>3
<1>15. Grows(tmp, tmp', k, begun) /\ (Has(g, k) => HasCopy(tmp', k, begun[k]))
  <2>1. CASE rs = <<>> /\ ~Has(g, k)
    <3>1. tmp' = tmp
      BY <1>6, <1>7, <2>1, ConcatEmptySeq
    <3> QED
      BY <1>7, <1>9, <2>1, <3>1 DEF Grows
  <2>2. CASE \E r \in Record : /\ rs = <<r>> /\ RecordFor(r, k, begun[k])
                               /\ Has(g, k) => CopyOf(Restored(r), begun[k])
    <3>1. PICK r \in Record : /\ rs = <<r>> /\ RecordFor(r, k, begun[k])
                              /\ Has(g, k) => CopyOf(Restored(r), begun[k])
      BY <2>2
    <3>2. tmp' = tmp \o <<r>>
      BY <1>6, <3>1
    <3>3. /\ tmp \in Seq(Record) /\ begun \in Snapshots /\ k \in DOMAIN begun
          /\ OncePerKey(tmp) /\ From(tmp, begun) /\ \A i \in DOMAIN tmp : tmp[i].key # k
          /\ RecordFor(r, k, begun[k])
      BY <1>7, <1>9, <3>1
    <3>4. Grows(tmp, tmp', k, begun) /\ (CopyOf(Restored(r), begun[k]) => HasCopy(tmp', k, begun[k]))
      BY <3>2, <3>3, GrowInv
    <3> QED
      BY <3>1, <3>4
  <2> QED
    BY <1>14, <2>1, <2>2
<1> QED
  BY <1>1, <1>6, <1>8, <1>15

LEMMA SaveEntryInv ==
  ASSUME IInv, NEW x \in unwritten,
         NEW t1 \in now .. MaxTime, NEW t2 \in now .. MaxTime,
         NEW t3 \in now .. MaxTime, NEW t4 \in now .. MaxTime,
         SaveEntry(x, t1, t2, t3, t4)
  PROVE  IInv'
<1>1. UNCHANGED <<phase, lastCheck, dump, unread, failures, begun, done, lost>>
  BY DEF SaveEntry, history
<1>2. Saving /\ unwritten' = unwritten \ {x} /\ now' = t4
  BY DEF SaveEntry
<1>3. now \in Time /\ Good(store, {}) /\ begun \in Snapshots
  BY DEF IInv, Typed
<1>4. t1 \in Nat /\ t2 \in Nat /\ t3 \in Nat /\ t4 \in Nat /\ t4 \in Time /\ now \in Int /\ now <= t4
  BY <1>3, MaxTimeAssumption DEF Time
<1>5. PICK k : k = x.key
  OBVIOUS
<1>6. /\ Good(store', {})
      /\ store' = store \/ store'.dirty = TRUE
      /\ Has(store', k) <=> k \in DOMAIN store.map /\ IsLive(store.map[k], t4)
      /\ DOMAIN store'.map \subseteq DOMAIN store.map
      /\ DOMAIN store.map \subseteq DOMAIN store'.map \cup {k}
      /\ \A y \in DOMAIN store'.map : Contents(store')[y] = Contents(store)[y]
      /\ Grows(tmp, tmp', k, begun)
      /\ Has(store', k) => HasCopy(tmp', k, begun[k])
  BY <1>4, <1>5, SaveEntryGrows
<1>7. /\ \A y \in unwritten : y.key \in DOMAIN begun /\ y.type = begun[y.key].value.type
      /\ \A y \in unwritten, i \in DOMAIN tmp : tmp[i].key # y.key
      /\ NoneEmpty(begun)
      /\ \A y \in DOMAIN begun : IsLive(begun[y], now) => y \in DOMAIN store.map
      /\ \A y \in DOMAIN begun \cap DOMAIN store.map : Contents(store)[y] = begun[y]
      /\ LiveKeys(store, now) \subseteq DOMAIN begun
  BY <1>2 DEF IInv, SaveInv
<1>8. CoversBut(tmp, begun, {y.key : y \in unwritten}, now)
  BY <1>2 DEF IInv, SaveInv
<1>9. Typed'
  BY <1>1, <1>2, <1>4, <1>6 DEF IInv, Typed, Saving, Grows
<1>10. DumpInv'
  BY <1>1, <1>2, <1>4, DumpKept
<1>11. \A y \in DOMAIN begun : IsLive(begun[y], t4) => IsLive(begun[y], now)
  BY <1>3, <1>4, SnapshotFacts, LiveBefore
<1>12. \A y \in unwritten' : y \in unwritten /\ y.key # k
  <2> SUFFICES ASSUME NEW y \in unwritten, y.key = k
               PROVE  y = x
    BY <1>2
  <2>1. y.type = x.type
    BY <1>5, <1>7
  <2>2. x \in [key : Keys, type : StoreType] /\ y \in [key : Keys, type : StoreType]
    BY DEF IInv, Typed
  <2> QED
    BY <1>5, <2>1, <2>2
<1>13. \A y \in DOMAIN begun : IsLive(begun[y], t4) => y \in DOMAIN store'.map
  <2> SUFFICES ASSUME NEW y \in DOMAIN begun, IsLive(begun[y], t4)
               PROVE  y \in DOMAIN store'.map
    OBVIOUS
  <2>1. y \in DOMAIN store.map
    BY <1>7, <1>11
  <2>2. CASE y # k
    BY <1>6, <2>1, <2>2
  <2>3. CASE y = k
    <3>1. Contents(store)[k] = begun[k]
      BY <1>7, <2>1, <2>3
    <3>2. Contents(store)[k] = [value |-> store.map[k].value, expireAt |-> store.map[k].expireAt]
      BY <2>1, <2>3 DEF Contents
    <3>3. store.map[k].expireAt = begun[k].expireAt
      BY <3>1, <3>2
    <3>4. IsLive(store.map[k], t4)
      BY <2>3, <3>3 DEF IsLive
    <3> QED
      BY <1>6, <2>1, <2>3, <3>4 DEF Has
  <2> QED
    BY <2>2, <2>3
<1>14. CoversBut(tmp', begun, {y.key : y \in unwritten'}, t4)
  <2> SUFFICES ASSUME NEW y \in DOMAIN begun, \A z \in unwritten' : z.key # y, IsLive(begun[y], t4)
               PROVE  HasCopy(tmp', y, begun[y])
    BY DEF CoversBut
  <2>1. CASE y = k
    BY <1>6, <1>13, <2>1 DEF Has
  <2>2. CASE y # k
    <3>1. \A z \in unwritten : z.key # y
      BY <1>2, <1>5, <2>2
    <3>2. y \in DOMAIN begun \ {z.key : z \in unwritten}
      BY <3>1
    <3>3. HasCopy(tmp, y, begun[y])
      BY <1>8, <1>11, <3>2 DEF CoversBut
    <3> QED
      BY <1>6, <3>3 DEF Grows
  <2> QED
    BY <2>1, <2>2
<1>15. LiveKeys(store', t4) \subseteq LiveKeys(store, now)
  <2> SUFFICES ASSUME NEW y \in DOMAIN store'.map, IsLive(store'.map[y], t4)
               PROVE  y \in DOMAIN store.map /\ IsLive(store.map[y], now)
    BY DEF LiveKeys
  <2>1. y \in DOMAIN store.map /\ Contents(store')[y] = Contents(store)[y]
    BY <1>6
  <2>2. /\ Contents(store)[y] = [value |-> store.map[y].value, expireAt |-> store.map[y].expireAt]
        /\ Contents(store')[y] = [value |-> store'.map[y].value, expireAt |-> store'.map[y].expireAt]
    BY <2>1 DEF Contents
  <2>3. store.map[y].expireAt = store'.map[y].expireAt
    BY <2>1, <2>2
  <2>4. store.map[y].expireAt \in Expiry
    BY <1>3, <2>1, StoreFacts
  <2>5. IsLive(store.map[y], t4)
    BY <2>3 DEF IsLive
  <2> QED
    BY <1>4, <2>1, <2>4, <2>5, LiveBefore
<1>16. SaveInv'
  <2>1. \A y \in unwritten' : y.key \in DOMAIN begun' /\ y.type = begun'[y.key].value.type
    BY <1>1, <1>7, <1>12
  <2>2. \A y \in unwritten', i \in DOMAIN tmp' : tmp'[i].key # y.key
    BY <1>6, <1>7, <1>12 DEF Grows
  <2>3. OncePerKey(tmp') /\ From(tmp', begun')
    BY <1>1, <1>6 DEF Grows
  <2>4. CoversBut(tmp', begun', {y.key : y \in unwritten'}, now')
    BY <1>1, <1>2, <1>14
  <2>5. \A y \in DOMAIN begun' : IsLive(begun'[y], now') => y \in DOMAIN store'.map
    BY <1>1, <1>2, <1>13
  <2>6. \A y \in DOMAIN begun' \cap DOMAIN store'.map : Contents(store')[y] = begun'[y]
    BY <1>1, <1>6, <1>7
  <2>7. LiveKeys(store', now') \subseteq DOMAIN begun' /\ NoneEmpty(begun')
    BY <1>1, <1>2, <1>7, <1>15
  <2> QED
    BY <2>1, <2>2, <2>3, <2>4, <2>5, <2>6, <2>7 DEF SaveInv
<1>17. LoadInv'
  BY <1>1, <1>2 DEF LoadInv, Saving
<1>18. CleanInv'
  <2>1. CASE store' = store
    BY <1>1, <1>2, <1>15, <2>1 DEF IInv, CleanInv
  <2>2. CASE store'.dirty = TRUE
    BY <2>2 DEF CleanInv
  <2> QED
    BY <1>6, <2>1, <2>2
<1> QED
  BY <1>9, <1>10, <1>16, <1>17, <1>18 DEF IInv

-----------------------------------------------------------------------------
(***************************************************************************)
(* A dump that is cut off.                                                 *)
(***************************************************************************)

\* p is what load_v2 reads of the records q once they are cut off in the
\* i-th: all before it, or nothing, and at most a part of that one.
CutTo(p, q, i, fails) ==
  /\ \A j \in DOMAIN p : /\ j \in DOMAIN q
                         /\ p[j].key = q[j].key /\ p[j].expireAt = q[j].expireAt
                         /\ p[j].value.type = q[j].value.type
  /\ ~fails => \A j \in 1 .. i - 1 : j \in DOMAIN p /\ p[j] = q[j]

LEMMA CutFacts ==
  ASSUME NEW q \in Seq(Record), NEW i \in DOMAIN q, NEW c \in Record,
         c.key = q[i].key, c.expireAt = q[i].expireAt, c.value.type = q[i].value.type,
         NEW f, f.tail \in {"whole", "line", "blob"},
         f.tail = "whole" => f.records = SubSeq(q, 1, i - 1),
         f.tail # "whole" => f.records = Append(SubSeq(q, 1, i - 1), c)
  PROVE  /\ f.records \in Seq(Record) /\ (f.tail = "line" => f.records # <<>>)
         /\ CutTo(LoadV2(f), q, i, f.tail = "blob")
<1>1. PICK b : b = SubSeq(q, 1, i - 1)
  OBVIOUS
<1>2. i \in 1 .. Len(q) /\ Len(q) \in Nat /\ DOMAIN q = 1 .. Len(q)
  BY LenProperties
<1>3. \A j \in 1 .. i - 1 : q[j] \in Record
  BY <1>2, ElementOfSeq
<1>4. /\ b \in Seq(Record) /\ Len(b) = i - 1
      /\ \A j \in 1 .. i - 1 : b[j] = q[j]
  <2>1. 1 \in Int /\ i - 1 \in Int /\ i >= 1
    BY <1>2
  <2>2. /\ b \in Seq(Record) /\ Len(b) = (IF 1 <= i - 1 THEN i - 1 - 1 + 1 ELSE 0)
        /\ \A j \in 1 .. i - 1 - 1 + 1 : b[j] = q[1 + j - 1]
    BY <1>1, <1>3, <2>1, SubSeqProperties
  <2> QED
    BY <2>1, <2>2
<1>5. DOMAIN b = 1 .. i - 1
  BY <1>4, LenProperties
<1>6. CutTo(b, q, i, FALSE)
  BY <1>2, <1>4, <1>5 DEF CutTo
<1>7. PICK a : a = Append(b, c)
  OBVIOUS
<1>8. /\ a \in Seq(Record) /\ Len(a) = i /\ a[i] = c /\ a # <<>>
      /\ \A j \in 1 .. i - 1 : a[j] = b[j]
  BY <1>2, <1>4, <1>7
<1>9. CASE f.tail = "whole"
  <2>1. f.records = b /\ LoadV2(f) = b
    BY <1>1, <1>9 DEF LoadV2, ReadFails
  <2> QED
    BY <1>4, <1>9, <1>6, <2>1
<1>10. CASE f.tail = "blob"
  <2>1. f.records = a /\ LoadV2(f) = <<>>
    BY <1>1, <1>7, <1>10 DEF LoadV2, ReadFails
  <2> QED
    BY <1>8, <1>10, <2>1 DEF CutTo
<1>11. CASE f.tail = "line"
  <2>1. f.records = a
    BY <1>1, <1>7, <1>11
  <2>2. LoadV2(f) = SubSeq(a, 1, i - 1) \o Partial(c)
    BY <1>8, <1>11, <2>1 DEF LoadV2, ReadFails
  <2>3. SubSeq(a, 1, i - 1) = b
    <3>1. PICK d : d = SubSeq(a, 1, i - 1)
      OBVIOUS
    <3>2. 1 \in Int /\ i - 1 \in Int /\ i >= 1 /\ \A j \in 1 .. i - 1 : a[j] \in Record
      BY <1>2, <1>3, <1>4, <1>8
    <3>3. /\ d \in Seq(Record) /\ Len(d) = (IF 1 <= i - 1 THEN i - 1 - 1 + 1 ELSE 0)
          /\ \A j \in 1 .. i - 1 - 1 + 1 : d[j] = a[1 + j - 1]
      BY <3>1, <3>2, SubSeqProperties
    <3>4. Len(d) = i - 1 /\ \A j \in 1 .. i - 1 : d[j] = a[j]
      BY <3>2, <3>3
    <3>5. \A j \in 1 .. Len(d) : d[j] = b[j]
      BY <1>8, <3>4
    <3> QED
      BY <1>4, <3>1, <3>3, <3>4, <3>5, SeqEqual
  <2>4. CASE c.value.type \in Collections
    <3>1. PICK p : p = b \o <<c>>
      OBVIOUS
    <3>2. LoadV2(f) = p
      BY <2>2, <2>3, <2>4, <3>1 DEF Partial
    <3>3. /\ DOMAIN p = DOMAIN b \cup {Len(b) + 1} /\ p[Len(b) + 1] = c
          /\ \A j \in DOMAIN b : p[j] = b[j]
      <4>1. b \in Seq(Record)
        BY <1>4
      <4> QED
        BY <3>1, <4>1, GrowFacts
    <3>4. Len(b) + 1 = i
      BY <1>2, <1>4
    <3>5. DOMAIN p = 1 .. i - 1 \cup {i} /\ p[i] = c /\ \A j \in 1 .. i - 1 : p[j] = q[j]
      BY <1>4, <1>5, <3>3, <3>4
    <3>6. CutTo(p, q, i, FALSE)
      BY <1>2, <3>5 DEF CutTo
    <3> QED
      BY <1>8, <1>11, <2>1, <3>2, <3>6
  <2>5. CASE c.value.type \notin Collections
    <3>1. LoadV2(f) = b
      BY <1>4, <2>2, <2>3, <2>5, ConcatEmptySeq DEF Partial
    <3> QED
      BY <1>8, <1>11, <1>6, <2>1, <3>1
  <2> QED
    BY <2>4, <2>5
<1> QED
  BY <1>9, <1>10, <1>11

LEMMA CutInv ==
  ASSUME IInv, NEW i \in DOMAIN dump.records, NEW tail \in {"whole", "line", "blob"},
         NEW size \in 0 .. MaxLen, Cut(i, tail, size)
  PROVE  IInv'
<1>1. UNCHANGED <<phase, store, lastCheck, now, unwritten, tmp, unread, failures, begun, done>>
  BY DEF Cut, process
<1>2. phase = "down" /\ dump.tail = "whole"
  BY DEF Cut
<1>3. PICK q : q = dump.records
  OBVIOUS
<1>4. LoadV2(dump) = q
  BY <1>2, <1>3 DEF LoadV2, ReadFails
<1>5. q \in Seq(Record) /\ done \in Snapshots /\ i \in DOMAIN q
  BY <1>3 DEF IInv, Typed
<1>6. \A j \in DOMAIN q : q[j] \in Record
  BY <1>5, LenProperties
<1>7. PICK c : c = [key |-> q[i].key, expireAt |-> q[i].expireAt,
                    value |-> [type |-> q[i].value.type, size |-> size]]
  OBVIOUS
<1>8. c \in Record
  <2>1. q[i].key \in Keys /\ q[i].expireAt \in Expiry /\ q[i].value.type \in StoreType
    BY <1>5, <1>6 DEF Record, Value
  <2>2. size \in Nat
    BY MaxLenAssumption
  <2> QED
    BY <1>7, <2>1, <2>2 DEF Record, Value
<1>9. dump' = [tail |-> tail,
               records |-> IF tail = "whole" THEN SubSeq(q, 1, i - 1)
                           ELSE Append(SubSeq(q, 1, i - 1), c)]
  BY <1>3, <1>7 DEF Cut
<1>10. lost' = IF tail = "blob" THEN DOMAIN done
               ELSE lost \cup {q[j].key : j \in i .. Len(q)}
  BY <1>3 DEF Cut
<1>11. PICK p : p = LoadV2(dump')
  OBVIOUS
<1>12. c.key = q[i].key /\ c.expireAt = q[i].expireAt /\ c.value.type = q[i].value.type
  BY <1>7
<1>13. /\ dump'.records \in Seq(Record) /\ (tail = "line" => dump'.records # <<>>)
       /\ CutTo(p, q, i, tail = "blob")
  <2>1. PICK f : f = dump'
    OBVIOUS
  <2>2. q \in Seq(Record) /\ i \in DOMAIN q
    BY <1>5
  <2>3. /\ f.tail = tail
        /\ f.tail = "whole" => f.records = SubSeq(q, 1, i - 1)
        /\ f.tail # "whole" => f.records = Append(SubSeq(q, 1, i - 1), c)
    BY <1>9, <2>1
  <2>4. /\ f.records \in Seq(Record) /\ (f.tail = "line" => f.records # <<>>)
        /\ CutTo(LoadV2(f), q, i, f.tail = "blob")
    BY <1>8, <1>12, <2>2, <2>3, CutFacts
  <2> QED
    BY <1>11, <2>1, <2>3, <2>4
<1>14. DOMAIN q = 1 .. Len(q) /\ Len(q) \in Nat
  BY <1>5, LenProperties
<1>15. lost' \subseteq Keys
  <2>1. \A j \in i .. Len(q) : q[j].key \in Keys
    BY <1>5, <1>6, <1>14 DEF Record
  <2>2. lost \subseteq Keys /\ DOMAIN done \subseteq Keys
    BY <1>5, SnapshotFacts DEF IInv, Typed
  <2> QED
    BY <1>10, <2>1, <2>2
<1>16. Typed'
  <2>1. dump'.tail = tail
    BY <1>9
  <2> QED
    BY <1>1, <1>13, <1>15, <2>1 DEF IInv, Typed, Saving
<1>17. OncePerKey(p) /\ From(p, done)
  <2>1. OncePerKey(q) /\ From(q, done)
    BY <1>4 DEF IInv, DumpInv
  <2>2. \A j \in DOMAIN p : /\ j \in DOMAIN q
                            /\ p[j].key = q[j].key /\ p[j].expireAt = q[j].expireAt
                            /\ p[j].value.type = q[j].value.type
    BY <1>13 DEF CutTo
  <2> QED
    BY <2>1, <2>2 DEF OncePerKey, From
<1>18. CoversBut(p, done, lost', now)
  <2> SUFFICES ASSUME NEW k \in DOMAIN done, k \notin lost', IsLive(done[k], now)
               PROVE  HasCopy(p, k, done[k])
    BY DEF CoversBut
  <2>1. tail # "blob" /\ k \notin lost /\ \A j \in i .. Len(q) : q[j].key # k
    BY <1>10
  <2>2. PICK j \in DOMAIN q : q[j].key = k /\ CopyOf(Restored(q[j]), done[k])
    BY <1>4, <2>1 DEF IInv, DumpInv, CoversBut, HasCopy
  <2>3. j \in 1 .. i - 1
    BY <1>5, <1>14, <2>1, <2>2
  <2>4. j \in DOMAIN p /\ p[j] = q[j]
    BY <1>13, <2>1, <2>3 DEF CutTo
  <2> QED
    BY <2>2, <2>4 DEF HasCopy
<1>19. DumpInv'
  BY <1>1, <1>11, <1>17, <1>18 DEF IInv, DumpInv
<1> QED
  BY <1>1, <1>2, <1>16, <1>19 DEF IInv, SaveInv, LoadInv, CleanInv, Saving

-----------------------------------------------------------------------------
(***************************************************************************)
(* The theorems.                                                           *)
(***************************************************************************)
LEMMA StepInv == IInv /\ [Next]_vars => IInv'
<1> SUFFICES ASSUME IInv, [Next]_vars
             PROVE  IInv'
  OBVIOUS
<1>1. ASSUME NEW w \in Writes, Write(w) PROVE IInv'
  BY <1>1, WriteInv
<1>2. ASSUME NEW k \in Keys, Remove(k) \/ Lookup(k) PROVE IInv'
  BY <1>2, RemoveInv, LookupInv
<1>3. CASE Tick
  BY <1>3, TickInv
<1>4. CASE SaveCommand \/ Shutdown \/ Autosave
  BY <1>4, SaveStartsInv
<1>5. CASE StartAutosaveClock \/ IntervalElapses
  BY <1>5, ClockStepInv
<1>6. ASSUME NEW x \in unwritten,
             NEW t1 \in now .. MaxTime, NEW t2 \in now .. MaxTime,
             NEW t3 \in now .. MaxTime, NEW t4 \in now .. MaxTime,
             SaveEntry(x, t1, t2, t3, t4)
      PROVE  IInv'
  BY <1>6, SaveEntryInv
<1>7. CASE EndSave \/ FailSave
  BY <1>7, EndSaveInv, FailSaveInv
<1>8. CASE Kill \/ Start \/ LoadEntry \/ Serve
  BY <1>8, KillInv, StartInv, LoadEntryInv, ServeInv
<1>9. ASSUME NEW i \in DOMAIN dump.records, NEW tail \in {"whole", "line", "blob"},
             NEW size \in 0 .. MaxLen, Cut(i, tail, size)
      PROVE  IInv'
  BY <1>9, CutInv
<1>10. CASE UNCHANGED vars
  <2>1. UNCHANGED <<phase, store, now, files, history, lastCheck>>
    BY <1>10 DEF vars, process
  <2> QED
    BY <2>1, ClockInv DEF IInv, Typed
<1> QED
  BY <1>1, <1>2, <1>3, <1>4, <1>5, <1>6, <1>7, <1>8, <1>9, <1>10 DEF Next

\* What IInv says of the files, the running save and the running load holds
\* in every reachable state.
THEOREM Invariance == Spec => []IInv
BY InitInv, StepInv, PTL DEF Spec

LEMMA TypedIsTypeOK == IInv => TypeOK
<1> SUFFICES ASSUME IInv
             PROVE  TypeOK
  OBVIOUS
<1>1. \A q \in {tmp, dump.records, unread} : \A i \in DOMAIN q : q[i] \in Record
  BY LenProperties DEF IInv, Typed
<1>2. DOMAIN store.map \subseteq Keys
  BY GoodFields DEF IInv, Typed
<1>3. Snapshot(begun) /\ Snapshot(done)
  BY SnapshotFacts DEF IInv, Typed, Snapshot
<1>4. \A x \in unwritten : x \in [key : Keys, type : StoreType]
  BY DEF IInv, Typed
<1> QED
  BY <1>1, <1>2, <1>3, <1>4 DEF IInv, Typed, TypeOK

\* A record that was loaded is in the store as it was in the file.
LEMMA InstalledEntry ==
  ASSUME NEW s, NEW r, Installed(s, r)
  PROVE  /\ r.key \in DOMAIN s.map
         /\ s.map[r.key].value = Restored(r).value
         /\ s.map[r.key].expireAt = Restored(r).expireAt
<1>1. r.key \in DOMAIN s.map
  BY DEF Installed
<1>2. Contents(s)[r.key] = [value |-> s.map[r.key].value, expireAt |-> s.map[r.key].expireAt]
  BY <1>1 DEF Contents
<1>3. Contents(s)[r.key] = Restored(r)
  BY DEF Installed
<1> QED
  BY <1>1, <1>2, <1>3

LEMMA NothingLost == IInv => KillLosesOnlyTheUnsaved
<1> SUFFICES ASSUME IInv, Loaded, NEW k \in DOMAIN done \ lost, IsLive(done[k], now + Truncated)
             PROVE  k \in DOMAIN store.map /\ CopyOf(store.map[k], done[k])
  BY DEF KillLosesOnlyTheUnsaved
<1>1. PICK L : L = LoadV2(dump)
  OBVIOUS
<1>2. done[k].expireAt \in Expiry /\ ~IsEmptyCollection(done[k].value) /\ now \in Int
  BY SnapshotFacts DEF IInv, Typed, DumpInv, NoneEmpty, Time
<1>3. Truncated \in Nat
  BY MilliAssumption DEF Truncated
<1>4. IsLive(done[k], now)
  BY <1>2, <1>3, LiveBefore
<1>5. PICK i \in DOMAIN L : L[i].key = k /\ CopyOf(Restored(L[i]), done[k])
  BY <1>1, <1>4 DEF IInv, DumpInv, CoversBut, HasCopy
<1>6. L[i].expireAt \in Expiry
  BY <1>1, LoadTyped DEF IInv, Typed
<1>7. Restored(L[i]).expireAt \in Expiry /\ Restored(L[i]).value = L[i].value
  BY <1>6, RestoredFacts
<1>8. IsLive(Restored(L[i]), now)
  BY <1>2, <1>3, <1>5, <1>7 DEF IsLive, CopyOf, Expiry, Never
<1>9. ~IsEmptyCollection(L[i].value)
  BY <1>2, <1>5, <1>7 DEF CopyOf
<1>10. \/ \E j \in DOMAIN unread : unread[j] = L[i]
       \/ Installed(store, L[i])
  BY <1>1, <1>8, <1>9 DEF IInv, LoadInv, Loaded
<1>11. DOMAIN unread = {}
  BY DEF Loaded
<1>12. Installed(store, L[i])
  BY <1>10, <1>11
<1>13. /\ k \in DOMAIN store.map
       /\ store.map[k].value = Restored(L[i]).value
       /\ store.map[k].expireAt = Restored(L[i]).expireAt
  BY <1>5, <1>12, InstalledEntry
<1> QED
  BY <1>5, <1>13 DEF CopyOf

LEMMA NothingPermanent == IInv => NothingMadePermanent
<1> SUFFICES ASSUME IInv, Loaded, NEW k \in LiveKeys(store, now)
             PROVE  /\ k \in DOMAIN done
                    /\ store.map[k].value.type = done[k].value.type
                    /\ \/ IsLive(done[k], now)
                       \/ store.map[k].expireAt # Never
                       \/ done[k].value.type = "string"
  BY DEF NothingMadePermanent
<1>1. PICK L : L = LoadV2(dump)
  OBVIOUS
<1>2. PICK i \in DOMAIN L : L[i].key = k /\ Installed(store, L[i])
  BY <1>1 DEF IInv, LoadInv, Loaded, LiveKeys
<1>3. /\ store.map[k].value = L[i].value
      /\ store.map[k].expireAt = Never <=> L[i].expireAt = Never
  <2>1. L[i].expireAt \in Expiry
    BY <1>1, LoadTyped DEF IInv, Typed
  <2> QED
    BY <1>2, <2>1, InstalledEntry, RestoredFacts
<1>4. /\ k \in DOMAIN done /\ L[i].value.type = done[k].value.type
      /\ L[i].expireAt = Never => done[k].expireAt = Never \/ L[i].value.type = "string"
  BY <1>1, <1>2 DEF IInv, DumpInv, From
<1> QED
  BY <1>3, <1>4 DEF IsLive

\* Every variable keeps its type; no records are pending in the wrong phase,
\* and a stopped server holds nothing.
THEOREM TypeCorrect == Spec => []TypeOK
BY Invariance, TypedIsTypeOK, PTL

\* A kill at any point of a save, a load or a command loses only what was
\* written since the last save that was renamed into place, and of a deadline
\* less than the two milliseconds that truncation takes.
THEOREM KillLosesOnlyTheUnsavedCorrect == Spec => []KillLosesOnlyTheUnsaved
BY Invariance, NothingLost, PTL

\* While autosave sees no unsaved change, the dump holds every live key, with
\* its deadline but for the truncation.
THEOREM CleanMeansSavedCorrect == Spec => []CleanMeansSaved
<1>1. IInv => CleanMeansSaved
  BY DEF IInv, CleanInv, CleanMeansSaved, HasCopy
<1> QED
  BY <1>1, Invariance, PTL

\* A load brings back only what the last save found, and no collection or
\* memory index loses its deadline on the way.
THEOREM NothingMadePermanentCorrect == Spec => []NothingMadePermanent
BY Invariance, NothingPermanent, PTL

=============================================================================
