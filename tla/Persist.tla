------------------------------ MODULE Persist ------------------------------
(***************************************************************************)
(* The snapshot on disk (src/src/persist.rs) and the life of a server      *)
(* process around it: load at startup, autosave and SAVE while it serves,  *)
(* a last save on the way out, and the kill that may come at any point in  *)
(* between.                                                                *)
(*                                                                         *)
(* A save runs in the only thread, so no command interrupts it; the clock  *)
(* does, and save_inner reads it anew at every lookup.  It writes one      *)
(* record per key to a temporary file, which it renames over the dump at   *)
(* the end.                                                                *)
(*                                                                         *)
(* Abstractions.  A file is its sequence of records; an absent dump is one *)
(* without records, and a temporary file that was left behind is gone, as  *)
(* the next save truncates it.  The clock is finer than a millisecond, the *)
(* unit of the dump's deadlines, and save_inner rounds down twice.  The    *)
(* dump path is fixed, and the reader of version 1 dumps is left out.      *)
(***************************************************************************)
EXTENDS Keyspace

CONSTANTS
  Writes,       \* what clients write: keys with a value and a deadline
  Milli,        \* the ticks of the clock in a millisecond
  MaxFailures   \* bound on the saves the disk fails

Record == [key : Keys, value : Value, expireAt : Expiry]

\* No command leaves an empty collection behind (module Store).
ASSUME WritesAssumption ==
  Writes \subseteq Record /\ \A w \in Writes : ~IsEmptyCollection(w.value)
ASSUME MilliAssumption == Milli \in Nat \ {0}
ASSUME MaxFailuresAssumption == MaxFailures \in Nat

VARIABLES
  phase,     \* "down", "loading", "serving", "saving", or "exiting" in the last save
  store,     \* the keyspace
  now,       \* the wall clock
  lastCheck, \* the autosave clock: "unset", "running" or "elapsed"
  unwritten, \* what the running save has still to write
  tmp,       \* the records in the temporary file
  dump,      \* the dump file: its records, and where it was cut off
  unread,    \* the records load has still to install
  failures,  \* the saves that failed so far
  begun,     \* history: what was live when the running save began
  done,      \* history: the same for the last save that completed
  lost       \* history: the keys whose records have since been cut off

process == <<phase, store, lastCheck>>
files == <<unwritten, tmp, dump, unread, failures>>
history == <<begun, done, lost>>
vars == <<process, now, files, history>>

Whole(records) == [records |-> records, tail |-> "whole"]
Nothing == [k \in {} |-> k]

Init ==
  /\ phase = "down"
  /\ store = EmptyStore
  /\ now = 0
  /\ lastCheck = "unset"
  /\ unwritten = {} /\ tmp = <<>> /\ unread = <<>>
  /\ dump = Whole(<<>>)
  /\ failures = 0
  /\ begun = Nothing /\ done = Nothing /\ lost = {}

(***************************************************************************)
(* Serving.  The commands themselves are module Store's; here a command is *)
(* what it does to one key.                                                *)
(***************************************************************************)
Command(s) ==
  /\ phase = "serving"
  /\ store' = s
  /\ UNCHANGED <<phase, lastCheck, now, files, history>>

Write(w) ==
  Command(MarkDirty(InsertEntry(Find(store, w.key, now), w.key, w.value, w.expireAt)))

Remove(k) == Command(Del(store, k, now))

\* A read, or the sweep passing by.
Lookup(k) == Command(Find(store, k, now))

Tick ==
  /\ now < MaxTime
  /\ now' = now + 1
  /\ UNCHANGED <<process, files, history>>

(***************************************************************************)
(* Saving.                                                                 *)
(***************************************************************************)
Saving == phase \in {"saving", "exiting"}

\* What foreach_entry lists, with the type each key has at that moment.
Listed == {[key |-> k, type |-> store.map[k].value.type] : k \in LiveKeys(store, now)}

\* A slip: the save writes to the dump itself.
BeginSaveInPlace(kind) ==
  /\ phase = "serving"
  /\ phase' = kind
  /\ unwritten' = Listed
  /\ tmp' = <<>>
  /\ dump' = Whole(<<>>)
  /\ begun' = [k \in LiveKeys(store, now) |->
                 [value |-> store.map[k].value, expireAt |-> store.map[k].expireAt]]
  /\ UNCHANGED <<store, now, unread, failures, done, lost>>

BeginSave(kind) ==
  /\ phase = "serving"
  /\ phase' = kind
  /\ unwritten' = Listed
  /\ tmp' = <<>>
  /\ begun' = [k \in LiveKeys(store, now) |->
                 [value |-> store.map[k].value, expireAt |-> store.map[k].expireAt]]
  /\ UNCHANGED <<store, now, dump, unread, failures, done, lost>>

SaveCommand == BeginSave("saving") /\ UNCHANGED lastCheck

\* SHUTDOWN, SIGTERM and SIGINT end the loop, and main saves unconditionally.
Shutdown == BeginSave("exiting") /\ UNCHANGED lastCheck

\* The first call starts the clock rather than firing.
StartAutosaveClock ==
  /\ phase = "serving" /\ lastCheck = "unset"
  /\ lastCheck' = "running"
  /\ UNCHANGED <<phase, store, now, files, history>>

IntervalElapses ==
  /\ phase # "down" /\ lastCheck = "running"
  /\ lastCheck' = "elapsed"
  /\ UNCHANGED <<phase, store, now, files, history>>

\* The clock starts over whether or not there is anything to save.
Autosave ==
  /\ phase = "serving" /\ lastCheck = "elapsed"
  /\ lastCheck' = "running"
  /\ IF store.dirty THEN BeginSave("saving") ELSE UNCHANGED <<phase, store, now, files, history>>

\* Duration::as_millis: whole milliseconds, for a time left as for the time
\* since the epoch in unix_millis_now.
AsMillis(t) == t \div Milli

\* -2 for a missing key, -1 for one without expiry.  s is the store after
\* the lookup, t the reading that follows it.
PttlMs(s, k, t) ==
  IF ~Has(s, k) THEN -2
  ELSE IF s.map[k].expireAt = Never THEN -1
  ELSE IF s.map[k].expireAt < t THEN 0 ELSE AsMillis(s.map[k].expireAt - t)

\* The record of a listed key, if any.  A string that is gone by now is
\* written as an empty one, anything else is skipped.
RecordOf(x, s, expireAt) ==
  IF Has(s, x.key)
  THEN <<[key |-> x.key, value |-> s.map[x.key].value, expireAt |-> expireAt]>>
  ELSE IF x.type = "string"
  THEN <<[key |-> x.key, value |-> [type |-> "string", size |-> 0], expireAt |-> expireAt]>>
  ELSE <<>>

\* A slip: the answers of pttl_ms that are not a time are written as they are.
SaveEntryAsTold(x, t1, t2, t3, t4) ==
  LET f == Find(store, x.key, t1)
      ttl == PttlMs(f, x.key, t2)
      g == Find(f, x.key, t4)
  IN  /\ Saving /\ x \in unwritten
      /\ now <= t1 /\ t1 <= t2 /\ t2 <= t3 /\ t3 <= t4
      /\ now' = t4
      /\ store' = g
      /\ tmp' = tmp \o RecordOf(x, g, IF ttl < 0 THEN ttl ELSE AsMillis(t3) + ttl)
      /\ unwritten' = unwritten \ {x}
      /\ UNCHANGED <<phase, lastCheck, dump, unread, failures, history>>

\* One round of save_inner's loop, with its four clock readings in order: the
\* lookup and the subtraction in pttl_ms, the wall clock it is added to, and
\* the lookup of the value.
SaveEntry(x, t1, t2, t3, t4) ==
  LET f == Find(store, x.key, t1)
      ttl == PttlMs(f, x.key, t2)
      g == Find(f, x.key, t4)
  IN  /\ Saving /\ x \in unwritten
      /\ now <= t1 /\ t1 <= t2 /\ t2 <= t3 /\ t3 <= t4
      /\ now' = t4
      /\ store' = g
      /\ tmp' = tmp \o RecordOf(x, g, IF ttl < 0 THEN Never ELSE AsMillis(t3) + ttl)
      /\ unwritten' = unwritten \ {x}
      /\ UNCHANGED <<phase, lastCheck, dump, unread, failures, history>>

\* What a save is followed by: the next command, or the end of main.
Return == phase' = IF phase = "saving" THEN "serving" ELSE "down"

\* A slip: the counter of unsaved changes is not reset.
EndSaveDirty ==
  /\ Saving /\ unwritten = {}
  /\ dump' = Whole(tmp)
  /\ store' = IF phase = "saving" THEN store ELSE EmptyStore
  /\ tmp' = <<>>
  /\ done' = begun /\ lost' = {} /\ begun' = Nothing
  /\ Return
  /\ UNCHANGED <<lastCheck, now, unwritten, unread, failures>>

EndSave ==
  /\ Saving /\ unwritten = {}
  /\ dump' = Whole(tmp)
  /\ store' = IF phase = "saving" THEN [store EXCEPT !.dirty = FALSE] ELSE EmptyStore
  /\ tmp' = <<>>
  /\ done' = begun /\ lost' = {} /\ begun' = Nothing
  /\ Return
  /\ UNCHANGED <<lastCheck, now, unwritten, unread, failures>>

\* A slip: it is reset even if the save fails.
FailSaveClean ==
  /\ Saving /\ failures < MaxFailures
  /\ failures' = failures + 1
  /\ store' = IF phase = "saving" THEN [store EXCEPT !.dirty = FALSE] ELSE EmptyStore
  /\ unwritten' = {} /\ tmp' = <<>> /\ begun' = Nothing
  /\ Return
  /\ UNCHANGED <<lastCheck, now, dump, unread, done, lost>>

\* Creating, writing, syncing or renaming the temporary file fails.  On the
\* way out that is not looked at.
FailSave ==
  /\ Saving /\ failures < MaxFailures
  /\ failures' = failures + 1
  /\ store' = IF phase = "saving" THEN store ELSE EmptyStore
  /\ unwritten' = {} /\ tmp' = <<>> /\ begun' = Nothing
  /\ Return
  /\ UNCHANGED <<lastCheck, now, dump, unread, done, lost>>

(***************************************************************************)
(* Dying and coming back.                                                  *)
(***************************************************************************)

\* SIGKILL, a panic, or an error of poll: nothing is saved.
Kill ==
  /\ phase # "down"
  /\ phase' = "down"
  /\ store' = EmptyStore
  /\ unwritten' = {} /\ tmp' = <<>> /\ unread' = <<>> /\ begun' = Nothing
  /\ UNCHANGED <<lastCheck, now, dump, failures, done, lost>>

\* DumpReader::blob on a file cut off inside one: read_exact reports an error.
ReadFails(f) == f.tail = "blob"

\* What a record is worth that was cut off between two lines.  read_memory
\* has nothing to show for it, nor has a string; a collection keeps the
\* elements read so far.
Partial(r) == IF r.value.type \in Collections THEN <<r>> ELSE <<>>

\* load_v2.  An error makes load drop everything it has read.
LoadV2(f) ==
  IF ReadFails(f) THEN <<>>
  ELSE IF f.tail = "line"
  THEN LET n == Len(f.records) IN SubSeq(f.records, 1, n - 1) \o Partial(f.records[n])
  ELSE f.records

Start ==
  /\ phase = "down"
  /\ phase' = "loading"
  /\ lastCheck' = "unset"
  /\ unread' = LoadV2(dump)
  /\ UNCHANGED <<store, now, unwritten, tmp, dump, failures, history>>

\* A slip: the deadline is not installed.
InstallRecordForever(s, r, t) ==
  LET i == IF r.value.type \in Collections
           THEN SetSize(GetOrCreate(s, r.key, r.value.type, t), r.key, r.value.size)
           ELSE Install(s, r.key, r.value)
  IN  DeleteIfEmpty(i, r.key, t)

\* Duration::from_millis.
FromMillis(n) == Milli * n

\* LoadedEntry::install.  A key occurs once in a dump, so it is never there
\* already.
InstallRecord(s, r, t) ==
  LET i == IF r.value.type \in Collections
           THEN SetSize(GetOrCreate(s, r.key, r.value.type, t), r.key, r.value.size)
           ELSE Install(s, r.key, r.value)
      e == IF r.expireAt < 0 THEN i ELSE SetExpireAt(i, r.key, FromMillis(r.expireAt), t)
  IN  DeleteIfEmpty(e, r.key, t)

LoadEntry ==
  /\ phase = "loading" /\ unread # <<>>
  /\ store' = InstallRecord(store, Head(unread), now)
  /\ unread' = Tail(unread)
  /\ UNCHANGED <<phase, lastCheck, now, unwritten, tmp, dump, failures, history>>

Serve ==
  /\ phase = "loading" /\ unread = <<>>
  /\ phase' = "serving"
  /\ UNCHANGED <<store, lastCheck, now, files, history>>

\* The dump is cut off while no server runs, in record i: before its first
\* byte, at one of its line ends, or inside one of its blobs.  `size` is what
\* remains of a collection.  A cut inside a blob costs every record of the
\* dump, the whole ones before it too: load_v2 returns the error and load
\* installs nothing.
Cut(i, tail, size) ==
  /\ phase = "down" /\ dump.tail = "whole"
  /\ i \in DOMAIN dump.records
  /\ LET r == dump.records[i]
         before == SubSeq(dump.records, 1, i - 1)
     IN  /\ size \in IF r.value.type \in Collections THEN 0 .. r.value.size - 1
                      ELSE {r.value.size}
         /\ dump' = [tail |-> tail,
                     records |-> IF tail = "whole" THEN before
                                 ELSE Append(before,
                                        [key |-> r.key, expireAt |-> r.expireAt,
                                         value |-> [type |-> r.value.type, size |-> size]])]
         /\ lost' = IF tail = "blob" THEN DOMAIN done
                    ELSE lost \cup {dump.records[j].key : j \in i .. Len(dump.records)}
  /\ UNCHANGED <<process, now, unwritten, tmp, unread, failures, begun, done>>

Next ==
  \/ \E w \in Writes : Write(w)
  \/ \E k \in Keys : Remove(k) \/ Lookup(k)
  \/ Tick
  \/ SaveCommand
  \/ Shutdown
  \/ StartAutosaveClock
  \/ IntervalElapses
  \/ Autosave
  \/ \E x \in unwritten, t1, t2, t3, t4 \in now .. MaxTime : SaveEntry(x, t1, t2, t3, t4)
  \/ EndSave
  \/ FailSave
  \/ Kill
  \/ Start
  \/ LoadEntry
  \/ Serve
  \/ \E i \in DOMAIN dump.records, tail \in {"whole", "line", "blob"}, size \in 0 .. MaxLen :
       Cut(i, tail, size)

\* The thread goes on with what it is doing, and time passes.
Fairness ==
  /\ WF_vars(LoadEntry) /\ WF_vars(Serve)
  /\ WF_vars(StartAutosaveClock) /\ WF_vars(IntervalElapses) /\ WF_vars(Autosave)
  /\ WF_vars(\E x \in unwritten, t1, t2, t3, t4 \in now .. MaxTime : SaveEntry(x, t1, t2, t3, t4))
  /\ WF_vars(EndSave)

Spec == Init /\ [][Next]_vars /\ Fairness

(***************************************************************************)
(* Properties.                                                             *)
(***************************************************************************)
Snapshot(m) == DOMAIN m \subseteq Keys /\ \A k \in DOMAIN m : m[k].value \in Value

\* Every variable has its type; nothing is being written unless a save runs,
\* nothing read unless a load does, and a stopped server holds nothing.
TypeOK ==
  /\ phase \in {"down", "loading", "serving", "saving", "exiting"}
  /\ DOMAIN store.map \subseteq Keys
  /\ now \in Time
  /\ lastCheck \in {"unset", "running", "elapsed"}
  /\ \A x \in unwritten : x \in [key : Keys, type : StoreType]
  /\ \A q \in {tmp, dump.records, unread} : \A i \in DOMAIN q : q[i] \in Record
  /\ failures \in 0 .. MaxFailures
  /\ Snapshot(begun) /\ Snapshot(done) /\ lost \subseteq Keys
  /\ ~Saving => unwritten = {}
  /\ phase # "loading" => unread = <<>>
  /\ phase = "down" => store = EmptyStore

\* What the two truncations of save_inner can take from a deadline: less than
\* two milliseconds.
Truncated == 2 * (Milli - 1)

\* A copy of an entry as a save and a load leave it: the same value, a
\* deadline exactly if there was one, and that no earlier than truncated.
CopyOf(c, e) ==
  /\ c.value = e.value
  /\ IF e.expireAt = Never THEN c.expireAt = Never
     ELSE c.expireAt # Never /\ c.expireAt + Truncated >= e.expireAt

\* The entry that a record of the dump stands for.
Restored(r) ==
  [value |-> r.value,
   expireAt |-> IF r.expireAt < 0 THEN Never ELSE FromMillis(r.expireAt)]

\* Load has installed its last record.
Loaded == phase = "loading" /\ unread = <<>>

\* A kill loses what was written since the last save and nothing else:
\* whatever that save found, and has two milliseconds left to its deadline,
\* is there again after a restart, however many later saves failed or were
\* killed in the middle (the temporary file and the rename in save_inner, and
\* install).  What a cut of the dump takes is excused: a cut inside a blob
\* takes everything, as load then drops the records before it too.
KillLosesOnlyTheUnsaved ==
  Loaded => \A k \in DOMAIN done \ lost :
              IsLive(done[k], now + Truncated) =>
                k \in DOMAIN store.map /\ CopyOf(store.map[k], done[k])

\* While the counter of unsaved changes is zero, autosave has nothing to do:
\* the dump holds every live key with its value, and with its deadline but
\* for the truncation (reset_dirty only after the rename, and a counter that
\* every change moves).
CleanMeansSaved ==
  phase = "serving" /\ ~store.dirty =>
    \A k \in LiveKeys(store, now) :
      \E i \in DOMAIN LoadV2(dump) :
        /\ LoadV2(dump)[i].key = k
        /\ CopyOf(Restored(LoadV2(dump)[i]), store.map[k])

\* A restart brings back only keys the last save found, with the type they
\* had; and a collection or a memory index whose deadline passes while
\* save_inner is at it never comes back without one.
NothingMadePermanent ==
  Loaded => \A k \in LiveKeys(store, now) :
              /\ k \in DOMAIN done
              /\ store.map[k].value.type = done[k].value.type
              /\ \/ IsLive(done[k], now)
                 \/ store.map[k].expireAt # Never
                 \/ done[k].value.type = "string"

\* A key whose deadline has passed does not come back with a restart, but for
\* the instant by which the clock moved while its deadline was being written
\* (src/tests/persistence.rs:91).
ExpiredStaysGone ==
  Loaded => \A k \in LiveKeys(store, now) :
              IsLive(done[k], now) \/ store.map[k].expireAt # Never

\* Every change is saved in the end, unless the server stops first: a failed
\* autosave is tried again an interval later (autosave_due).
EventuallySaved == store.dirty ~> ~store.dirty

=============================================================================
