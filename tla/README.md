# Klyro: a TLA+ verification project

Klyro is a single-threaded, Redis-compatible key-value server with memory
indexes for retrieval, written in Rust (`src/src`). This directory models its
core in TLA+, checks the models with TLC on small instances, and proves with TLAPS,
for instances of any size, the invariants of the keyspace, of transactions, of the event
loop, of publish/subscribe, of persistence and of eviction, and that the keyspace implements
the abstract one its clients are promised.

Paths below are those of the repository as it stands under `src/`, so
`src/src/store.rs` is the crate's `store.rs`.

## 1. The system

| Part | State it keeps | Operations | Hard behaviour |
|---|---|---|---|
| Keyspace (`store.rs`) | map key -> entry; two index vectors (all keys, volatile keys); dirty counter | lookup with lazy expiry, insert, remove, rename, copy, flush, sweep, sample, evict | expired entries stay in the map until somebody runs into them; `swap_remove` moves other keys' places |
| Commands (`commands/{generic,string,list,hash,set,zset}.rs`) | none | one handler per command, built from Store methods | each handler repeats the type check, the creation and the removal of an empty collection on its own; the clock is read at every lookup |
| Memory indexes (`commands/memory.rs`, `types/memory/*`) | records, keyword and vector indexes, per-record deadlines | MEM.* | three structures kept in step by hand; records expire on their own and stay until the sweep; server-assigned ids beside the client's; a tokenizer limit that changes at run time |
| Dispatch (`commands/mod.rs`, `keyspec.rs`) | none | gates in a fixed order: subscriber mode, MULTI queue, memory, then the handler; then signal what was written | which commands pass which gate; an error signals nothing |
| Transactions (`transactions.rs`, `watch.rs`, `client.rs`) | per client: queue, watched keys with versions; shared: version and number of watchers per key | MULTI, EXEC, DISCARD, WATCH, UNWATCH, RESET | versions are forgotten with the last watcher; eviction in the middle of EXEC |
| Blocking commands (`blocking.rs`) | `App.blocked`, `App.ready_keys`, a flag per connection | park, retry, time out | lost wake-ups, double answers, serving order |
| Event loop (`server.rs`, `app.rs`) | connections with read and write buffers | `poll_once`: accept, read, run, serve ready keys, time out, deliver, write, close, tick | pipelining behind a blocked command, peers that vanish at any point |
| Pub/sub (`pubsub.rs`, `commands/pubsub.rs`) | subscribers per channel and pattern; the outbox | SUBSCRIBE family, PUBLISH | delivery at the end of the pass, after other commands have run |
| Persistence (`persist.rs`) | the dump file | SAVE, autosave, load at start | kill between write and rename; keys that expire during the save |
| Eviction (`evict.rs`, access records in `store.rs`) | a logical clock; per entry its last use and a frequency counter | choose and drop keys before a command | sampling skips expired keys; counters saturate and decay; every command of an EXEC passes the gate anew |
| RESP, configuration, INFO, utilities, SDKs, web site | | | left out, see section 8 |

Interaction: there is one thread. The loop reads a connection, `dispatch` runs
one command at a time against the keyspace, a successful write signals its keys
(`App::signal_modified`), which bumps the versions of watched keys and notes
keys that parked clients wait for; the loop then retries those clients. Closing
a connection (`App::forget_client`) takes it out of every registry. What runs
beside the thread is the clock and the peers, and that is where the
interleavings come from: a deadline may pass between two lookups of one
command, and a peer may vanish between any two steps of a pass.

What makes each part correct, and what the models check, is in section 3.

## 2. Modules

| Module | Models | State and actions |
|---|---|---|
| `Keyspace` | the methods of `Store` as operators on a record | `map`, `keys`, `volatile`, `dirty` are the fields of the struct; `slot` and `vslot` are 1-based (0 is `None`) |
| `Store` | the keyspace driven by commands, eviction and the sweep | one action per command shape; `Later` ranges over the clock readings a handler's last lookup may get; `running` is `FALSE` after a panic |
| `KeyspaceSpec` | what clients are promised: a key is gone the moment its deadline passes | a function from keys to values; every command is one line |
| `KeyspaceProofs` | what each method of `Store` does to a consistent store and to what it holds | lemmas for `StoreProofs`, `PersistProofs` and `EvictProofs` |
| `StoreProofs`, `SessionsProofs`, `EventLoopProofs`, `PubSubProofs`, `PersistProofs`, `EvictProofs`, `MemoryProofs` | the theorems about the module each is named after | section 6 |
| `Selection` | what `Vec::retain` and `filter` leave of a sequence, given by the places kept | used by `EventLoop` in place of `SelectSeq`, which is recursive and takes an operator, so that nothing could be proved; the runs of the event loop compare the two, and `EventLoopProofs` has its laws |
| `Sessions` | dispatch gates, MULTI/EXEC/WATCH, subscriber mode, disconnection | per client the record `Transaction`, the watch list, the protocol; the registry `Watch`; `exec` is a loop with a step per queued command, because the memory gate of each may evict |
| `Blocking` | the commands a blocked client may wait with, and what wakes it, as operators on an abstract keyspace | |
| `EventLoop` | one pass of `poll_once` step by step | `phase` is the place in `poll_once`; `blocked`, `ready`, `rbuf`, `out`, `closing` are the fields of the same names (`ready_keys`, `wbuf` not empty, `want_close`) |
| `Persist` | the snapshot on disk and the life of a server process around it | `phase` is where `main` is; the keyspace is a `Keyspace` record; `unwritten` is what the loop in `save_inner` has left, `tmp` and `dump` are the two files as sequences of records; `SaveEntry` has one parameter per clock reading |
| `Memory` | one memory index: `types/memory/{mod,text,vector}.rs` and the MEM.* commands that change or read it | `mem` is the struct `Memory`: `records`, `text` (postings, `docLen`, `totalLen`), `vectors` (`data`, `free`, `live`), `nextId`; one action per command (`Add`, `Del`, `Expire`), the tick's `Sweep` and `SweepRecord`, CONFIG SET of the term limit, and the two ways an index is rebuilt (`Copy`, `Restart`, then `Load`). The loops of `sweep_expired` and of a rebuilding take a step per record (`dead` and `dump` are what they have left); no command comes between, only the clock goes on, which neither loop reads again |
| `PubSub` | the registry, the SUBSCRIBE family, RESET, PUBLISH (plain and inside EXEC), the outbox and the closing of connections | `held` is what a client knows of itself, `registry` what `App.pubsub` knows; `outbox` holds the deliveries of one pass of the loop, handed out frame by frame (`Deliver`); `due`, `got`, `left` are history |
| `Evict` | `memory_gate`, `make_room`, the eight policies, access records | `access` (a record per entry) and `clock` stand beside the store of `Keyspace`, and a method takes and gives the three together; one step is one round of `make_room`, with its draws as a parameter, or one command behind the gate; `overtaken` is an observer |
| `MC*` | the instances TLC checks | |

Abstractions. A value is its type and its size: the keyspace properties depend
on whether a collection is empty, never on what is in it. Key names, payloads and
arguments are model values. A handler's argument errors change nothing and are
left out; a failed type check is a lookup, and is in. In `EventLoop` bytes are
whole commands or garbage, output is pending or not, and a deadline is an event.
In `Memory` a text is the sequence of its terms, a vector is a value or unfit, and a
search is the set of records it may rank, with no scores. In `PubSub` a message is its
number within the pass. In `Evict` the coin of the probabilistic counter and the random
draws are choices (a draw is a place in the index vector); the bytes in use are those of the
values, counted as a set, plus a part the environment moves.
Operators whose comment starts with "A slip" are not part of any
specification: they are wrong versions of the definition that follows them, kept
to show that the properties notice.

## 3. What is checked

### The keyspace

- `IndexConsistent`: both index vectors list exactly the keys they should, once,
  and every entry knows its own place. This is the tests' `check_indexes`
  (`src/src/store.rs:945`), here after every step of every interleaving.
- `NoEmptyCollection`: no handler leaves an empty list, hash, set or sorted set.
- `ImplementsKeyspace`: the store, with its lazy expiry and its sweep, refines
  `KeyspaceSpec` under the mapping that keeps only the live entries.
- `CommandsAsPromised`: command by command, each handler has on the live entries
  the effect of the promised command of that name and those arguments, whichever clock
  readings its lookups get, but for two exceptions the property spells out (section 7): a key
  that lapses between the two lookups of one command, and a ZINCRBY that fails.
- `NoPanic` (violated): see section 7.

### Sessions

- `WatchersCounted`: a key's entry in the registry counts exactly its watchers, and
  exists only while it has one.
- `VersionTellsSignals`: for a client that watches, "the version differs" means
  exactly "the key was signalled since", although versions restart from zero when a
  key loses its last watcher.
- `NoTrappedTransaction`: nobody ends up with an open transaction and no command
  allowed to end it (a RESP2 subscriber inside MULTI).
- `ExecAllOrNothing`: a queue runs as a whole, and only if no watched key was
  signalled and no command was refused; otherwise nothing of it runs.
- `WriteAbortsExec`: a transaction whose watched key was changed, by anyone or by an
  eviction, runs nothing; the one exception is a change by a command that then replies
  with an error (section 7).

### The event loop

- `ParkedOnce`: the flag on a connection and the registry agree.
- `AnsweredOnce`: a blocking command is answered once, by a value or by its
  timeout, never by both, whatever races.
- `NothingStranded`: no complete command stays in the read buffer of a connection that
  is not blocked once the loop polls.
- `NoLostWakeUp`: the loop never polls with a waiter that could be answered from the
  keyspace as it is, unless its key is still noted as ready.
- `PassEnds`: every pass gets back to poll: the mutual feeding of waiters cannot spin.
- `TimeoutAnswered`: a blocking command whose deadline passed is answered or its
  connection closed.
- `OldestFirst`: an element of a key goes to a waiter only if nobody who has waited longer
  waits on that key at all, the second and later elements of one round too; the exception is
  a key to which another waiter moved a value in the same round (section 7). `fed` is the
  history of those keys.
- `GoneIsForgotten`: the server forgets a connection whose peer was reset, unless output
  is pending for it (section 7).

### Persistence

- `KillLosesOnlyTheUnsaved`: whatever the last completed save found, and whose deadline
  has not passed, is there after a restart, with its value and its deadline;
  later saves that fail or are killed half way change nothing about that. `save_inner` adds a
  remaining time cut to whole milliseconds to a time of day cut to whole milliseconds
  (`AsMillis`), so a deadline comes back less than two milliseconds (`Truncated`) earlier, and
  a key with less than that to live may be missing. Where the dump was cut off while no server
  ran, this speaks of the records before a cut at the end of a line; a cut inside a blob loses
  every record, those before it too, as the load then drops them all.
- `CleanMeansSaved`: while the counter of unsaved changes is zero, the dump holds every
  live key with its value and, but for the same truncation, its deadline.
- `NothingMadePermanent`: a restart brings back only keys the last save found, and no
  collection or memory index without the deadline it had.
- `EventuallySaved`: unsaved changes are saved in the end, unless the server stops.
- `ExpiredStaysGone` (violated): section 7.

### Memory indexes

- `VectorIndexAgrees`: each slot of the vector array belongs to one record or to the free
  list, the count of vectors is right, and a search compares the query with the vector a
  live record was itself last given, and leaves out a record that was given none, through
  replacement, deletion, sweep, COPY and restart; the exception is a record that inherited
  its vector from an expired one (section 7), which the history `inherited` keeps.
- `TextIndexAgrees`: a search finds a record under every term it was indexed under and,
  unless postings were left behind (section 7), under no other and once; document
  lengths and their total, which BM25 divides by, are those of the records in the map.
- `AssignedIdIsNew`: an id the server assigns never overwrites a record, unless a client
  had taken that name itself; the counter survives COPY and restart.
- `ExpiredReclaimed`: expired records are reclaimed in the end.
- `AddedIsThere` (violated): section 7.

### Publish/subscribe

- `RegistryAgrees`: the registry and the clients' own sets agree, and nobody who is gone
  is in it.
- `LateInThePassOnly`: a message may come after its subscription was given up, but only in
  the same pass; and no addressee is gone when the outbox is handed out.
- `OncePerSubscription`: each message arrives once on each subscription held when it was
  published, on no other, apart from the truncated reply inside EXEC (section 7).
- `InOrder`: one publisher's messages arrive in order, the channel's copy before the
  patterns'.

### Eviction

- `TakesWhatItMay`: a volatile policy never takes a key without a deadline, and the gate
  gives up before its last round only if the policy may take nothing that is live, or if
  a key that is due is in the way (section 7).
- `LruKeepsTheReRead`: LRU does not take a key that a lookup found since another key it
  drew was last used.
- `IdleGoesFirst`: under LFU a key idle for as many minutes as the counter has bits goes
  before every key used in this minute, whatever the counter was.
- `NoGrowthOverLimit`: over the limit the values do not grow, whether the command is
  plain or one of an EXEC.

## 4. Runs and bounds

| Run | Instance | Why it is enough |
|---|---|---|
| `store_invariants` | 2 keys, all four collection types, sizes up to 2, 2 instants | every action and every pair of keys in every order of both vectors; the theorems of section 6 lift the result to any number of keys |
| `store_commands` | 2 keys, lists, sorted sets, strings and memory indexes, sizes up to 1, 2 instants, and no steps after a save (`Unsaved`: no command reads the counter a save resets) | source and destination, live, expired or missing, of the same or another type; the deadline passing before, during and after a command |
| `store_panic` | 1 or 2 keys | the violation needs one key and one tick |
| `sessions` | 2 clients, 1 key, versions up to 2, queues of 1 | one client's watch against another's write, twice; a version that returns to zero |
| `loop_pipelines` | 2 clients, 1 key, 2 commands each, `maxclients` 1 or 2, peers that hang up or are reset, no symmetry | a connection turned away; a command pipelined behind a blocking one on either side; a peer reset at every step; liveness |
| `loop_wake` | 4 clients, 2 keys, 1 command each, a push of 2 elements, peers that hang up | two elements for three waiters in one round; a waiter fed by a waiter fed by a push; a type change under two waiters. With one command per client no pass ends with a ready key, so `NoLostWakeUp` is checked there without its excuse; the theorem has it |
| `persist` | 2 keys, strings and lists (the writes `EachType` names), 3 instants of half a millisecond, 1 failing save, no symmetry | deadlines that lose nothing or all of `Truncated`; a save with one record written and one to come, a dump cut off between or inside two records, a deadline that passes before, between or after the readings of a save; liveness of autosave |
| `memory` | 2 ids, 1 assigned by the server, texts of 1 and 2 terms, 2 vectors, 2 instants, limits of 1 and 2 terms | an id deleted, expired or replaced and used again, with and without a vector; a slot freed by one record and taken by another; a text cut by the limit and un-indexed under another limit; a full index |
| `pubsub` | 2 connections over all time, one RESP2 and one RESP3, 2 channels, 1 pattern that matches one of them, 2 messages a pass | a client subscribed twice to one message; publishing to oneself, plain and in EXEC; unsubscribing, hanging up or reconnecting between publication and delivery |
| `evict` | 2 keys, 2 draws a round, a counter of 2 bits (8 in the code) that starts at 1 (5), 1 round a pass (10,000), 2 commands a dispatch, 6 settings | a counter at its top and decayed past its width; a round that draws a due key only; a policy changed under keys of every kind; an EXEC whose commands each meet the limit |
| violations | the smallest instance that shows them | |

Named bounds: `MaxLen` (size of a value), `MaxTime` (clock), `MaxVersion`, `MaxQueue`,
`MaxSent`, `MaxFailures` (saves the disk fails), `Milli` (instants to a millisecond, 10^6 in the
code; the theorems hold for any), `Leaves` (the ways peers go), `MaxClients` (the server's own
`maxclients`, a set of values to choose from), `MaxId`, `MaxAssigned`, `MaxPostings` (postings of one id under one
term: stale ones could pile up for ever), `MaxRecords` (the server's own
`mem-max-records`), `Unlimited` (`usize::MAX` as a term limit: no text is longer), `Caps` (the term limits each mode is run with; only a SEARCH index
changes it, in a HYBRID one COPY alone exceeds it), `Requests` (each kind of MEM.ADD, not
every combination), `MaxIds`, `MaxPublished`, `MaxBatch`, `MaxClock`, `MaxMinute`, `Bits`,
`MaxEvictionsPerPass`. The properties of `Evict` do not name the value of `Bits`, only that
it is the width of the counter: with 2 bits it saturates after two hits and decays to
nothing in two minutes, so both ends are met. Symmetry is used on keys or clients, which are interchangeable in every
definition, and never in a run with a liveness property. Deadlock checking is
off where the specification may stop: after a panic in `Store`, at the bounds in
`Sessions`. The other specifications never stop, and their runs check that.

## 5. Fairness

`EventLoop` and `Persist` state weak fairness of the server's own steps. The
thread is never suspended by the code except in `poll`, which sleeps at most
`POLL_INTERVAL_MS` and not beyond the next deadline, so a step of the loop that
stays possible is taken; `tick` runs at the end of every pass, so autosave is looked
at for ever. In `Persist` the interval elapses eventually, and the disk fails only
`MaxFailures` times: on a disk that always fails nothing is ever saved. Peers and the clock are not fair: a client need not send,
a peer need not read, a deadline need not pass, nothing need be killed or restarted.
`Memory` states weak fairness of `Proceed`: the sweep, which `tick` calls in every pass, and
the steps of a sweep or a rebuilding that has begun.
`PubSub` and `Evict` state none: their properties are safety.

## 6. Proofs

Each theorem has the form `Spec => []Inv`, `Spec => [][A]_vars` or, for the refinement,
`Spec => Abs!Spec`, and holds for every
value of the constants that satisfies the assumptions named in the modules. Every proof
goes the same way: an inductive invariant `IInv`, shown by `InitInv` and `StepInv` (one
lemma per action) to hold always (`Invariance`), implies the property or, for an action
property, the property of every step that starts in it.

| Module | Proved |
|---|---|
| `StoreProofs` | `TypeOK`, `IndexConsistent`, `NoEmptyCollection`, `CommandsAsPromised`, `ImplementsKeyspace` |
| `SessionsProofs` | `TypeOK`, `WatchersCounted`, `VersionTellsSignals`, `NoTrappedTransaction`, `ExecAllOrNothing`, `WriteAbortsExec` |
| `EventLoopProofs` | `TypeOK`, `ParkedOnce`, `AnsweredOnce`, `NothingStranded`, `NoLostWakeUp`, `OldestFirst` |
| `PubSubProofs` | `TypeOK`, `RegistryAgrees`, `LateInThePassOnly`, `OncePerSubscription`, `InOrder` |
| `PersistProofs` | `TypeOK`, `KillLosesOnlyTheUnsaved`, `CleanMeansSaved`, `NothingMadePermanent` |
| `EvictProofs` | `TypeOK`, `TakesWhatItMay`, `LruKeepsTheReRead`, `IdleGoesFirst`, `NoGrowthOverLimit` |
| `MemoryProofs` | `TypeOK`, `VectorIndexAgrees`, `TextIndexAgrees`, `AssignedIdIsNew` |

### The keyspace

Assumed: bounds are natural numbers, `"string"` and `"memory"` are not collection types.
`IInv == Typed /\ IndexConsistent /\ NoEmptyCollection`, where `Typed` also says where the
sweep stands. None of the three parts is inductive alone: the repair in `RemoveEntry`
reads the entry of the key `swap_remove` moved, which exists and sits at the right
place only if the vectors were consistent before; and a resized collection keeps its
type only if the map is well typed.

The argument is layered as the code is. `Good(s, K)` says that a store is well
typed, its vectors are consistent, and no key outside `K` holds an empty collection;
`K` is what a handler has created or drained and not yet settled. One lemma per
Store method (in `KeyspaceProofs`) says what it does to `Good` (`FindFacts`,
`InsertEntryFacts`, `RemoveEntryFacts`, `SetExpireAtFacts`, ...), one per command composes
them in the handler's order and arrives at `Good(_, {})`, and `StepInv` collects the
commands. `SwapRemoveFacts` and `SetSlot`/`SetVSlot` carry the index argument. Beside
`Good`, `Contents(s)` is what a store holds with its indexes left aside; one lemma per
method says how it changes it (`FindContents`, `InsertContents`, ...).

The refinement of `KeyspaceSpec` rests on them. What a client sees of a store at a time,
`Content(s, t)`, is `Contents(s)` without what is due at `t` (`ContentIs`), and as time goes
by keys only disappear from it (`ContentLater`). Dropping what is due before or after a key
is bound or dropped makes no difference to what is left in the end (`PruneBind`,
`PruneDrop`), which is why lazy expiry cannot be seen: a lookup at `t` changes the content at no
time from `t` on (`FindSeen`). One lemma per method says what it does to the content
(`...Seen`), one per command that it is what the command of `KeyspaceSpec` does
(`...Promised`), also for those that read the clock twice: SET, INCR, APPEND, SETRANGE, the
pushes and their X forms, where a key may lapse between the readings and be made anew
(`Lapses` in `KeyspaceSpec`); COPY, the moves, ZINCRBY and the
writes to a memory index, where the handler may panic instead. One more invariant is needed, `SweepDue`: the keys a sweep has still to drop, which it
does not look up again, are due. From these `CommandsPromised` gives `CommandsAsPromised`,
which is about each command, and `Refinement` gives `ImplementsKeyspace`, which is about
the whole. The proof covers every number of keys and every bound, with the model's
abstraction of a value to its type and size.

### Sessions

Assumed: finitely many clients, bounds in `Nat`. The registry changes in three ways only
(`Touch`, `UnwatchAll`, one more watched key), and there is one lemma for each.
`VersionTellsSignals` needs that a watched key's version only grows (`HistoryKept`), which
holds because the entry is not dropped while its count is above zero (`WatchersCounted`):
so the two are proved together. `NoTrappedTransaction` needs `RunningClosed`: a client whose
EXEC is running has no transaction open, so a HELLO in its queue traps nobody.

### The event loop

Assumed: `CommandsAssumption` (how many keys each command takes), bounds in `Nat`.
`Typed` says besides the types that what a phase uses is empty outside it (`Phased`) and that a
connection starts clean (`GoneClean`). `Waiting` joins `ParkedOnce` and `AnsweredOnce` with
`WokenOnce` (whoever runs or is to be resumed is not parked, and once only) and `Drained`
(commands wait only behind a parked one or for their turn). `WakeUpKept` is what makes
`NoLostWakeUp` inductive: at every step of a pass, a queue somebody waits on is noted as
ready, or is in the batch being served at a place the loop has not come to. It holds for
waiters of every kind, so also for one whose command does not fit the value.

`OldestFirst` has an invariant of its own beside this (`Ordered`): while the registry is walked,
a queue that somebody waits on is in the batch with that waiter still ahead of the walk, or was
fed in this round. `WakeUpKept` is too weak for it, as it lets a queue be ready again because
it was popped from.

### Publish/subscribe

Assumed: channels and patterns are finite and disjoint, bounds in `Nat`. The invariant
follows a message: a publisher's own copies are in `got` at once, the others are in the
outbox, and the two never meet because what the outbox has for a connection was published
by another (`OwnInline`). `NothingLost`, `OutboxDue` and `ExtraAlone` say that what is due
was got or is on its way and conversely; `OutboxOnce` and `GotOnce` that nothing is there
twice; `OutboxOrdered` and `GotOrdered` that the order survives the delivery: the frame at the
head of the outbox follows all that its addressee has got (`Awaited`) and comes before all
that is still to come.

### Persistence

Assumed: the `Writes` are records and none is an empty collection (no handler writes
one: `NoEmptyCollection` above), and the assumptions of the keyspace. The invariant has four parts beside
the types. `DumpInv` relates what a load will read to the last completed save. `SaveInv`
relates what a save has written to the keyspace at its beginning, and that keyspace to what
the save will still find: commands do not run during a save, but lookups do and drop keys, so
a key may be missing only if it is due. `LoadInv` says of every record of the dump that it is
still to be read, installed, due or empty, and of every key that a record brought it.
`CleanInv` is `CleanMeansSaved` for the running save, too. `KillLosesOnlyTheUnsaved` needs
all of them: the save that replaces a dump must cover at least what the dump covers at that
moment, and this is known only through what the save found when it began. Every part speaks
of copies up to the truncation: the deadline of a record is compared after `FromMillis`, and
`TruncatedTwice` bounds what two divisions by `Milli`, an assumed positive number, can take.

### Eviction

Assumed: `BitsAssumption` (a counter of at least one bit that starts above zero and below its
top), at least one draw, sizes from 1 to `MaxLen`, bounds in `Nat`, and the assumptions of the
keyspace. The invariant, `Inv == Fits(Held) /\ Ordered /\ Bounded`, says that the store is
`Good` (so both index vectors are exact, by the lemmas of `KeyspaceProofs`) and that every
entry has one access record, not stamped in the future and with a counter that is not zero
(`Fits`); that whenever the observer has seen a lookup find `v` after the last use of `k`, the
stamp of `k` is below that of `v` (`Ordered`); and where the gate stands (`Bounded`).
One lemma per method says what it does to a store that `Fits`, one per command what it
uses, finds and frees. RENAME and COPY carry a stamp to another key, so `Ordered` holds
through them only because the key they carry it from was looked up in the same command.

`TakesWhatItMay` follows from the exact indexes, `LruKeepsTheReRead` from `Ordered`.
`IdleGoesFirst` needs that no counter rests on zero: it is positive right after a use, so
what has decayed to zero goes first; the powers of two it divides by are shown positive as
cardinalities of power sets (`FS_SUBSET`), since a fact about a recursive function would be
induction. `NoGrowthOverLimit` compares sets of bytes: each command outside `DENY_OOM`, each
eviction and each sweep leaves a subset.

### Memory indexes

Assumed: a text is a sequence of terms no longer than `Unlimited`, `None`, `Unfit` and `Zero`
are not vectors, requests are well formed, term limits are at least 1, bounds in `Nat`. The two
indexes are first looked at by themselves. `TextFits(x, toks, left)` says that a keyword index is
the one of documents with these tokens: lengths, total, and one posting per term, with the ids
in `left` excused from having no more. `VectorsFit(x, slots, given)` says that a vector array is
shared out as these slots say, without overlap or loss, and holds what was given. One lemma per
method (`TextInsertFits`, `TextRemoveFits`, `OverwriteFits`, `InsertFits`, `RemoveFits`) says how the
index follows when the tokens or the slots change. What a record holds is what it was given
or, for an id in `inherited`, what it took over (`Holding`): the slots stay exact through the
exception of `VectorIndexAgrees`. The invariant then reads the tokens and the
slots off the records and the history, and adds `HistoryInv` (what is still to be loaded comes
with the vector it had) and `NamesInv` (an id ahead of the counter is in use only if a client
chose it). The indexes need this stronger form: that a search finds nothing wrong says nothing
of the postings of ids that are not there now, on which the next record of that id depends.

The total length is a sum over the documents. It is stated as the number of words, each told by
its document and its place, so that adding and taking away a document is a union and a
difference of finite sets, and no induction is needed.

### Only model-checked

Liveness, which is out of the prover's reach: `PassEnds`, `TimeoutAnswered`,
`GoneIsForgotten`, `EventuallySaved`, `ExpiredReclaimed`. Every other property of a passing run
is a theorem.

## 7. Disagreements found

Three runs are expected to end in a violation; PROJECT.json quotes the sentence each
contradicts.

- `store_panic`: a key that expires between two lookups of one command makes an
  `expect` fail in the only thread.
- `persist_expired`: a string that expires while a save is running may be written as an
  empty string without a deadline, which a restart brings back for good.
- `memory_added`: MEM.ADD under the id of a record that has expired but is not swept
  keeps the old deadline, so a record added without a TTL is acknowledged and cannot be
  read.

The others are stated as properties that hold with the exception spelled out, so that a
run shows that there is no other:

- `CommandsAsPromised`: a handler that looks its key up twice may find it live and then gone.
  SET XX KEEPTTL, INCR and its family, APPEND and SETRANGE install through `update_string`,
  which then makes the key anew without a deadline, from the value it had before it expired;
  LPUSHX and RPUSHX create the list they are not to create. A key that was to disappear stays
  for good, against `src/src/commands/string.rs:335`, "An in-place update, so the TTL
  survives". It takes a deadline between two clock readings microseconds apart.
- `CommandsAsPromised`: a ZINCRBY whose result is not finite removes the member also when it
  was there before, although the comment at `src/src/commands/zset.rs:87` says "Undo".
- `VectorIndexAgrees`: MEM.ADD with a TTL and without a vector, under the id of a record that
  has expired but is not swept, keeps that record's slot, and a search ranks the new record by
  the dead one's vector (`src/src/types/memory/mod.rs:358` against `src/src/app.rs:163`).
- `WriteAbortsExec`: a ZINCRBY that fails on its result has removed the member but signals
  nothing, so a transaction watching the key runs (`src/README.md:389` has no exception).
- `OldestFirst`: a waiter on two keys may overtake an older waiter on one of them if another
  waiter moved a value to that key in the same round (`src/src/server.rs:307` against
  `src/README.md:308`).
- `GoneIsForgotten`: a connection reset while it has output pending is never closed
  (`src/src/server.rs:483`).
- `LruKeepsTheReRead`: "LRU ordering is exact" (`src/src/store.rs:90`) holds between keys
  that were looked up; a fresh write takes the clock as it is, and ties.
- `TakesWhatItMay`: `make_room` gives up with "nothing left that this policy may take"
  (`src/src/evict.rs:159`) also when its draws were all due and not yet swept.
- `LateInThePassOnly`: the comment at `src/src/server.rs:382` allows for messages to clients
  that are gone; there are none.
- `OncePerSubscription`: EXEC keeps one frame of each reply, so a client that publishes to
  itself in a transaction gets one message in place of the count and loses the rest.
- `TextIndexAgrees`: a record indexed under a higher term limit (or by COPY, which has
  none) and un-indexed under a lower one leaves postings behind, and a later record of
  that id is found under terms it does not contain.
- `AssignedIdIsNew`: the server may assign an id that a client has already used, and then
  replaces that record.

`NoLostWakeUp` likewise allows for commands resumed by a timeout, which may ready a key
after the last look at the ready keys: its waiter is served one poll later, where
`src/src/app.rs:30` says "retried before the loop polls again". Without a
property: a dump cut off inside a blob loads as nothing, not as what precedes the cut, which
`src/tests/memory_persistence.rs:383` expects to survive (it tests a cut where it does).

The hazards whose own case is one of these exceptions say so in PROJECT.json: the property
bounds them and does not catch them.

## 8. Not modelled

RESP parsing and encoding, number parsing, glob matching, configuration parsing and INFO
are pure functions of bytes; ranking, fusion, filters and vector distance compute
floating-point scores, and `types/list.rs` and `types/zset.rs` hold the contents of values,
which the models reduce to sizes; the SDKs and the web site hold no server state. SCAN
cursors and the limit on a connection's output are abstracted away. Importance, metadata
and timestamps of a memory record affect only scores and filters. Version 1 dumps and a
dump path changed at run time are left out of `Persist`, and so is a failure of the
machine, after which a rename may be undone. That `make_room` comes back under the limit
in the end is not stated: with the environment free to take memory it need not.

## 9. Plan

Done: all modules of section 2, the runs of section 4, the proofs of section 6. Left, should the
code grow in these directions: the limit on a connection's output and SCAN cursors, which are
abstracted away now (section 8).
