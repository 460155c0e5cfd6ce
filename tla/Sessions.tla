------------------------------ MODULE Sessions ------------------------------
(***************************************************************************)
(* Transactions: the per-connection state of src/src/client.rs, the        *)
(* watched-key registry of src/src/watch.rs, and the commands of           *)
(* src/src/commands/transactions.rs, with the routing in                   *)
(* src/src/commands/mod.rs that decides whether a command is queued,       *)
(* refused or run and what it signals when it has run.                     *)
(*                                                                         *)
(* The server is single-threaded: a command is one step, except EXEC,      *)
(* which is one step per queued command because the memory gate may evict  *)
(* keys between two of them.  While EXEC runs nobody else does.            *)
(*                                                                         *)
(* Abstractions.  Of the keyspace only what a command does to the keys a   *)
(* client watches is kept: whether it changed the key and whether dispatch *)
(* signalled it.  `signalled` and `written` are the history of that, per   *)
(* client, since it watched the key; the code has no such state.           *)
(***************************************************************************)
EXTENDS Integers, Sequences, FiniteSets

CONSTANTS
  Clients,     \* the connections
  Keys,
  MaxVersion,  \* bound on a watched key's version counter
  MaxQueue     \* bound on the length of a MULTI queue

ASSUME ClientsFinite == IsFiniteSet(Clients)
ASSUME MaxVersionAssumption == MaxVersion \in Nat
ASSUME MaxQueueAssumption == MaxQueue \in Nat

VARIABLES
  open,       \* the clients that are connected
  version,    \* Watched.version, 0 for a key nobody watches
  watchers,   \* Watched.watchers, 0 for a key that has no entry
  watched,    \* client.watched: the version seen, Unwatched if none
  txn,        \* client.transaction: [open, queued, failed]
  subscriber, \* the clients that hold a subscription
  resp3,      \* the clients that speak RESP3
  exec,       \* the running EXEC: [client, rest, resp3], or Idle
  signalled,  \* watched keys signalled since the client watched them
  written     \* watched keys changed since, other than by a failing command

vars == <<open, version, watchers, watched, txn, subscriber, resp3, exec,
          signalled, written>>

Unwatched == -1
NoTxn == [open |-> FALSE, queued |-> <<>>, failed |-> FALSE]

(***************************************************************************)
(* What a command does to one key.  A "write" changes it; an "idle" write  *)
(* succeeds and changes nothing (DEL of a missing key); an "undone" one is *)
(* ZINCRBY whose score came out infinite: it replies with an error, having *)
(* removed the member.  Everything else is "other": a read, or a write     *)
(* that failed a check.                                                    *)
(***************************************************************************)
KeyCommand == [op : {"write", "idle", "undone"}, key : Keys]
Plain == [op : {"other", "flush", "unwatch", "hello2", "hello3"}]
Queueable == KeyCommand \cup Plain

\* A slip: FLUSHALL, which names no keys, signals none.
SignalsNamed(cmd) == IF cmd.op \in {"write", "idle"} THEN {cmd.key} ELSE {}

\* signal_writes: the keys the table names, unless the reply is an error.
Signals(cmd) ==
  CASE cmd.op \in {"write", "idle"} -> {cmd.key}
    [] cmd.op = "flush" -> Keys
    [] OTHER -> {}

\* The keys the command changes and does not reply with an error.
Changes(cmd) ==
  CASE cmd.op = "write" -> {cmd.key}
    [] cmd.op = "flush" -> Keys
    [] OTHER -> {}

Watches(c) == {k \in Keys : watched[c][k] # Unwatched}
Running == exec.client # {}
Idle == [client |-> {}, rest |-> <<>>, resp3 |-> FALSE]

Init ==
  /\ open = {}
  /\ version = [k \in Keys |-> 0]
  /\ watchers = [k \in Keys |-> 0]
  /\ watched = [c \in Clients |-> [k \in Keys |-> Unwatched]]
  /\ txn = [c \in Clients |-> NoTxn]
  /\ subscriber = {}
  /\ resp3 = {}
  /\ exec = Idle
  /\ signalled = [c \in Clients |-> {}]
  /\ written = [c \in Clients |-> {}]

(***************************************************************************)
(* The registry.                                                           *)
(***************************************************************************)

\* Watch::touch on each of K, and the history of it.
Touch(K, changed) ==
  /\ \A k \in K : watchers[k] > 0 => version[k] < MaxVersion
  /\ version' = [k \in Keys |-> IF k \in K /\ watchers[k] > 0
                                THEN version[k] + 1 ELSE version[k]]
  /\ signalled' = [c \in Clients |-> signalled[c] \cup (K \cap Watches(c))]
  /\ written' = [c \in Clients |-> written[c] \cup (changed \cap Watches(c))]

\* App::unwatch_all: each entry loses a watcher and goes with its last one.
UnwatchAll(c) ==
  LET left == [k \in Keys |-> IF k \in Watches(c) THEN watchers[k] - 1 ELSE watchers[k]]
  IN  /\ watchers' = left
      /\ version' = [k \in Keys |-> IF left[k] = 0 THEN 0 ELSE version[k]]
      /\ watched' = [watched EXCEPT ![c] = [k \in Keys |-> Unwatched]]
      /\ signalled' = [signalled EXCEPT ![c] = {}]
      /\ written' = [written EXCEPT ![c] = {}]

(***************************************************************************)
(* Dispatch.                                                               *)
(***************************************************************************)

\* A command arrives; a RESP2 subscriber may run only a few.
Arrives(c) == c \in open /\ ~Running
Gated(c) == c \in subscriber /\ c \notin resp3
Free(c) == Arrives(c) /\ ~txn[c].open /\ ~Gated(c)

\* A command that is run at once, outside MULTI.
Run(c, cmd) ==
  /\ Free(c)
  /\ cmd.op # "unwatch"
  /\ Touch(Signals(cmd), Changes(cmd))
  /\ resp3' = CASE cmd.op = "hello2" -> resp3 \ {c}
                [] cmd.op = "hello3" -> resp3 \cup {c}
                [] OTHER -> resp3
  /\ UNCHANGED <<open, watchers, watched, txn, subscriber, exec>>

Unwatch(c) ==
  /\ Free(c)
  /\ UnwatchAll(c)
  /\ UNCHANGED <<open, txn, subscriber, resp3, exec>>

\* Two slips: a key watched already is counted again, or watched afresh.
WatchKeyTwice(c, k) ==
  /\ Free(c)
  /\ watchers' = [watchers EXCEPT ![k] = @ + 1]
  /\ watched' = [watched EXCEPT ![c][k] = version[k]]
  /\ UNCHANGED <<open, version, txn, subscriber, resp3, exec, signalled, written>>

WatchKeyAfresh(c, k) ==
  /\ Free(c)
  /\ watchers' = [watchers EXCEPT ![k] = IF watched[c][k] = Unwatched THEN @ + 1 ELSE @]
  /\ watched' = [watched EXCEPT ![c][k] = version[k]]
  /\ UNCHANGED <<open, version, txn, subscriber, resp3, exec, signalled, written>>

\* WATCH of one key; of several, one after the other.  A key watched
\* already is left alone.  Inside MULTI, WATCH is refused and runs nothing.
WatchKey(c, k) ==
  /\ Free(c)
  /\ watched[c][k] = Unwatched
  /\ watchers' = [watchers EXCEPT ![k] = @ + 1]
  /\ watched' = [watched EXCEPT ![c][k] = version[k]]
  /\ UNCHANGED <<open, version, txn, subscriber, resp3, exec, signalled, written>>

Multi(c) ==
  /\ Free(c)
  /\ txn' = [txn EXCEPT ![c] = [NoTxn EXCEPT !.open = TRUE]]
  /\ UNCHANGED <<open, version, watchers, watched, subscriber, resp3, exec,
                 signalled, written>>

\* Anything but a control command is queued while a transaction is open.
Queue(c, cmd) ==
  /\ Arrives(c)
  /\ txn[c].open
  /\ Len(txn[c].queued) < MaxQueue
  /\ txn' = [txn EXCEPT ![c].queued = Append(@, cmd)]
  /\ UNCHANGED <<open, version, watchers, watched, subscriber, resp3, exec,
                 signalled, written>>

\* An unknown command, or one that would take over the connection.
RefuseToQueue(c) ==
  /\ Arrives(c)
  /\ txn[c].open
  /\ txn' = [txn EXCEPT ![c].failed = TRUE]
  /\ UNCHANGED <<open, version, watchers, watched, subscriber, resp3, exec,
                 signalled, written>>

Discard(c) ==
  /\ Arrives(c) /\ ~Gated(c)
  /\ txn[c].open
  /\ txn' = [txn EXCEPT ![c] = NoTxn]
  /\ UnwatchAll(c)
  /\ UNCHANGED <<open, subscriber, resp3, exec>>

Reset(c) ==
  /\ Arrives(c)
  /\ txn' = [txn EXCEPT ![c] = NoTxn]
  /\ UnwatchAll(c)
  /\ subscriber' = subscriber \ {c}
  /\ UNCHANGED <<open, resp3, exec>>

\* A slip: SUBSCRIBE is not refused inside MULTI.
SubscribeInMulti(c) ==
  /\ Arrives(c)
  /\ subscriber' = subscriber \cup {c}
  /\ UNCHANGED <<open, version, watchers, watched, txn, resp3, exec, signalled, written>>

Subscribe(c) ==
  /\ Arrives(c)
  /\ ~txn[c].open
  /\ subscriber' = subscriber \cup {c}
  /\ UNCHANGED <<open, version, watchers, watched, txn, resp3, exec, signalled, written>>

Unsubscribe(c) ==
  /\ Arrives(c)
  /\ ~txn[c].open
  /\ subscriber' = subscriber \ {c}
  /\ UNCHANGED <<open, version, watchers, watched, txn, resp3, exec, signalled, written>>

(***************************************************************************)
(* EXEC.                                                                   *)
(***************************************************************************)
WatchBroken(c) == \E k \in Watches(c) : version[k] # watched[c][k]

\* A slip: the watches are dropped before they are compared.
ExecUnwatchesFirst(c) ==
  /\ Arrives(c) /\ ~Gated(c)
  /\ txn[c].open
  /\ txn' = [txn EXCEPT ![c] = NoTxn]
  /\ exec' = IF txn[c].failed THEN Idle
             ELSE [client |-> {c}, rest |-> txn[c].queued, resp3 |-> c \in resp3]
  /\ UnwatchAll(c)
  /\ UNCHANGED <<open, subscriber, resp3>>

\* The queue is taken and the watches dropped, whatever the outcome; it is
\* run only if it was built without errors and no watched key moved on.
Exec(c) ==
  /\ Arrives(c) /\ ~Gated(c)
  /\ txn[c].open
  /\ txn' = [txn EXCEPT ![c] = NoTxn]
  /\ exec' = IF txn[c].failed \/ WatchBroken(c) THEN Idle
             ELSE [client |-> {c}, rest |-> txn[c].queued, resp3 |-> c \in resp3]
  /\ UnwatchAll(c)
  /\ UNCHANGED <<open, subscriber, resp3>>

\* The next queued command.  The memory gate may refuse a write, which then
\* changes and signals nothing; UNWATCH finds nothing left to drop.
ExecStep(refused) ==
  LET cmd == Head(exec.rest)
      p == CASE cmd.op = "hello2" -> FALSE [] cmd.op = "hello3" -> TRUE [] OTHER -> exec.resp3
  IN  /\ Running /\ exec.rest # <<>>
      /\ refused => cmd.op = "write"
      /\ IF refused THEN Touch({}, {}) ELSE Touch(Signals(cmd), Changes(cmd))
      /\ exec' = [exec EXCEPT !.rest = Tail(@), !.resp3 = p]
      /\ UNCHANGED <<open, watchers, watched, txn, subscriber, resp3>>

\* The results go out, in the protocol HELLO asked for.
ExecEnd ==
  /\ Running /\ exec.rest = <<>>
  /\ exec' = Idle
  /\ resp3' = IF exec.resp3 THEN resp3 \cup exec.client ELSE resp3 \ exec.client
  /\ UNCHANGED <<open, version, watchers, watched, txn, subscriber, signalled, written>>

(***************************************************************************)
(* The server's side.                                                      *)
(***************************************************************************)

\* make_room, ahead of whichever command is next, queued ones included.
Evict(k) ==
  /\ Touch({k}, {k})
  /\ UNCHANGED <<open, watchers, watched, txn, subscriber, resp3, exec>>

Connect(c) ==
  /\ c \notin open /\ ~Running
  /\ open' = open \cup {c}
  /\ UNCHANGED <<version, watchers, watched, txn, subscriber, resp3, exec,
                 signalled, written>>

\* A slip: the subscriptions outlive the connection.
DisconnectSubscribed(c) ==
  /\ Arrives(c)
  /\ open' = open \ {c}
  /\ UnwatchAll(c)
  /\ txn' = [txn EXCEPT ![c] = NoTxn]
  /\ resp3' = resp3 \ {c}
  /\ UNCHANGED <<subscriber, exec>>

\* QUIT, a hang-up, an error: forget_client, and the next connection of
\* this client starts from nothing.
Disconnect(c) ==
  /\ Arrives(c)
  /\ open' = open \ {c}
  /\ UnwatchAll(c)
  /\ txn' = [txn EXCEPT ![c] = NoTxn]
  /\ subscriber' = subscriber \ {c}
  /\ resp3' = resp3 \ {c}
  /\ UNCHANGED exec

Next ==
  \/ \E c \in Clients :
       \/ Connect(c) \/ Disconnect(c)
       \/ \E cmd \in Queueable : Run(c, cmd) \/ Queue(c, cmd)
       \/ Unwatch(c)
       \/ \E k \in Keys : WatchKey(c, k)
       \/ Multi(c) \/ RefuseToQueue(c) \/ Discard(c) \/ Reset(c)
       \/ Subscribe(c) \/ Unsubscribe(c)
       \/ Exec(c)
  \/ \E refused \in BOOLEAN : ExecStep(refused)
  \/ ExecEnd
  \/ \E k \in Keys : Evict(k)

Spec == Init /\ [][Next]_vars

-----------------------------------------------------------------------------
(***************************************************************************)
(* Properties.                                                             *)
(***************************************************************************)

\* The shape of the state; a client that is gone holds nothing.
TypeOK ==
  /\ open \subseteq Clients
  /\ version \in [Keys -> Nat]
  /\ watchers \in [Keys -> Nat]
  /\ watched \in [Clients -> [Keys -> Nat \cup {Unwatched}]]
  /\ txn \in [Clients -> [open : BOOLEAN, queued : Seq(Queueable), failed : BOOLEAN]]
  /\ subscriber \subseteq open
  /\ resp3 \subseteq open
  /\ exec \in [client : SUBSET open, rest : Seq(Queueable), resp3 : BOOLEAN]
  /\ signalled \in [Clients -> SUBSET Keys]
  /\ written \in [Clients -> SUBSET Keys]
  /\ \A c \in Clients \ open : txn[c] = NoTxn /\ Watches(c) = {}

\* The registry counts exactly the clients that watch a key, and keeps no
\* entry for a key nobody watches (src/src/watch.rs:12).  A watcher counted
\* once too little makes the entry, and with it the version, vanish while a
\* client still relies on it.
WatchersCounted ==
  \A k \in Keys :
    /\ watchers[k] = Cardinality({c \in Clients : k \in Watches(c)})
    /\ watchers[k] = 0 => version[k] = 0

\* Comparing versions answers the question WATCH asks: the version differs
\* exactly if the key was signalled since this client watched it, however
\* many clients came and went, so EXEC neither misses a signal nor aborts
\* without one.
VersionTellsSignals ==
  \A c \in Clients : \A k \in Watches(c) :
    version[k] # watched[c][k] <=> k \in signalled[c]

\* A RESP2 connection in subscriber mode never has a transaction open: the
\* gate would refuse it EXEC and DISCARD, and the queue could never end.
NoTrappedTransaction ==
  \A c \in Clients : Gated(c) => ~txn[c].open

\* EXEC runs a queue only as a whole: a queue with a refused command, or
\* with a watched key signalled in the meantime, runs nothing, and one that
\* runs is the queue as it was built.
ExecAllOrNothing ==
  [][\A c \in Clients :
       Exec(c) => /\ exec'.client = {} <=> txn[c].failed \/ signalled[c] # {}
                  /\ exec'.client # {} => exec'.rest = txn[c].queued
                  /\ Watches(c)' = {}]_vars

\* If a watched key is changed between WATCH and EXEC, by anyone or by an
\* eviction, the transaction runs nothing.  The one exception is a change by
\* a command that replies with an error (an "undone" one), which nothing
\* signals.
WriteAbortsExec ==
  [][\A c \in Clients : Exec(c) /\ written[c] # {} => exec'.client = {}]_vars

=============================================================================
