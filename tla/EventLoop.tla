----------------------------- MODULE EventLoop -----------------------------
(***************************************************************************)
(* The single-threaded loop of src/src/server.rs: accept, read and run     *)
(* what was pipelined, wake the commands that wait on a written key,       *)
(* answer those whose time is up, write, close.  The registry of parked    *)
(* commands and the set of ready keys are the ones of src/src/app.rs.      *)
(*                                                                         *)
(* One pass of poll_once is a sequence of steps; `phase` is where it       *)
(* stands.  A command, a retry and a write are one step each.  Nothing     *)
(* runs beside the loop except the peers and the clock, and those are      *)
(* observed only at poll, at the timeout scan and at the final write, so   *)
(* they move only there.                                                   *)
(*                                                                         *)
(* Abstractions.  Bytes are whole commands, a reply is pending or not, a   *)
(* read takes all that was sent.  MULTI and pub/sub are in other modules.  *)
(* `owed` and `fed` are history: the commands taken off the wire and not   *)
(* answered, and the keys a retried waiter has added to in this round.     *)
(***************************************************************************)
EXTENDS Blocking, Selection

CONSTANTS
  Clients,
  MaxSent,    \* bound on the commands a client sends, over all its connections
  MaxClients, \* the values of maxclients, which CONFIG SET may change at any time
  Leaves      \* the ways in which a peer may leave

ASSUME MaxSentAssumption == MaxSent \in Nat
ASSUME MaxClientsAssumption == MaxClients \subseteq Nat \ {0}
ASSUME LeavesAssumption == Leaves \subseteq {"eof", "reset"}

VARIABLES
  db,       \* the keyspace
  conns,    \* Connections
  peer,     \* the far end: "up", "eof" once it stopped sending, "reset"
  sent,     \* commands on the wire, not read yet
  nsent,    \* commands the client has sent
  rbuf,     \* Conn.rbuf
  out,      \* the connections with pending output
  closing,  \* the connections with want_close
  parked,   \* the clients with client.blocked
  blocked,  \* App.blocked: [id, cmd, due], oldest first
  ready,    \* App.ready_keys
  phase,    \* where in poll_once the loop is
  order,    \* the connections poll found readable, still to be handled
  writable, \* the connections poll was asked to write to
  running,  \* the connection process_requests is draining, if any
  batch,    \* serve_ready_keys: the keys taken
  index,    \* and the place in the registry
  woken,    \* the connections to resume
  fed,
  owed

loop == <<phase, order, writable, batch, index, woken, fed>>
wire == <<conns, peer, sent, nsent>>
vars == <<db, wire, rbuf, out, closing, parked, blocked, ready, running, owed, loop>>

Init ==
  /\ db = Nothing
  /\ conns = {} /\ out = {} /\ closing = {} /\ parked = {}
  /\ peer = [c \in Clients |-> "up"]
  /\ sent = [c \in Clients |-> <<>>]
  /\ nsent = [c \in Clients |-> 0]
  /\ rbuf = [c \in Clients |-> <<>>]
  /\ blocked = <<>>
  /\ ready = {} /\ batch = {} /\ fed = {}
  /\ phase = "poll"
  /\ order = {} /\ writable = {} /\ running = {}
  /\ index = 1
  /\ woken = <<>>
  /\ owed = [c \in Clients |-> 0]

(***************************************************************************)
(* The world outside.                                                      *)
(***************************************************************************)
Send(c, cmd) ==
  /\ phase = "poll"
  /\ c \in conns /\ peer[c] = "up" /\ nsent[c] < MaxSent
  /\ sent' = [sent EXCEPT ![c] = Append(@, cmd)]
  /\ nsent' = [nsent EXCEPT ![c] = @ + 1]
  /\ UNCHANGED <<db, conns, peer, rbuf, out, closing, parked, blocked, ready, running,
                 owed, loop>>

\* The peer stops sending, or its end of the connection is gone for good.
PeerLeaves(c, how) ==
  /\ phase \in {"poll", "flush"}
  /\ c \in conns /\ peer[c] # how /\ peer[c] # "reset"
  /\ peer' = [peer EXCEPT ![c] = how]
  /\ UNCHANGED <<db, conns, sent, nsent, rbuf, out, closing, parked, blocked, ready,
                 running, owed, loop>>

DeadlinePasses(i) ==
  /\ phase \in {"poll", "timeouts"}
  /\ blocked[i].cmd.wait = "timed" /\ ~blocked[i].due
  /\ blocked' = [blocked EXCEPT ![i].due = TRUE]
  /\ UNCHANGED <<db, wire, rbuf, out, closing, parked, ready, running, owed, loop>>

(***************************************************************************)
(* poll and accept.  A connection that is closing is not read from again.  *)
(***************************************************************************)
\* A slip: a parked connection is not watched.
PollUnparked ==
  /\ phase = "poll"
  /\ phase' = "accept"
  /\ order' = {c \in conns \ parked :
                 \/ c \notin closing /\ (sent[c] # <<>> \/ peer[c] = "eof")
                 \/ peer[c] = "reset"}
  /\ writable' = out
  /\ UNCHANGED <<db, wire, rbuf, out, closing, parked, blocked, ready, running, owed,
                 batch, index, woken, fed>>

Poll ==
  /\ phase = "poll"
  /\ phase' = "accept"
  /\ order' = {c \in conns : \/ c \notin closing /\ (sent[c] # <<>> \/ peer[c] = "eof")
                             \/ peer[c] = "reset"}
  /\ writable' = out
  /\ UNCHANGED <<db, wire, rbuf, out, closing, parked, blocked, ready, running, owed,
                 batch, index, woken, fed>>

\* Over the ceiling a connection is told so and closed.
Accept(c, maxclients) ==
  /\ phase = "accept"
  /\ c \notin conns
  /\ conns' = conns \cup {c}
  /\ IF Cardinality(conns) >= maxclients
     THEN out' = out \cup {c} /\ closing' = closing \cup {c}
     ELSE UNCHANGED <<out, closing>>
  /\ UNCHANGED <<db, peer, sent, nsent, rbuf, parked, blocked, ready, running, owed, loop>>

AcceptEnd ==
  /\ phase = "accept"
  /\ phase' = "io"
  /\ UNCHANGED <<db, wire, rbuf, out, closing, parked, blocked, ready, running, owed,
                 order, writable, batch, index, woken, fed>>

(***************************************************************************)
(* Reading, and running what was read.                                     *)
(***************************************************************************)

\* handle_read.  A parked client is read from, and no further.
Read(c) ==
  LET got == IF c \in closing THEN <<>> ELSE sent[c]
  IN  /\ phase = "io" /\ running = {}
      /\ c \in order
      /\ order' = order \ {c}
      /\ sent' = [sent EXCEPT ![c] = IF c \in closing THEN @ ELSE <<>>]
      /\ rbuf' = [rbuf EXCEPT ![c] = @ \o got]
      /\ closing' = IF peer[c] = "reset" \/ got = <<>> THEN closing \cup {c} ELSE closing
      /\ running' = IF got = <<>> \/ c \in parked THEN {} ELSE {c}
      /\ UNCHANGED <<db, conns, peer, nsent, out, parked, blocked, ready, owed, phase,
                     writable, batch, index, woken, fed>>

\* process_requests, one command: its reply may put the connection over the
\* output limit, which closes it.
RunCommand(c, over) ==
  LET cmd == Head(rbuf[c])
      r == Run(cmd, db)
      close == cmd.op = "quit" \/ over
  IN  /\ running = {c} /\ rbuf[c] # <<>>
      /\ cmd.op # "bad" /\ r.reply # "park"
      /\ db' = r.db
      /\ ready' = ready \cup Readied(cmd, r, blocked)
      /\ rbuf' = [rbuf EXCEPT ![c] = Tail(@)]
      /\ out' = out \cup {c}
      /\ closing' = IF close THEN closing \cup {c} ELSE closing
      /\ running' = IF c \in closing' \/ rbuf'[c] = <<>> THEN {} ELSE {c}
      /\ UNCHANGED <<wire, parked, blocked, owed, loop>>

\* process_requests, a command that found nothing: the drain stops here.
ParkCommand(c) ==
  LET cmd == Head(rbuf[c])
  IN  /\ running = {c} /\ rbuf[c] # <<>>
      /\ Run(cmd, db).reply = "park"
      /\ rbuf' = [rbuf EXCEPT ![c] = Tail(@)]
      /\ parked' = parked \cup {c}
      /\ blocked' = Append(blocked, [id |-> c, cmd |-> cmd, due |-> FALSE])
      /\ running' = {}
      /\ owed' = [owed EXCEPT ![c] = @ + 1]
      /\ UNCHANGED <<db, wire, out, closing, ready, loop>>

\* process_requests, bytes that do not parse.
ProtocolError(c) ==
  /\ running = {c} /\ rbuf[c] # <<>>
  /\ Head(rbuf[c]).op = "bad"
  /\ rbuf' = [rbuf EXCEPT ![c] = <<>>]
  /\ out' = out \cup {c}
  /\ closing' = closing \cup {c}
  /\ running' = {}
  /\ UNCHANGED <<db, wire, parked, blocked, ready, owed, loop>>

\* handle_write on each of S: the sockets of W take everything, a broken
\* one marks its connection, the others would block.
Writes(S, W) ==
  /\ W \subseteq {c \in S : peer[c] # "reset"}
  /\ out' = out \ W

Broken(S) == {c \in S : peer[c] = "reset"}

ReadEnd(W) ==
  /\ phase = "io" /\ order = {} /\ running = {}
  /\ Writes(writable, W)
  /\ closing' = closing \cup Broken(writable)
  /\ writable' = {}
  /\ phase' = "ready"
  /\ UNCHANGED <<db, wire, rbuf, parked, blocked, ready, running, owed, order, batch,
                 index, woken, fed>>

(***************************************************************************)
(* serve_ready_keys.                                                       *)
(***************************************************************************)
\* A slip: the ready keys are copied, not taken.
TakeReadyKept ==
  /\ phase = "ready"
  /\ IF ready = {} THEN phase' = "timeouts" /\ UNCHANGED <<batch, index>>
     ELSE phase' = "serve" /\ batch' = ready /\ index' = 1
  /\ UNCHANGED <<db, wire, rbuf, out, closing, parked, blocked, ready, running, owed,
                 order, writable, woken, fed>>

TakeReady ==
  /\ phase = "ready"
  /\ IF ready = {} THEN phase' = "timeouts" /\ UNCHANGED <<ready, batch, index>>
     ELSE phase' = "serve" /\ batch' = ready /\ ready' = {} /\ index' = 1
  /\ UNCHANGED <<db, wire, rbuf, out, closing, parked, blocked, running, owed, order,
                 writable, woken, fed>>

\* The waiters from here on that wait on a key of the batch.
Matching == {i \in index .. Len(blocked) : WaitsOn(blocked[i].cmd) \cap batch # {}}

AtNext(i) == i \in Matching /\ \A j \in Matching : i <= j

\* A waiter that hung up is dropped, and the value stays in its queue.
DropWaiter(i) ==
  /\ phase = "serve" /\ AtNext(i)
  /\ blocked[i].id \in closing
  /\ blocked' = RemoveAt(blocked, i)
  /\ index' = i
  /\ UNCHANGED <<db, wire, rbuf, out, closing, parked, ready, running, owed, phase,
                 order, writable, batch, woken, fed>>

\* The keys with more elements after the answer r than now: where a retried
\* BLMOVE puts its value.
Fed(r) == {k \in Keys : db[k].size < r.db[k].size}

\* A slip: the waiter is answered and stays in the registry.
RetryWaiterKept(i) ==
  LET w == blocked[i]
      r == Run(w.cmd, db)
  IN  /\ phase = "serve" /\ AtNext(i)
      /\ w.id \notin closing
      /\ index' = i + 1
      /\ db' = r.db
      /\ fed' = fed \cup Fed(r)
      /\ IF r.reply = "park"
         THEN UNCHANGED <<parked, ready, out, woken, owed>>
         ELSE /\ parked' = parked \ {w.id}
              /\ ready' = ready \cup Readied(w.cmd, r, blocked)
              /\ out' = out \cup {w.id}
              /\ woken' = Append(woken, w.id)
              /\ owed' = [owed EXCEPT ![w.id] = @ - 1]
      /\ UNCHANGED <<blocked, wire, rbuf, closing, running, phase, order, writable, batch>>

\* A slip: the next place is skipped after an answer, as if the waiter were
\* still in its own.
RetryWaiterSkipping(i) ==
  LET w == blocked[i]
      r == Run(w.cmd, db)
      others == RemoveAt(blocked, i)
  IN  /\ phase = "serve" /\ AtNext(i)
      /\ w.id \notin closing
      /\ index' = i + 1
      /\ db' = r.db
      /\ fed' = fed \cup Fed(r)
      /\ IF r.reply = "park"
         THEN UNCHANGED <<blocked, parked, ready, out, woken, owed>>
         ELSE /\ blocked' = others
              /\ parked' = parked \ {w.id}
              /\ ready' = ready \cup Readied(w.cmd, r, others)
              /\ out' = out \cup {w.id}
              /\ woken' = Append(woken, w.id)
              /\ owed' = [owed EXCEPT ![w.id] = @ - 1]
      /\ UNCHANGED <<wire, rbuf, closing, running, phase, order, writable, batch>>

\* The command runs again from the top, out of the registry while it does,
\* and goes back to its place if it still finds nothing.
RetryWaiter(i) ==
  LET w == blocked[i]
      r == Run(w.cmd, db)
      others == RemoveAt(blocked, i)
  IN  /\ phase = "serve" /\ AtNext(i)
      /\ w.id \notin closing
      /\ db' = r.db
      /\ fed' = fed \cup Fed(r)
      /\ IF r.reply = "park"
         THEN /\ index' = i + 1
              /\ UNCHANGED <<blocked, parked, ready, out, woken, owed>>
         ELSE /\ index' = i
              /\ blocked' = others
              /\ parked' = parked \ {w.id}
              /\ ready' = ready \cup Readied(w.cmd, r, others)
              /\ out' = out \cup {w.id}
              /\ woken' = Append(woken, w.id)
              /\ owed' = [owed EXCEPT ![w.id] = @ - 1]
      /\ UNCHANGED <<wire, rbuf, closing, running, phase, order, writable, batch>>

ServeEnd ==
  /\ phase = "serve" /\ Matching = {}
  /\ phase' = "resume"
  /\ batch' = {} /\ index' = 1 /\ fed' = {}
  /\ UNCHANGED <<db, wire, rbuf, out, closing, parked, blocked, ready, running, owed,
                 order, writable, woken>>

(***************************************************************************)
(* resume: what a woken connection had pipelined runs now.  After the      *)
(* ready keys the loop looks at the ready keys again; after the timeouts   *)
(* it does not.                                                            *)
(***************************************************************************)
Resuming == phase \in {"resume", "resume timeouts"}

Resume ==
  /\ Resuming /\ running = {} /\ woken # <<>>
  /\ woken' = Tail(woken)
  /\ running' = IF rbuf[Head(woken)] = <<>> THEN {} ELSE {Head(woken)}
  /\ UNCHANGED <<db, wire, rbuf, out, closing, parked, blocked, ready, owed, phase,
                 order, writable, batch, index, fed>>

ResumeEnd ==
  /\ Resuming /\ running = {} /\ woken = <<>>
  /\ phase' = IF phase = "resume" THEN "ready" ELSE "flush"
  /\ UNCHANGED <<db, wire, rbuf, out, closing, parked, blocked, ready, running, owed,
                 order, writable, batch, index, woken, fed>>

\* The waiters whose time is up.
Due == {i \in DOMAIN blocked : blocked[i].due}

\* Two slips: nobody is resumed, or the connections stay marked as blocked.
ServeTimeoutsNoResume ==
  LET ids == {blocked[i].id : i \in {j \in Due : blocked[j].id \notin closing}}
  IN  /\ phase = "timeouts"
      /\ phase' = "resume timeouts"
      /\ blocked' = At(blocked, DOMAIN blocked \ Due)
      /\ parked' = parked \ ids
      /\ out' = out \cup ids
      /\ owed' = [c \in Clients |-> IF c \in ids THEN owed[c] - 1 ELSE owed[c]]
      /\ UNCHANGED <<db, wire, rbuf, closing, ready, running, order, writable, batch,
                     index, woken, fed>>

ServeTimeoutsStillBlocked ==
  LET ids == {blocked[i].id : i \in {j \in Due : blocked[j].id \notin closing}}
  IN  /\ phase = "timeouts"
      /\ phase' = "resume timeouts"
      /\ blocked' = At(blocked, DOMAIN blocked \ Due)
      /\ out' = out \cup ids
      /\ owed' = [c \in Clients |-> IF c \in ids THEN owed[c] - 1 ELSE owed[c]]
      /\ UNCHANGED <<db, wire, rbuf, closing, parked, ready, running, order, writable,
                     batch, index, woken, fed>>

\* serve_timeouts: every waiter that is due leaves the registry, and those
\* still there to hear it get their timeout reply.
ServeTimeouts ==
  LET heard == At(blocked, {i \in Due : blocked[i].id \notin closing})
      ids == [i \in DOMAIN heard |-> heard[i].id]
  IN  /\ phase = "timeouts"
      /\ phase' = "resume timeouts"
      /\ blocked' = At(blocked, DOMAIN blocked \ Due)
      /\ parked' = parked \ ToSet(ids)
      /\ out' = out \cup ToSet(ids)
      /\ woken' = ids
      /\ owed' = [c \in Clients |-> IF c \in ToSet(ids) THEN owed[c] - 1 ELSE owed[c]]
      /\ UNCHANGED <<db, wire, rbuf, closing, ready, running, order, writable, batch, index, fed>>

(***************************************************************************)
(* The end of the pass: write what is pending, then close the connections  *)
(* that want it and have nothing left to write.  Closing one releases what *)
(* it held in the registry (forget_client).                                *)
(***************************************************************************)
\* The removal of `gone` after the writes W, and what it leaves of the registry.
Close(gone, registry) ==
  LET Fresh(f, init) == [c \in Clients |-> IF c \in gone THEN init ELSE f[c]]
  IN  /\ phase' = "poll"
      /\ conns' = conns \ gone
      /\ closing' = (closing \cup Broken(out)) \ gone
      /\ parked' = parked \ gone
      /\ blocked' = registry
      /\ peer' = Fresh(peer, "up")
      /\ sent' = Fresh(sent, <<>>)
      /\ rbuf' = Fresh(rbuf, <<>>)
      /\ owed' = Fresh(owed, 0)
      /\ UNCHANGED <<db, nsent, ready, running, order, writable, batch, index, woken, fed>>

Others(gone) == At(blocked, {i \in DOMAIN blocked : blocked[i].id \notin gone})
Finished(W) == {c \in closing \cup Broken(out) : c \notin out \ W}

\* Two slips: closing with output still pending, and leaving the registry be.
FlushUnsent(W) ==
  LET gone == closing \cup Broken(out)
  IN  phase = "flush" /\ Writes(out, W) /\ Close(gone, Others(gone))

FlushUnforgetful(W) ==
  phase = "flush" /\ Writes(out, W) /\ Close(Finished(W), blocked)

Flush(W) ==
  phase = "flush" /\ Writes(out, W) /\ Close(Finished(W), Others(Finished(W)))

-----------------------------------------------------------------------------
Drain ==
  \E c \in running : \/ \E over \in BOOLEAN : RunCommand(c, over)
                     \/ ParkCommand(c)
                     \/ ProtocolError(c)

Server ==
  \/ Poll
  \/ AcceptEnd
  \/ \E c \in order : Read(c)
  \/ Drain
  \/ \E W \in SUBSET writable : ReadEnd(W)
  \/ TakeReady
  \/ \E i \in DOMAIN blocked : DropWaiter(i) \/ RetryWaiter(i)
  \/ ServeEnd
  \/ Resume
  \/ ResumeEnd
  \/ ServeTimeouts
  \/ \E W \in SUBSET out : Flush(W)

World ==
  \/ \E c \in Clients : \/ \E cmd \in Commands : Send(c, cmd)
                        \/ \E how \in Leaves : PeerLeaves(c, how)
                        \/ \E maxclients \in MaxClients : Accept(c, maxclients)
  \/ \E i \in DOMAIN blocked : DeadlinePasses(i)

Next == Server \/ World

\* The loop runs for as long as the process does: poll never sleeps longer
\* than POLL_INTERVAL_MS, and no step waits for anything else.
Spec == Init /\ [][Next]_vars /\ WF_vars(Server)

-----------------------------------------------------------------------------
(***************************************************************************)
(* Properties.                                                             *)
(***************************************************************************)
Waiter == [id : Clients, cmd : Commands, due : BOOLEAN]
Phases == {"poll", "accept", "io", "ready", "serve", "resume", "timeouts",
           "resume timeouts", "flush"}

\* The shape of the state; what belongs to a connection goes with it.
TypeOK ==
  /\ db \in [Keys -> Content]
  /\ conns \subseteq Clients
  /\ peer \in [Clients -> {"up", "eof", "reset"}]
  /\ sent \in [Clients -> Seq(Commands)] /\ rbuf \in [Clients -> Seq(Commands)]
  /\ nsent \in [Clients -> 0 .. MaxSent]
  /\ out \subseteq conns /\ closing \subseteq conns /\ parked \subseteq conns
  /\ blocked \in Seq(Waiter)
  /\ ready \subseteq Keys /\ batch \subseteq Keys /\ fed \subseteq Keys
  /\ phase \in Phases
  /\ order \subseteq conns /\ writable \subseteq conns
  /\ running \subseteq conns /\ Cardinality(running) <= 1
  /\ index \in Nat
  /\ woken \in Seq(conns)
  /\ owed \in [Clients -> Int]

\* The flag on the connection and the registry on the App agree: a client
\* that is not hanging up is marked blocked exactly if one command of its is
\* parked, and nobody is parked twice or after it left.
ParkedOnce ==
  /\ \A i, j \in DOMAIN blocked : blocked[i].id = blocked[j].id => i = j
  /\ {blocked[i].id : i \in DOMAIN blocked} \subseteq parked
  /\ parked \ closing \subseteq {blocked[i].id : i \in DOMAIN blocked}

\* Every command taken off the wire is answered once: by its value or by its
\* timeout, never by both, and a client waits for an answer exactly while it
\* is parked.
AnsweredOnce == \A c \in conns : owed[c] = IF c \in parked THEN 1 ELSE 0

\* No wake-up is lost: when the loop goes to sleep, a waiter that could be
\* answered waits on a key the next pass will retry.
Servable(w) == w.id \notin closing /\ Run(w.cmd, db).reply = "value"
NoLostWakeUp ==
  phase = "poll" =>
    \A i \in DOMAIN blocked :
      Servable(blocked[i]) => WaitsOn(blocked[i].cmd) \cap ready # {}

\* What was pipelined behind a blocking command is not stranded in the read
\* buffer once the command is answered: nothing would run it until the client
\* sent more.
NothingStranded ==
  phase = "poll" => \A c \in conns \ (parked \cup closing) : rbuf[c] = <<>>

\* serve_ready_keys drains, although a retry can make more keys ready and a
\* resumed pipeline can park again: every pass comes back to poll.
PassEnds == phase # "poll" ~> phase = "poll"

\* A parked command whose deadline passed is answered, unless its connection
\* is going away.
TimeoutAnswered ==
  \A c \in Clients :
    (\E i \in DOMAIN blocked : blocked[i].id = c /\ blocked[i].due)
      ~> (c \notin parked \/ c \in closing)

\* Waiters on one key are served oldest first, each of a round in turn: a
\* retried command takes elements of key k only if nobody who has waited
\* longer, and has not hung up, waits on k at all.  The one exception is a key
\* another waiter has moved a value to in the same round: serve_ready_keys
\* does not go back for it before the next, so a younger waiter that also
\* waits on a key of this round may take it.
OldestFirst ==
  [][\A i \in DOMAIN blocked :
       RetryWaiter(i) =>
         \A k \in WaitsOn(blocked[i].cmd) \ fed, j \in 1 .. i - 1 :
           db'[k].size < db[k].size =>
             \/ k \notin WaitsOn(blocked[j].cmd)
             \/ blocked[j].id \in closing]_vars

\* The server forgets a connection whose peer is gone, parked or not
\* (forget_client), unless there is output for it: that can never be written,
\* and a connection with pending output is never closed.
GoneIsForgotten ==
  \A c \in Clients :
    (c \in conns /\ peer[c] = "reset") ~> (c \notin conns \/ c \in out)

=============================================================================
