------------------------------- MODULE PubSub -------------------------------
(***************************************************************************)
(* Publish/subscribe: the registry of src/src/pubsub.rs, the commands of   *)
(* src/src/commands/pubsub.rs, and the outbox through which the event loop *)
(* passes messages on to other connections.                                *)
(*                                                                         *)
(* A pass of the loop runs commands, hands out the outbox once, writes and *)
(* closes.  Here it runs the commands of the connections in any order;     *)
(* module EventLoop has the order.                                         *)
(*                                                                         *)
(* Abstractions.  The two maps of the registry, and the two sets of a      *)
(* client, are one, keyed by the subscription: a channel or a pattern.     *)
(* A message is its number; of the frames a connection is sent only the    *)
(* messages are kept, not the confirmations and replies, and output is     *)
(* written at any time.  A transaction is its EXEC of one PUBLISH: nothing *)
(* else a queue may hold touches this state.                               *)
(***************************************************************************)
EXTENDS Integers, FiniteSets, SequencesExt

CONSTANTS
  Channels,
  Patterns,
  Matches,      \* glob_match: the <<pattern, channel>> that match
  Resp3,        \* the connections that speak RESP3: HELLO is in Sessions
  MaxIds,       \* bound on the connections ever made
  MaxPublished  \* bound on the messages of one pass

ASSUME NamesAssumption ==
  IsFiniteSet(Channels) /\ IsFiniteSet(Patterns) /\ Channels \cap Patterns = {}
ASSUME MatchesAssumption == Matches \subseteq Patterns \X Channels
ASSUME BoundsAssumption == MaxIds \in Nat /\ MaxPublished \in Nat /\ Resp3 \subseteq 1 .. MaxIds

Ids == 1 .. MaxIds
Subscriptions == Channels \cup Patterns
Frame == [via : Subscriptions, by : Ids, msg : 1 .. MaxPublished]
Delivery == [id : Ids, frame : Frame]

VARIABLES
  nextId,    \* App.next_client_id
  conns,     \* the connections
  closing,   \* those with want_close
  held,      \* client.channels and client.patterns
  registry,  \* App.pubsub: subscription -> ids
  outbox,    \* App.outbox: frames for other connections
  phase,     \* "commands", "deliver" while the outbox is handed out, "close"
  sent,      \* history of the pass: the number of messages published
  due,       \* and of each connection: the messages it is to get,
  got,       \* those it was handed, in order,
  left       \* and the subscriptions it gave up with a message under way

connection == <<nextId, conns, closing>>
messages == <<outbox, sent, due, got>>
vars == <<connection, held, registry, left, messages, phase>>

Init ==
  /\ nextId = 0
  /\ conns = {} /\ closing = {}
  /\ held = [c \in Ids |-> {}]
  /\ registry = [s \in {} |-> s]
  /\ outbox = <<>>
  /\ phase = "commands"
  /\ sent = 0
  /\ due = [c \in Ids |-> {}] /\ got = [c \in Ids |-> <<>>] /\ left = [c \in Ids |-> {}]

(***************************************************************************)
(* The registry.  An entry goes with its last subscriber.                  *)
(***************************************************************************)
Subscribers(r, s) == IF s \in DOMAIN r THEN r[s] ELSE {}
Nonempty(r) == [s \in {x \in DOMAIN r : r[x] # {}} |-> r[s]]

AddId(r, S, c) ==
  [s \in DOMAIN r \cup S |-> Subscribers(r, s) \cup (IF s \in S THEN {c} ELSE {})]

\* A slip: the entry stays when it is empty.
RemoveIdOnly(r, S, c) == [s \in DOMAIN r |-> IF s \in S THEN r[s] \ {c} ELSE r[s]]

RemoveId(r, S, c) == Nonempty([s \in DOMAIN r |-> IF s \in S THEN r[s] \ {c} ELSE r[s]])

\* A slip: only the channels are gone through.
DropClientsChannels(r, gone) ==
  Nonempty([s \in DOMAIN r |-> IF s \in Channels THEN r[s] \ gone ELSE r[s]])

\* drop_client of each of `gone`.
DropClients(r, gone) == Nonempty([s \in DOMAIN r |-> r[s] \ gone])

\* The subscriptions a message on `channel` goes out on.
Ways(channel) == {s \in DOMAIN registry : s = channel \/ <<s, channel>> \in Matches}

\* PubSub::publish: a delivery per subscriber of each,
Deliveries(channel, by, msg) ==
  LET To(s) == {[id |-> x, frame |-> [via |-> s, by |-> by, msg |-> msg]] : x \in registry[s]}
  IN  UNION {To(s) : s \in Ways(channel)}

\* those of the channel itself first, then those of the patterns, pattern by
\* pattern in the order of the hash map; of each in the order of the ids.
\* The publisher's own copies and the others come in one order of the map;
\* they may have two here, as no connection sees both.
PublishOrder(deliveries) ==
  LET Via(i) == deliveries[i].frame.via
  IN  \A i, j \in DOMAIN deliveries :
        i < j => /\ Via(j) \in Channels => Via(i) = Via(j)
                 /\ Via(i) = Via(j) => /\ deliveries[i].id < deliveries[j].id
                                      /\ \A k \in i .. j : Via(k) = Via(i)

\* What is sent of them.
Frames(deliveries) == [i \in DOMAIN deliveries |-> deliveries[i].frame]

-----------------------------------------------------------------------------
(***************************************************************************)
(* Commands.                                                               *)
(***************************************************************************)
IsSubscriber(c) == held[c] # {}

\* A RESP2 subscriber may run only a few commands.
Runs(c) == phase = "commands" /\ c \in conns \ closing
Free(c) == Runs(c) /\ (IsSubscriber(c) => c \in Resp3)

\* Only the names that are new to the client reach the registry.
Subscribe(c, names) ==
  /\ Runs(c)
  /\ held' = [held EXCEPT ![c] = @ \cup names]
  /\ registry' = AddId(registry, names \ held[c], c)
  /\ UNCHANGED <<connection, left, messages, phase>>

UnderWay(c) == {d \in ToSet(outbox) : d.id = c}

GiveUp(c, names) ==
  /\ held' = [held EXCEPT ![c] = @ \ names]
  /\ registry' = RemoveId(registry, held[c] \cap names, c)
  /\ left' = [left EXCEPT ![c] = @ \cup ({d.frame.via : d \in UnderWay(c)} \cap names)]
  /\ UNCHANGED <<connection, messages, phase>>

\* No name at all stands for all of the kind.
Unsubscribe(c, kind, names) ==
  /\ Runs(c)
  /\ GiveUp(c, IF names = {} THEN kind ELSE names)

\* RESET gives up both kinds, and leaves the protocol as it is.
Reset(c) == Runs(c) /\ GiveUp(c, Subscriptions)

\* The subscriptions a client holds to a channel.
HeldTo(x, channel) == {s \in held[x] : s = channel \/ <<s, channel>> \in Matches}

\* A slip: the publisher's own messages go through the outbox, too.
SendOutboxAll(c, own, others) ==
  /\ outbox' = outbox \o own \o others
  /\ got' = [got EXCEPT ![c] = @ \o Frames(own)]

\* publish: what is for the publisher itself comes back inline, ahead of the
\* count.  EXEC has room for one frame of each command's reply.
Send(c, own, others) ==
  /\ outbox' = outbox \o others
  /\ got' = [got EXCEPT ![c] = @ \o Frames(own)]

Publish(c, channel, exec) ==
  /\ Free(c)
  /\ sent < MaxPublished
  /\ sent' = sent + 1
  /\ LET all == Deliveries(channel, c, sent')
         mine == {d \in all : d.id = c}
     IN  \E own \in SetToSeqs(mine), others \in SetToSeqs(all \ mine) :
           /\ PublishOrder(own) /\ PublishOrder(others)
           /\ Send(c, IF exec /\ own # <<>> THEN <<own[1]>> ELSE own, others)
  /\ due' = [x \in Ids |-> due[x] \cup
               {[via |-> s, by |-> c, msg |-> sent'] :
                  s \in IF exec /\ x = c THEN {} ELSE HeldTo(x, channel)}]
  /\ UNCHANGED <<connection, held, registry, left, phase>>

-----------------------------------------------------------------------------
(***************************************************************************)
(* The event loop.                                                         *)
(***************************************************************************)

\* Client ids are never used again, whatever the file descriptor.
Connect ==
  /\ phase = "commands" /\ nextId < MaxIds
  /\ nextId' = nextId + 1
  /\ conns' = conns \cup {nextId'}
  /\ UNCHANGED <<closing, held, registry, left, messages, phase>>

\* A slip: the connection is removed on the spot.
HangUpAtOnce(c) ==
  /\ Runs(c)
  /\ conns' = conns \ {c}
  /\ held' = [held EXCEPT ![c] = {}]
  /\ registry' = DropClients(registry, {c})
  /\ UNCHANGED <<nextId, closing, left, messages, phase>>

\* QUIT, end of file, an error: it is closed when its output is written.
HangUp(c) ==
  /\ Runs(c)
  /\ closing' = closing \cup {c}
  /\ UNCHANGED <<nextId, conns, held, registry, left, messages, phase>>

\* deliver_outbox, once the commands of the pass are run, takes the outbox
EndCommands ==
  /\ phase = "commands"
  /\ phase' = IF outbox = <<>> THEN "close" ELSE "deliver"
  /\ UNCHANGED <<connection, held, registry, left, messages>>

\* A slip: the frames are taken off the end of the outbox.
DeliverFromEnd ==
  /\ phase = "deliver"
  /\ LET d == Last(outbox)
     IN  got' = IF d.id \in conns THEN [got EXCEPT ![d.id] = Append(@, d.frame)] ELSE got
  /\ outbox' = Front(outbox)
  /\ phase' = IF outbox' = <<>> THEN "close" ELSE "deliver"
  /\ UNCHANGED <<connection, held, registry, left, sent, due>>

\* and hands out frame by frame, to whoever is still there, closing or not,
\* and subscribed or not.
Deliver ==
  /\ phase = "deliver"
  /\ LET d == Head(outbox)
     IN  got' = IF d.id \in conns THEN [got EXCEPT ![d.id] = Append(@, d.frame)] ELSE got
  /\ outbox' = Tail(outbox)
  /\ phase' = IF outbox' = <<>> THEN "close" ELSE "deliver"
  /\ UNCHANGED <<connection, held, registry, left, sent, due>>

\* The connections that want to close and whose output is written go:
\* forget_client.  The others are closed in a later pass.
ClosePass(gone) ==
  /\ phase = "close"
  /\ phase' = "commands"
  /\ conns' = conns \ gone /\ closing' = closing \ gone
  /\ held' = [c \in Ids |-> IF c \in gone THEN {} ELSE held[c]]
  /\ registry' = DropClients(registry, gone)
  /\ sent' = 0
  /\ due' = [c \in Ids |-> {}] /\ got' = [c \in Ids |-> <<>>] /\ left' = [c \in Ids |-> {}]
  /\ UNCHANGED <<nextId, outbox>>

Next ==
  \/ Connect
  \/ \E c \in conns, kind \in {Channels, Patterns} :
       \/ \E names \in (SUBSET kind) \ {{}} : Subscribe(c, names)
       \/ \E names \in SUBSET kind : Unsubscribe(c, kind, names)
  \/ \E c \in conns :
       \/ Reset(c)
       \/ \E channel \in Channels, exec \in BOOLEAN : Publish(c, channel, exec)
       \/ HangUp(c)
  \/ EndCommands
  \/ Deliver
  \/ \E gone \in SUBSET closing : ClosePass(gone)

Spec == Init /\ [][Next]_vars

-----------------------------------------------------------------------------
(***************************************************************************)
(* Properties.                                                             *)
(***************************************************************************)

\* The shape of the state; the registry has no empty entry (PUBSUB CHANNELS
\* and NUMPAT count the entries).
TypeOK ==
  /\ nextId \in 0 .. MaxIds
  /\ conns \subseteq 1 .. nextId
  /\ closing \subseteq conns
  /\ held \in [Ids -> SUBSET Subscriptions] /\ left \in [Ids -> SUBSET Subscriptions]
  /\ DOMAIN registry \subseteq Subscriptions
  /\ \A s \in DOMAIN registry : registry[s] \subseteq Ids /\ registry[s] # {}
  /\ outbox \in Seq(Delivery)
  /\ phase \in {"commands", "deliver", "close"}
  /\ sent \in 0 .. MaxPublished
  /\ due \in [Ids -> SUBSET Frame] /\ got \in [Ids -> Seq(Frame)]

\* The registry and what the connections know of themselves agree, through
\* every way of subscribing, unsubscribing and leaving; nobody who is gone is
\* in it.
RegistryAgrees ==
  \A s \in Subscriptions : Subscribers(registry, s) = {c \in conns : s \in held[c]}

\* A message may still come after the subscription was given up, since the
\* confirmation goes out at once and the outbox only at the end of the pass,
\* but no later than in that pass.  And none is dropped for want of its
\* addressee, as src/src/server.rs:382 allows for: the outbox is handed out
\* before any connection of the pass is removed.
LateInThePassOnly ==
  \A i \in DOMAIN outbox :
    LET d == outbox[i] IN d.id \in conns /\ d.frame.via \in held[d.id] \cup left[d.id]

\* Once the outbox is handed out, every message has come on each of the
\* subscriptions held to it when it was published, once on each, and on no
\* other.  The exception is a publisher subscribed to its own message inside
\* EXEC: it gets the first of its copies in place of the count.
OncePerSubscription ==
  phase = "close" =>
    \A c \in conns :
      /\ IsInjective(got[c])
      /\ due[c] \subseteq ToSet(got[c])
      /\ \A f \in ToSet(got[c]) \ due[c] :
           f.by = c /\ \A g \in ToSet(got[c]) : g.msg = f.msg => g = f

\* A client gets the messages of one publisher in the order they were
\* published, and of each message the copy for the channel before those for
\* the patterns.
InOrder ==
  \A c \in conns : \A i, j \in DOMAIN got[c] :
    LET f == got[c][i]
        g == got[c][j]
    IN  i < j /\ f.by = g.by => f.msg < g.msg \/ (f.msg = g.msg /\ g.via \in Patterns)

=============================================================================
