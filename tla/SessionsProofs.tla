--------------------------- MODULE SessionsProofs ---------------------------
(***************************************************************************)
(* Transactions and WATCH, proved for any number of clients and keys and   *)
(* all bounds.  The registry of watched keys changes in three ways only:   *)
(* keys are signalled (Touch), a client drops its watches (UnwatchAll), a  *)
(* client watches one more key; there is one lemma for each, and every     *)
(* command is one of the three or leaves the registry alone.               *)
(***************************************************************************)
EXTENDS Sessions, TLAPS, FiniteSetTheorems

\* The shape of the registry and of the history beside it.
RegistryTyped ==
  /\ version \in [Keys -> Nat]
  /\ watchers \in [Keys -> Nat]
  /\ watched \in [Clients -> [Keys -> Nat \cup {Unwatched}]]
  /\ signalled \in [Clients -> SUBSET Keys]
  /\ written \in [Clients -> SUBSET Keys]

\* The history speaks of watched keys only, a change without a signal is not
\* in it, and versions only grow while anybody watches.
HistoryKept ==
  \A c \in Clients :
    /\ signalled[c] \subseteq Watches(c)
    /\ written[c] \subseteq signalled[c]
    /\ \A k \in Watches(c) : watched[c][k] <= version[k]

RegistryInv == RegistryTyped /\ WatchersCounted /\ VersionTellsSignals /\ HistoryKept

\* The shape of the connections; a client that is gone has no transaction.
SessionsTyped ==
  /\ open \subseteq Clients
  /\ txn \in [Clients -> [open : BOOLEAN, queued : Seq(Queueable), failed : BOOLEAN]]
  /\ subscriber \subseteq open
  /\ resp3 \subseteq open
  /\ exec \in [client : SUBSET open, rest : Seq(Queueable), resp3 : BOOLEAN]
  /\ \A c \in Clients \ open : txn[c] = NoTxn

GoneWatchesNothing == \A c \in Clients \ open : Watches(c) = {}

\* A client whose EXEC is running has no transaction open, so what HELLO
\* does to its protocol at the end traps nobody.
RunningClosed == \A c \in exec.client : ~txn[c].open

IInv ==
  /\ RegistryInv
  /\ SessionsTyped
  /\ GoneWatchesNothing
  /\ NoTrappedTransaction
  /\ RunningClosed

-----------------------------------------------------------------------------
\* The clients that watch a key; there are finitely many.
Watching(k) == {c \in Clients : k \in Watches(c)}

LEMMA WatchingFinite ==
  ASSUME NEW k
  PROVE  /\ IsFiniteSet(Watching(k)) /\ Cardinality(Watching(k)) \in Nat
         /\ Cardinality(Watching(k)) = 0 <=> Watching(k) = {}
<1>1. IsFiniteSet(Watching(k))
  BY ClientsFinite, FS_Subset DEF Watching
<1> QED
  BY <1>1, FS_CardinalityType, FS_EmptySet

\* A key somebody watches has an entry in the registry.
LEMMA WatchedHasEntry ==
  ASSUME RegistryInv, NEW c \in Clients, NEW k \in Watches(c)
  PROVE  watchers[k] > 0
<1>1. k \in Keys /\ c \in Watching(k)
  BY DEF Watching, Watches
<1>2. watchers[k] = Cardinality(Watching(k))
  BY <1>1 DEF RegistryInv, WatchersCounted, Watching
<1> QED
  BY <1>1, <1>2, WatchingFinite

\* Watch::touch: signalling keys keeps the registry right.  Every key that is
\* changed here is signalled, too.
LEMMA TouchInv ==
  ASSUME RegistryInv, NEW K \in SUBSET Keys, NEW changed \in SUBSET K,
         Touch(K, changed), UNCHANGED <<watchers, watched>>
  PROVE  RegistryInv' /\ \A c \in Clients : Watches(c)' = Watches(c)
<1>0. \A c \in Clients : Watches(c)' = Watches(c)
  BY DEF Watches
<1>1. RegistryTyped'
  <2>1. version' \in [Keys -> Nat]
    BY DEF RegistryInv, RegistryTyped, Touch
  <2>2. signalled' \in [Clients -> SUBSET Keys] /\ written' \in [Clients -> SUBSET Keys]
    BY DEF RegistryInv, RegistryTyped, Touch
  <2> QED
    BY <2>1, <2>2 DEF RegistryInv, RegistryTyped
<1>2. WatchersCounted'
  <2> SUFFICES ASSUME NEW k \in Keys
               PROVE  /\ watchers'[k] = Cardinality({c \in Clients : k \in Watches(c)'})
                      /\ watchers'[k] = 0 => version'[k] = 0
    BY DEF WatchersCounted
  <2>1. {c \in Clients : k \in Watches(c)'} = {c \in Clients : k \in Watches(c)}
    BY <1>0
  <2>2. watchers[k] = 0 => version'[k] = version[k]
    BY DEF Touch, RegistryInv, RegistryTyped
  <2> QED
    BY <2>1, <2>2 DEF RegistryInv, WatchersCounted
<1>3. ASSUME NEW c \in Clients, NEW k \in Watches(c)
      PROVE  /\ version'[k] = IF k \in K THEN version[k] + 1 ELSE version[k]
             /\ watched[c][k] <= version[k] /\ watched[c][k] \in Nat /\ version[k] \in Nat
  <2>1. k \in Keys /\ watched[c][k] # Unwatched
    BY DEF Watches
  <2>2. watched[c][k] \in Nat /\ version[k] \in Nat
    BY <2>1 DEF RegistryInv, RegistryTyped
  <2>3. watchers[k] > 0
    BY <1>3, WatchedHasEntry
  <2> QED
    BY <2>1, <2>2, <2>3 DEF Touch, RegistryInv, HistoryKept
<1>4. ASSUME NEW c \in Clients, NEW k \in Watches(c)
      PROVE  k \in signalled'[c] <=> k \in signalled[c] \/ k \in K
  BY <1>4 DEF Touch
<1>5. VersionTellsSignals'
  <2> SUFFICES ASSUME NEW c \in Clients, NEW k \in Watches(c)
               PROVE  version'[k] # watched[c][k] <=> k \in signalled'[c]
    BY <1>0 DEF VersionTellsSignals
  <2>1. version[k] # watched[c][k] <=> k \in signalled[c]
    BY DEF RegistryInv, VersionTellsSignals
  <2> QED
    BY <1>3, <1>4, <2>1
<1>6. HistoryKept'
  <2> SUFFICES ASSUME NEW c \in Clients
               PROVE  /\ signalled'[c] \subseteq Watches(c)
                      /\ written'[c] \subseteq signalled'[c]
                      /\ \A k \in Watches(c) : watched[c][k] <= version'[k]
    BY <1>0 DEF HistoryKept
  <2>1. signalled'[c] = signalled[c] \cup (K \cap Watches(c))
        /\ written'[c] = written[c] \cup (changed \cap Watches(c))
    BY DEF Touch
  <2>2. signalled[c] \subseteq Watches(c) /\ written[c] \subseteq signalled[c]
    BY DEF RegistryInv, HistoryKept
  <2>3. \A k \in Watches(c) : watched[c][k] <= version'[k]
    BY <1>3
  <2> QED
    BY <2>1, <2>2, <2>3
<1> QED
  BY <1>0, <1>1, <1>2, <1>5, <1>6 DEF RegistryInv

\* App::unwatch_all: a client's watches go, the counts follow, and a version
\* is forgotten only when nobody is left to compare it.
LEMMA UnwatchAllInv ==
  ASSUME RegistryInv, NEW c \in Clients, UnwatchAll(c)
  PROVE  /\ RegistryInv'
         /\ Watches(c)' = {}
         /\ \A d \in Clients \ {c} : Watches(d)' = Watches(d)
<1> DEFINE left == [k \in Keys |-> IF k \in Watches(c) THEN watchers[k] - 1 ELSE watchers[k]]
<1>0. /\ watchers' = left
      /\ version' = [k \in Keys |-> IF left[k] = 0 THEN 0 ELSE version[k]]
      /\ watched' = [watched EXCEPT ![c] = [k \in Keys |-> Unwatched]]
      /\ signalled' = [signalled EXCEPT ![c] = {}]
      /\ written' = [written EXCEPT ![c] = {}]
  BY DEF UnwatchAll
<1>1. Watches(c)' = {} /\ \A d \in Clients \ {c} : Watches(d)' = Watches(d)
  BY <1>0 DEF Watches, RegistryInv, RegistryTyped
<1>2. ASSUME NEW k \in Keys
      PROVE  /\ left[k] \in Nat
             /\ left[k] = Cardinality(Watching(k) \ {c})
             /\ left[k] = 0 <=> Watching(k) \ {c} = {}
  <2>1. watchers[k] = Cardinality(Watching(k))
    BY DEF RegistryInv, WatchersCounted, Watching
  <2>2. c \in Watching(k) <=> k \in Watches(c)
    BY DEF Watching
  <2>3. IsFiniteSet(Watching(k)) /\ IsFiniteSet(Watching(k) \ {c})
    BY WatchingFinite, FS_RemoveElement
  <2>4. Cardinality(Watching(k) \ {c}) \in Nat
        /\ (Cardinality(Watching(k) \ {c}) = 0 <=> Watching(k) \ {c} = {})
    BY <2>3, FS_CardinalityType, FS_EmptySet
  <2>5. Cardinality(Watching(k) \ {c}) =
           IF c \in Watching(k) THEN Cardinality(Watching(k)) - 1 ELSE Cardinality(Watching(k))
    BY <2>3, FS_RemoveElement
  <2> QED
    BY <2>1, <2>2, <2>4, <2>5
<1> HIDE DEF left
<1>3. RegistryTyped'
  <2>1. watchers' \in [Keys -> Nat] /\ version' \in [Keys -> Nat]
    <3>1. left \in [Keys -> Nat]
      BY <1>2 DEF left
    <3> QED
      BY <1>0, <3>1 DEF RegistryInv, RegistryTyped
  <2>2. watched' \in [Clients -> [Keys -> Nat \cup {Unwatched}]]
    BY <1>0 DEF RegistryInv, RegistryTyped
  <2>3. signalled' \in [Clients -> SUBSET Keys] /\ written' \in [Clients -> SUBSET Keys]
    BY <1>0 DEF RegistryInv, RegistryTyped
  <2> QED
    BY <2>1, <2>2, <2>3 DEF RegistryTyped
<1>4. WatchersCounted'
  <2> SUFFICES ASSUME NEW k \in Keys
               PROVE  /\ watchers'[k] = Cardinality({d \in Clients : k \in Watches(d)'})
                      /\ watchers'[k] = 0 => version'[k] = 0
    BY DEF WatchersCounted
  <2>1. {d \in Clients : k \in Watches(d)'} = Watching(k) \ {c}
    BY <1>1 DEF Watching
  <2> QED
    BY <1>0, <1>2, <2>1
<1>5. ASSUME NEW d \in Clients \ {c}
      PROVE  /\ signalled'[d] = signalled[d] /\ written'[d] = written[d]
             /\ \A k \in Watches(d) : /\ watched'[d][k] = watched[d][k]
                                      /\ version'[k] = version[k]
  <2>1. signalled'[d] = signalled[d] /\ written'[d] = written[d] /\ watched'[d] = watched[d]
    BY <1>0 DEF RegistryInv, RegistryTyped
  <2>2. ASSUME NEW k \in Watches(d) PROVE version'[k] = version[k]
    <3>1. k \in Keys /\ d \in Watching(k) \ {c}
      BY DEF Watching, Watches
    <3> QED
      BY <1>0, <1>2, <3>1
  <2> QED
    BY <2>1, <2>2
<1>6. signalled'[c] = {} /\ written'[c] = {}
  BY <1>0 DEF RegistryInv, RegistryTyped
<1>7. VersionTellsSignals'
  BY <1>1, <1>5 DEF RegistryInv, VersionTellsSignals
<1>8. HistoryKept'
  <2> SUFFICES ASSUME NEW d \in Clients
               PROVE  /\ signalled'[d] \subseteq Watches(d)'
                      /\ written'[d] \subseteq signalled'[d]
                      /\ \A k \in Watches(d)' : watched'[d][k] <= version'[k]
    BY DEF HistoryKept
  <2>1. CASE d = c
    BY <2>1, <1>1, <1>6
  <2>2. CASE d # c
    BY <2>2, <1>1, <1>5 DEF RegistryInv, HistoryKept
  <2> QED
    BY <2>1, <2>2
<1> QED
  BY <1>1, <1>3, <1>4, <1>7, <1>8 DEF RegistryInv

\* WATCH: the key is counted once more, and the version seen is the present
\* one, at which nothing has been signalled.
LEMMA WatchKeyInv ==
  ASSUME RegistryInv, NEW c \in Clients, NEW k \in Keys, WatchKey(c, k)
  PROVE  /\ RegistryInv'
         /\ \A d \in Clients \ {c} : Watches(d)' = Watches(d)
<1>0. /\ watched[c][k] = Unwatched
      /\ watchers' = [watchers EXCEPT ![k] = @ + 1]
      /\ watched' = [watched EXCEPT ![c][k] = version[k]]
      /\ UNCHANGED <<version, signalled, written>>
  BY DEF WatchKey
<1>1. version[k] \in Nat /\ version[k] # Unwatched
  BY DEF RegistryInv, RegistryTyped, Unwatched
<1>2. Watches(c)' = Watches(c) \cup {k} /\ \A d \in Clients \ {c} : Watches(d)' = Watches(d)
  BY <1>0, <1>1 DEF Watches, RegistryInv, RegistryTyped
<1>3. k \notin Watches(c) /\ k \notin signalled[c]
  BY <1>0 DEF Watches, RegistryInv, HistoryKept
<1>4. RegistryTyped'
  BY <1>0, <1>1 DEF RegistryInv, RegistryTyped
<1>5. WatchersCounted'
  <2> SUFFICES ASSUME NEW x \in Keys
               PROVE  /\ watchers'[x] = Cardinality({d \in Clients : x \in Watches(d)'})
                      /\ watchers'[x] = 0 => version'[x] = 0
    BY DEF WatchersCounted
  <2>0. watchers[x] = Cardinality(Watching(x)) /\ (watchers[x] = 0 => version[x] = 0)
    BY DEF RegistryInv, WatchersCounted, Watching
  <2>1. CASE x = k
    <3>1. {d \in Clients : x \in Watches(d)'} = Watching(x) \cup {c}
      BY <2>1, <1>2 DEF Watching
    <3>2. c \notin Watching(x)
      BY <2>1, <1>3 DEF Watching
    <3>3. Cardinality(Watching(x) \cup {c}) = Cardinality(Watching(x)) + 1
      BY <3>2, WatchingFinite, FS_AddElement
    <3>4. watchers'[x] = watchers[x] + 1 /\ watchers[x] \in Nat
      BY <2>1, <1>0 DEF RegistryInv, RegistryTyped
    <3>5. watchers'[x] # 0
      BY <3>4
    <3> QED
      BY <2>0, <3>1, <3>3, <3>4, <3>5
  <2>2. CASE x # k
    <3>1. {d \in Clients : x \in Watches(d)'} = Watching(x)
      BY <2>2, <1>2 DEF Watching
    <3>2. watchers'[x] = watchers[x]
      BY <2>2, <1>0 DEF RegistryInv, RegistryTyped
    <3> QED
      BY <2>0, <3>1, <3>2, <1>0
  <2> QED
    BY <2>1, <2>2
<1>6. ASSUME NEW d \in Clients, NEW x \in Watches(d)'
      PROVE  /\ version'[x] # watched'[d][x] <=> x \in signalled'[d]
             /\ watched'[d][x] <= version'[x]
  <2>1. CASE d = c /\ x = k
    BY <2>1, <1>0, <1>1, <1>3 DEF RegistryInv, RegistryTyped
  <2>2. CASE ~(d = c /\ x = k)
    <3>1. x \in Watches(d) /\ watched'[d][x] = watched[d][x]
      BY <2>2, <1>0, <1>2, <1>6 DEF RegistryInv, RegistryTyped, Watches
    <3> QED
      BY <3>1, <1>0 DEF RegistryInv, VersionTellsSignals, HistoryKept
  <2> QED
    BY <2>1, <2>2
<1>7. VersionTellsSignals'
  BY <1>6 DEF VersionTellsSignals
<1>8. HistoryKept'
  BY <1>0, <1>2, <1>6 DEF RegistryInv, HistoryKept
<1> QED
  BY <1>2, <1>4, <1>5, <1>7, <1>8 DEF RegistryInv

-----------------------------------------------------------------------------
\* What a command signals are keys, and it changes nothing without signalling
\* it, unless it replies with an error.
LEMMA SignalsFacts ==
  ASSUME NEW cmd \in Queueable
  PROVE  Signals(cmd) \in SUBSET Keys /\ Changes(cmd) \in SUBSET Signals(cmd)
<1>1. CASE cmd \in KeyCommand
  BY <1>1 DEF KeyCommand, Signals, Changes
<1>2. CASE cmd \in Plain
  BY <1>2 DEF Plain, Signals, Changes
<1> QED
  BY <1>1, <1>2 DEF Queueable

\* A step that leaves the registry and its history alone.
LEMMA RegistryUnchanged ==
  ASSUME RegistryInv, UNCHANGED <<version, watchers, watched, signalled, written>>
  PROVE  RegistryInv' /\ \A c \in Clients : Watches(c)' = Watches(c)
<1>1. \A c : Watches(c)' = Watches(c)
  BY DEF Watches
<1>2. RegistryTyped' /\ VersionTellsSignals' /\ HistoryKept'
  BY <1>1 DEF RegistryInv, RegistryTyped, VersionTellsSignals, HistoryKept
<1>3. WatchersCounted'
  BY <1>1 DEF RegistryInv, WatchersCounted
<1> QED
  BY <1>1, <1>2, <1>3 DEF RegistryInv

\* A command run at once.
LEMMA RunInv ==
  ASSUME IInv, NEW c \in Clients, NEW cmd \in Queueable, Run(c, cmd)
  PROVE  IInv'
<1>0. /\ c \in open /\ ~txn[c].open
      /\ Touch(Signals(cmd), Changes(cmd))
      /\ UNCHANGED <<open, watchers, watched, txn, subscriber, exec>>
  BY DEF Run, Free, Arrives
<1>1. RegistryInv' /\ \A d \in Clients : Watches(d)' = Watches(d)
  BY <1>0, SignalsFacts, TouchInv DEF IInv
<1>2. resp3' \subseteq resp3 \cup {c} /\ resp3 \ {c} \subseteq resp3'
  BY DEF Run
<1>3. SessionsTyped'
  BY <1>0, <1>2 DEF IInv, SessionsTyped
<1>4. GoneWatchesNothing' /\ RunningClosed'
  BY <1>0, <1>1 DEF IInv, GoneWatchesNothing, RunningClosed
<1>5. NoTrappedTransaction'
  <2> SUFFICES ASSUME NEW d \in Clients, d \in subscriber, d \notin resp3' PROVE ~txn[d].open
    BY <1>0 DEF NoTrappedTransaction, Gated
  <2>1. CASE d = c
    BY <2>1, <1>0
  <2>2. CASE d # c
    BY <2>2, <1>2 DEF IInv, NoTrappedTransaction, Gated
  <2> QED
    BY <2>1, <2>2
<1> QED
  BY <1>1, <1>3, <1>4, <1>5 DEF IInv

\* A client drops its watches, with whatever else it drops: its transaction,
\* its subscriptions, its protocol, its connection.
LEMMA DropInv ==
  ASSUME IInv, NEW c \in Clients, c \in open, ~Running,
         UnwatchAll(c), UNCHANGED exec,
         txn' \in {txn, [txn EXCEPT ![c] = NoTxn]},
         subscriber' \in {subscriber, subscriber \ {c}},
         \/ UNCHANGED <<open, resp3>>
         \/ /\ open' = open \ {c} /\ resp3' = resp3 \ {c}
            /\ subscriber' = subscriber \ {c} /\ txn' = [txn EXCEPT ![c] = NoTxn]
  PROVE  IInv'
<1>1. /\ RegistryInv'
      /\ Watches(c)' = {} /\ \A d \in Clients \ {c} : Watches(d)' = Watches(d)
  BY UnwatchAllInv DEF IInv
<1>2. NoTxn \in [open : BOOLEAN, queued : Seq(Queueable), failed : BOOLEAN] /\ ~NoTxn.open
  BY DEF NoTxn
<1>3. /\ txn' \in [Clients -> [open : BOOLEAN, queued : Seq(Queueable), failed : BOOLEAN]]
      /\ \A d \in Clients \ {c} : txn'[d] = txn[d]
      /\ txn'[c] \in {txn[c], NoTxn}
      /\ open' # open => txn'[c] = NoTxn
  <2>1. txn \in [Clients -> [open : BOOLEAN, queued : Seq(Queueable), failed : BOOLEAN]]
    BY DEF IInv, SessionsTyped
  <2>2. open' # open => txn' = [txn EXCEPT ![c] = NoTxn]
    OBVIOUS
  <2>3. CASE txn' = txn
    <3>1. open' = open \/ txn[c] = NoTxn
      BY <2>1, <2>2, <2>3
    <3> QED
      BY <2>1, <2>3, <3>1
  <2>4. CASE txn' = [txn EXCEPT ![c] = NoTxn]
    BY <1>2, <2>1, <2>4
  <2> QED
    BY <2>3, <2>4
<1>4. exec.client = {}
  BY DEF Running
<1>5. SessionsTyped'
  <2>1. /\ open' \subseteq Clients /\ subscriber' \subseteq open' /\ resp3' \subseteq open'
        /\ open' \subseteq open /\ open \ {c} \subseteq open'
    BY DEF IInv, SessionsTyped
  <2>2. exec' \in [client : SUBSET open', rest : Seq(Queueable), resp3 : BOOLEAN]
    BY <1>4 DEF IInv, SessionsTyped
  <2>3. \A d \in Clients \ open' : txn'[d] = NoTxn
    BY <1>3 DEF IInv, SessionsTyped
  <2> QED
    BY <1>3, <2>1, <2>2, <2>3 DEF SessionsTyped
<1>6. GoneWatchesNothing'
  BY <1>1 DEF IInv, GoneWatchesNothing
<1>7. NoTrappedTransaction'
  <2> SUFFICES ASSUME NEW d \in Clients, d \in subscriber', d \notin resp3' PROVE ~txn'[d].open
    BY DEF NoTrappedTransaction, Gated
  <2>1. d \in subscriber /\ (d \notin resp3 \/ (d = c /\ txn'[c] = NoTxn))
    BY DEF IInv, SessionsTyped
  <2> QED
    BY <1>2, <1>3, <2>1 DEF IInv, NoTrappedTransaction, Gated
<1>8. RunningClosed'
  BY <1>4 DEF RunningClosed
<1> QED
  BY <1>1, <1>5, <1>6, <1>7, <1>8 DEF IInv

\* MULTI, queueing and refusing to queue: only the transaction of one client
\* that is not gated changes.
LEMMA TxnInv ==
  ASSUME IInv, NEW c \in Clients,
         Multi(c) \/ RefuseToQueue(c) \/ (\E cmd \in Queueable : Queue(c, cmd))
  PROVE  IInv'
<1>0. /\ c \in open /\ ~Running /\ ~Gated(c)
      /\ UNCHANGED <<open, version, watchers, watched, subscriber, resp3, exec,
                     signalled, written>>
  BY DEF Multi, RefuseToQueue, Queue, Free, Arrives, IInv, NoTrappedTransaction
<1>1. /\ txn' \in [Clients -> [open : BOOLEAN, queued : Seq(Queueable), failed : BOOLEAN]]
      /\ \A d \in Clients \ {c} : txn'[d] = txn[d]
  <2>1. CASE Multi(c)
    <3>1. [NoTxn EXCEPT !.open = TRUE] \in
            [open : BOOLEAN, queued : Seq(Queueable), failed : BOOLEAN]
      <4>1. NoTxn \in [open : BOOLEAN, queued : Seq(Queueable), failed : BOOLEAN]
        BY DEF NoTxn
      <4> QED
        BY <4>1
    <3> QED
      BY <2>1, <3>1 DEF Multi, IInv, SessionsTyped
  <2>2. CASE RefuseToQueue(c)
    BY <2>2 DEF RefuseToQueue, IInv, SessionsTyped
  <2>3. ASSUME NEW cmd \in Queueable, Queue(c, cmd)
        PROVE  /\ txn' \in [Clients -> [open : BOOLEAN, queued : Seq(Queueable), failed : BOOLEAN]]
               /\ \A d \in Clients \ {c} : txn'[d] = txn[d]
    <3> DEFINE T == [open : BOOLEAN, queued : Seq(Queueable), failed : BOOLEAN]
    <3>1. txn \in [Clients -> T]
      BY DEF IInv, SessionsTyped
    <3>2. Append(txn[c].queued, cmd) \in Seq(Queueable)
      BY <3>1
    <3>3. [txn[c] EXCEPT !.queued = Append(txn[c].queued, cmd)] \in T
      BY <3>1, <3>2
    <3>4. txn' = [txn EXCEPT ![c] = [txn[c] EXCEPT !.queued = Append(txn[c].queued, cmd)]]
      BY <2>3, <3>1 DEF Queue
    <3> HIDE DEF T
    <3>5. txn' \in [Clients -> T] /\ \A d \in Clients \ {c} : txn'[d] = txn[d]
      BY <3>1, <3>3, <3>4
    <3> QED
      BY <3>5 DEF T
  <2> QED
    BY <2>1, <2>2, <2>3
<1>2. RegistryInv' /\ \A d \in Clients : Watches(d)' = Watches(d)
  BY <1>0, RegistryUnchanged DEF IInv
<1>3. SessionsTyped'
  BY <1>0, <1>1 DEF IInv, SessionsTyped
<1>4. GoneWatchesNothing'
  BY <1>0, <1>2 DEF IInv, GoneWatchesNothing
<1>5. NoTrappedTransaction'
  BY <1>0, <1>1 DEF IInv, NoTrappedTransaction, Gated
<1>6. RunningClosed'
  BY <1>0 DEF Running, RunningClosed
<1> QED
  BY <1>2, <1>3, <1>4, <1>5, <1>6 DEF IInv

\* WATCH.
LEMMA WatchInv ==
  ASSUME IInv, NEW c \in Clients, NEW k \in Keys, WatchKey(c, k)
  PROVE  IInv'
<1>0. c \in open /\ UNCHANGED <<open, txn, subscriber, resp3, exec>>
  BY DEF WatchKey, Free, Arrives
<1>1. RegistryInv' /\ \A d \in Clients \ {c} : Watches(d)' = Watches(d)
  BY WatchKeyInv DEF IInv
<1>2. SessionsTyped' /\ RunningClosed' /\ NoTrappedTransaction'
  BY <1>0 DEF IInv, SessionsTyped, RunningClosed, NoTrappedTransaction, Gated
<1>3. GoneWatchesNothing'
  BY <1>0, <1>1 DEF IInv, GoneWatchesNothing
<1> QED
  BY <1>1, <1>2, <1>3 DEF IInv

\* Connecting, subscribing and unsubscribing.
LEMMA SubscribeInv ==
  ASSUME IInv, NEW c \in Clients, Connect(c) \/ Subscribe(c) \/ Unsubscribe(c)
  PROVE  IInv'
<1>0. /\ UNCHANGED <<version, watchers, watched, txn, resp3, exec, signalled, written>>
      /\ open' \in {open, open \cup {c}} /\ exec.client = {}
      /\ subscriber' \in {subscriber, subscriber \ {c}, subscriber \cup {c}}
      /\ subscriber' \subseteq open'
      /\ c \in subscriber' => c \in subscriber \/ ~txn[c].open
  BY DEF Connect, Subscribe, Unsubscribe, Arrives, Running, IInv, SessionsTyped
<1>1. RegistryInv' /\ \A d \in Clients : Watches(d)' = Watches(d)
  BY <1>0, RegistryUnchanged DEF IInv
<1>2. SessionsTyped'
  BY <1>0 DEF IInv, SessionsTyped
<1>3. GoneWatchesNothing' /\ RunningClosed'
  BY <1>0, <1>1 DEF IInv, GoneWatchesNothing, RunningClosed
<1>4. NoTrappedTransaction'
  BY <1>0 DEF IInv, NoTrappedTransaction, Gated
<1> QED
  BY <1>1, <1>2, <1>3, <1>4 DEF IInv

\* EXEC: the watches and the transaction go, and the queue may start to run.
LEMMA ExecInv ==
  ASSUME IInv, NEW c \in Clients, Exec(c)
  PROVE  IInv'
<1>0. /\ c \in open /\ UnwatchAll(c) /\ UNCHANGED <<open, subscriber, resp3>>
      /\ txn' = [txn EXCEPT ![c] = NoTxn]
      /\ exec' = IF txn[c].failed \/ WatchBroken(c) THEN Idle
                 ELSE [client |-> {c}, rest |-> txn[c].queued, resp3 |-> c \in resp3]
  BY DEF Exec, Arrives
<1>1. /\ RegistryInv'
      /\ Watches(c)' = {} /\ \A d \in Clients \ {c} : Watches(d)' = Watches(d)
  BY <1>0, UnwatchAllInv DEF IInv
<1>2. NoTxn \in [open : BOOLEAN, queued : Seq(Queueable), failed : BOOLEAN] /\ ~NoTxn.open
  BY DEF NoTxn
<1>3. /\ txn' \in [Clients -> [open : BOOLEAN, queued : Seq(Queueable), failed : BOOLEAN]]
      /\ \A d \in Clients \ {c} : txn'[d] = txn[d]
      /\ txn'[c] = NoTxn
  BY <1>0, <1>2 DEF IInv, SessionsTyped
<1>4. /\ exec' \in [client : SUBSET open', rest : Seq(Queueable), resp3 : BOOLEAN]
      /\ exec'.client \subseteq {c}
  <2>1. txn[c].queued \in Seq(Queueable)
    BY DEF IInv, SessionsTyped
  <2>2. (c \in resp3) \in BOOLEAN
    OBVIOUS
  <2> QED
    BY <1>0, <2>1, <2>2 DEF Idle
<1>5. SessionsTyped'
  BY <1>0, <1>3, <1>4 DEF IInv, SessionsTyped
<1>6. GoneWatchesNothing'
  BY <1>0, <1>1 DEF IInv, GoneWatchesNothing
<1>7. NoTrappedTransaction' /\ RunningClosed'
  BY <1>0, <1>2, <1>3, <1>4 DEF IInv, NoTrappedTransaction, Gated, RunningClosed
<1> QED
  BY <1>1, <1>5, <1>6, <1>7 DEF IInv

\* The queued commands, and the end of EXEC.
LEMMA ExecStepInv ==
  ASSUME IInv, (\E refused \in BOOLEAN : ExecStep(refused)) \/ ExecEnd
  PROVE  IInv'
<1>1. ASSUME NEW refused \in BOOLEAN, ExecStep(refused) PROVE IInv'
  <2> DEFINE cmd == Head(exec.rest)
  <2>0. /\ UNCHANGED <<open, watchers, watched, txn, subscriber, resp3>>
        /\ exec.rest # <<>>
        /\ Touch({}, {}) \/ Touch(Signals(cmd), Changes(cmd))
    BY <1>1 DEF ExecStep
  <2>1. cmd \in Queueable /\ Tail(exec.rest) \in Seq(Queueable)
    BY <2>0 DEF IInv, SessionsTyped
  <2>2. /\ exec' \in [client : SUBSET open, rest : Seq(Queueable), resp3 : BOOLEAN]
        /\ exec'.client = exec.client
    BY <1>1, <2>1 DEF ExecStep, IInv, SessionsTyped
  <2>3. Signals(cmd) \in SUBSET Keys /\ Changes(cmd) \in SUBSET Signals(cmd)
    BY <2>1, SignalsFacts
  <2> HIDE DEF cmd
  <2>4. RegistryInv' /\ \A d \in Clients : Watches(d)' = Watches(d)
    <3>1. CASE Touch({}, {})
      BY <3>1, <2>0, TouchInv DEF IInv
    <3>2. CASE Touch(Signals(cmd), Changes(cmd))
      BY <3>2, <2>0, <2>3, TouchInv DEF IInv
    <3> QED
      BY <2>0, <3>1, <3>2
  <2>5. SessionsTyped' /\ RunningClosed' /\ NoTrappedTransaction'
    BY <2>0, <2>2 DEF IInv, SessionsTyped, RunningClosed, NoTrappedTransaction, Gated
  <2>6. GoneWatchesNothing'
    BY <2>0, <2>4 DEF IInv, GoneWatchesNothing
  <2> QED
    BY <2>4, <2>5, <2>6 DEF IInv
<1>2. CASE ExecEnd
  <2>0. /\ UNCHANGED <<open, version, watchers, watched, txn, subscriber, signalled, written>>
        /\ exec' = Idle
        /\ resp3' \in {resp3 \cup exec.client, resp3 \ exec.client}
    BY <1>2 DEF ExecEnd
  <2>1. RegistryInv' /\ \A d \in Clients : Watches(d)' = Watches(d)
    BY <2>0, RegistryUnchanged DEF IInv
  <2>2. SessionsTyped' /\ RunningClosed'
    BY <2>0 DEF IInv, SessionsTyped, RunningClosed, Idle
  <2>3. NoTrappedTransaction'
    BY <2>0 DEF IInv, RunningClosed, NoTrappedTransaction, Gated
  <2>4. GoneWatchesNothing'
    BY <2>0, <2>1 DEF IInv, GoneWatchesNothing
  <2> QED
    BY <2>1, <2>2, <2>3, <2>4 DEF IInv
<1> QED
  BY <1>1, <1>2

\* An eviction ahead of any command signals its key.
LEMMA EvictInv ==
  ASSUME IInv, NEW k \in Keys, Evict(k)
  PROVE  IInv'
<1>0. Touch({k}, {k}) /\ UNCHANGED <<open, watchers, watched, txn, subscriber, resp3, exec>>
  BY DEF Evict
<1>1. RegistryInv' /\ \A d \in Clients : Watches(d)' = Watches(d)
  BY <1>0, TouchInv DEF IInv
<1>2. SessionsTyped' /\ RunningClosed' /\ NoTrappedTransaction'
  BY <1>0 DEF IInv, SessionsTyped, RunningClosed, NoTrappedTransaction, Gated
<1>3. GoneWatchesNothing'
  BY <1>0, <1>1 DEF IInv, GoneWatchesNothing
<1> QED
  BY <1>1, <1>2, <1>3 DEF IInv

-----------------------------------------------------------------------------
\* The server starts in the invariant.
LEMMA InitInv == Init => IInv
<1> SUFFICES ASSUME Init PROVE IInv
  OBVIOUS
<1>1. \A c \in Clients : Watches(c) = {}
  BY DEF Init, Watches
<1>2. RegistryTyped /\ HistoryKept /\ VersionTellsSignals
  BY <1>1 DEF Init, RegistryTyped, HistoryKept, VersionTellsSignals
<1>3. WatchersCounted
  <2>1. \A k \in Keys : {c \in Clients : k \in Watches(c)} = {}
    BY <1>1
  <2> QED
    BY <2>1, FS_EmptySet DEF Init, WatchersCounted
<1>4. SessionsTyped
  BY DEF Init, SessionsTyped, NoTxn, Idle
<1>5. GoneWatchesNothing /\ NoTrappedTransaction /\ RunningClosed
  BY <1>1 DEF Init, GoneWatchesNothing, NoTrappedTransaction, Gated, RunningClosed, Idle
<1> QED
  BY <1>2, <1>3, <1>4, <1>5 DEF IInv, RegistryInv

\* Every step keeps it.
LEMMA StepInv == IInv /\ [Next]_vars => IInv'
<1> SUFFICES ASSUME IInv, [Next]_vars PROVE IInv'
  OBVIOUS
<1>1. ASSUME NEW c \in Clients, NEW cmd \in Queueable, Run(c, cmd) PROVE IInv'
  BY <1>1, RunInv
<1>2. ASSUME NEW c \in Clients,
             Multi(c) \/ RefuseToQueue(c) \/ \E cmd \in Queueable : Queue(c, cmd)
      PROVE  IInv'
  BY <1>2, TxnInv
<1>3. ASSUME NEW c \in Clients, Unwatch(c) \/ Discard(c) \/ Reset(c) \/ Disconnect(c)
      PROVE  IInv'
  <2>1. c \in open /\ ~Running /\ UnwatchAll(c) /\ UNCHANGED exec
    BY <1>3 DEF Unwatch, Discard, Reset, Disconnect, Free, Arrives
  <2>2. /\ txn' \in {txn, [txn EXCEPT ![c] = NoTxn]}
        /\ subscriber' \in {subscriber, subscriber \ {c}}
        /\ \/ UNCHANGED <<open, resp3>>
           \/ /\ open' = open \ {c} /\ resp3' = resp3 \ {c}
              /\ subscriber' = subscriber \ {c} /\ txn' = [txn EXCEPT ![c] = NoTxn]
    BY <1>3 DEF Unwatch, Discard, Reset, Disconnect
  <2> QED
    BY <2>1, <2>2, DropInv
<1>4. ASSUME NEW c \in Clients, NEW k \in Keys, WatchKey(c, k) PROVE IInv'
  BY <1>4, WatchInv
<1>5. ASSUME NEW c \in Clients, Connect(c) \/ Subscribe(c) \/ Unsubscribe(c) PROVE IInv'
  BY <1>5, SubscribeInv
<1>6. ASSUME NEW c \in Clients, Exec(c) PROVE IInv'
  BY <1>6, ExecInv
<1>7. CASE (\E refused \in BOOLEAN : ExecStep(refused)) \/ ExecEnd
  BY <1>7, ExecStepInv
<1>8. ASSUME NEW k \in Keys, Evict(k) PROVE IInv'
  BY <1>8, EvictInv
<1>9. CASE UNCHANGED vars
  <2>1. RegistryInv' /\ \A c \in Clients : Watches(c)' = Watches(c)
    BY <1>9, RegistryUnchanged DEF vars, IInv
  <2> QED
    BY <1>9, <2>1 DEF vars, IInv, SessionsTyped, GoneWatchesNothing, NoTrappedTransaction,
                      Gated, RunningClosed
<1> QED
  BY <1>1, <1>2, <1>3, <1>4, <1>5, <1>6, <1>7, <1>8, <1>9 DEF Next

\* The inductive invariant, for any number of clients and keys.
THEOREM Invariance == Spec => []IInv
BY InitInv, StepInv, PTL DEF Spec

\* Every connection and every entry of the registry is well formed, and a
\* client that is gone holds nothing (client.rs, watch.rs).
THEOREM TypeCorrect == Spec => []TypeOK
<1>1. IInv => TypeOK
  BY DEF IInv, RegistryInv, RegistryTyped, SessionsTyped, GoneWatchesNothing, TypeOK
<1> QED
  BY <1>1, Invariance, PTL

\* The registry counts exactly the clients that watch a key, and has no entry
\* for a key nobody watches (Watch in watch.rs).
THEOREM WatchersCountedCorrect == Spec => []WatchersCounted
<1>1. IInv => WatchersCounted
  BY DEF IInv, RegistryInv
<1> QED
  BY <1>1, Invariance, PTL

\* Comparing versions tells exactly whether a watched key was signalled, for
\* any number of clients that come and go (Watch::touch, App::unwatch_all).
THEOREM VersionTellsSignalsCorrect == Spec => []VersionTellsSignals
<1>1. IInv => VersionTellsSignals
  BY DEF IInv, RegistryInv
<1> QED
  BY <1>1, Invariance, PTL

\* No RESP2 subscriber is ever inside a transaction, whatever HELLO inside EXEC
\* does to the protocol (the gates in commands/mod.rs).
THEOREM NoTrappedTransactionCorrect == Spec => []NoTrappedTransaction
<1>1. IInv => NoTrappedTransaction
  BY DEF IInv
<1> QED
  BY <1>1, Invariance, PTL

\* In a state of the invariant EXEC finds a watch broken exactly if a watched
\* key was signalled.
LEMMA WatchBrokenFacts ==
  ASSUME IInv, NEW c \in Clients
  PROVE  WatchBroken(c) <=> signalled[c] # {}
BY DEF IInv, RegistryInv, VersionTellsSignals, HistoryKept, WatchBroken

\* EXEC runs the queue as it was built, or nothing of it; and nothing exactly
\* if a command was refused or a watched key was signalled (exec in
\* transactions.rs).
THEOREM ExecAllOrNothingCorrect == Spec => ExecAllOrNothing
<1>1. ASSUME IInv, NEW c \in Clients, Exec(c)
      PROVE  /\ exec'.client = {} <=> txn[c].failed \/ signalled[c] # {}
             /\ exec'.client # {} => exec'.rest = txn[c].queued
             /\ Watches(c)' = {}
  <2>1. exec' = IF txn[c].failed \/ signalled[c] # {} THEN Idle
                ELSE [client |-> {c}, rest |-> txn[c].queued, resp3 |-> c \in resp3]
    BY <1>1, WatchBrokenFacts DEF Exec
  <2>2. Watches(c)' = {}
    BY <1>1, UnwatchAllInv DEF Exec, IInv
  <2> QED
    BY <2>1, <2>2 DEF Idle
<1>2. IInv /\ [Next]_vars =>
        [\A c \in Clients :
           Exec(c) => /\ exec'.client = {} <=> txn[c].failed \/ signalled[c] # {}
                      /\ exec'.client # {} => exec'.rest = txn[c].queued
                      /\ Watches(c)' = {}]_vars
  BY <1>1
<1> QED
  BY <1>2, Invariance, PTL DEF Spec, ExecAllOrNothing

\* A watched key that was changed, by a command that did not reply with an
\* error or by an eviction, aborts the transaction (exec in transactions.rs,
\* signal_writes in commands/mod.rs).
THEOREM WriteAbortsExecCorrect == Spec => WriteAbortsExec
<1>1. ASSUME IInv, NEW c \in Clients, Exec(c), written[c] # {}
      PROVE  exec'.client = {}
  <2>1. signalled[c] # {}
    BY <1>1 DEF IInv, RegistryInv, HistoryKept
  <2> QED
    BY <1>1, <2>1, WatchBrokenFacts DEF Exec, Idle
<1>2. IInv /\ [Next]_vars =>
        [\A c \in Clients : Exec(c) /\ written[c] # {} => exec'.client = {}]_vars
  BY <1>1
<1> QED
  BY <1>2, Invariance, PTL DEF Spec, WriteAbortsExec

=============================================================================
