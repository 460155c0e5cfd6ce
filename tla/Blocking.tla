------------------------------ MODULE Blocking ------------------------------
(***************************************************************************)
(* The commands of src/src/commands/blocking.rs and the ones that can make *)
(* them answer, as operators from a command and a keyspace to the answer.  *)
(* A blocking command is its plain form tried first: Run returns "park"    *)
(* where the code returns a Blocked, and the event loop runs the same      *)
(* command again later.                                                    *)
(*                                                                         *)
(* Abstractions.  A key holds a type and a number of elements: which       *)
(* element a pop takes is left to the type modules.  A deadline is timed   *)
(* or not; module EventLoop lets it pass at any moment.                    *)
(***************************************************************************)
EXTENDS Integers, Sequences, SequencesExt

CONSTANTS
  Keys,
  Commands  \* the commands clients may send

\* kind is the type the command works on; wait is "no" for a plain command.
\* "move" is LMOVE and its family: from keys[1] to keys[2].  count is how many
\* elements a push adds, and how many a pop takes at most.
Command ==
  [op : {"push", "pop", "move", "set", "del", "flush", "quit", "bad"},
   kind : {"list", "zset"},
   keys : Seq(Keys),
   count : Nat \ {0},
   wait : {"no", "forever", "timed"}]

\* Commands with another number of keys are refused before they run.
ASSUME CommandsAssumption ==
  /\ Commands \subseteq Command
  /\ \A cmd \in Commands : /\ cmd.op \in {"push", "set", "del"} => Len(cmd.keys) = 1
                           /\ cmd.op = "move" => Len(cmd.keys) = 2

Missing == [type |-> "none", size |-> 0]
Content == [type : {"none", "list", "zset", "string"}, size : Nat]
Nothing == [k \in Keys |-> Missing]

\* The keys whose modification makes the command retry.
WaitsOn(cmd) == IF cmd.op = "move" THEN {cmd.keys[1]} ELSE ToSet(cmd.keys)

Answer(d, reply) == [db |-> d, reply |-> reply]
TypeAllows(d, k, kind) == d[k].type \in {"none", kind}

\* push_to and pop_from, the latter with its delete_if_empty.
Grow(d, k, kind, n) == [d EXCEPT ![k] = [type |-> kind, size |-> @.size + n]]
Shrink(d, k, n) ==
  [d EXCEPT ![k] = IF @.size <= n THEN Missing ELSE [type |-> @.type, size |-> @.size - n]]

\* What a command that found nothing answers.
NotFound(cmd, d) == Answer(d, IF cmd.wait = "no" THEN "nil" ELSE "park")

Push(cmd, d) ==
  LET k == cmd.keys[1]
  IN  IF TypeAllows(d, k, cmd.kind) THEN Answer(Grow(d, k, cmd.kind, cmd.count), "ok")
      ELSE Answer(d, "error")

\* pop_first_list and pop_first_zset: the keys in the order given; the first
\* one that exists decides.
Pop(cmd, d) ==
  LET i == SelectInSeq(cmd.keys, LAMBDA k : d[k] # Missing)
      k == cmd.keys[i]
  IN  IF i = 0 THEN NotFound(cmd, d)
      ELSE IF d[k].type = cmd.kind THEN Answer(Shrink(d, k, cmd.count), "value")
      ELSE Answer(d, "error")

\* move_one.
Move(cmd, d) ==
  LET from == cmd.keys[1]
      to   == cmd.keys[2]
  IN  IF ~TypeAllows(d, from, "list") \/ ~TypeAllows(d, to, "list") THEN Answer(d, "error")
      ELSE IF d[from] = Missing THEN NotFound(cmd, d)
      ELSE Answer(Grow(Shrink(d, from, 1), to, "list", 1), "value")

Run(cmd, d) ==
  CASE cmd.op = "push" -> Push(cmd, d)
    [] cmd.op = "pop" -> Pop(cmd, d)
    [] cmd.op = "move" -> Move(cmd, d)
    [] cmd.op = "set" -> Answer([d EXCEPT ![cmd.keys[1]] = [type |-> "string", size |-> 0]], "ok")
    [] cmd.op = "del" -> Answer([d EXCEPT ![cmd.keys[1]] = Missing], "ok")
    [] cmd.op = "flush" -> Answer(Nothing, "ok")
    [] OTHER -> Answer(d, "ok")

\* A slip: only a push makes keys ready, as if no blocking command wrote.
ReadiedByPush(cmd, r, waiters) ==
  IF cmd.op = "push" /\ r.reply = "ok" /\ waiters # <<>> THEN ToSet(cmd.keys) ELSE {}

\* signal_writes: the keys the answer r of cmd makes ready, given the
\* commands that wait.  Only a list or a sorted set wakes anyone; a flush
\* wakes everyone.
Readied(cmd, r, waiters) ==
  IF r.reply \in {"error", "park"} THEN {}
  ELSE IF cmd.op = "flush" THEN UNION {WaitsOn(waiters[i].cmd) : i \in DOMAIN waiters}
  ELSE IF waiters = <<>> THEN {}
  ELSE {k \in ToSet(cmd.keys) : r.db[k].type \in {"list", "zset"}}

=============================================================================
