---------------------------- MODULE MCEventLoop ----------------------------
(***************************************************************************)
(* The event loop on small instances; each run picks the commands its      *)
(* question needs.                                                         *)
(***************************************************************************)
EXTENDS EventLoop, TLC

CONSTANTS k1, k2

Cmd(op, kind, keys, wait) ==
  [op |-> op, kind |-> kind, keys |-> keys, count |-> 1, wait |-> wait]
Plain(op, keys) == Cmd(op, "list", keys, "no")
Twice(cmd) == [cmd EXCEPT !.count = 2]

\* Two queues: three waiters on one of them, one of which feeds the other, and
\* one of another type; a push of two elements, of which two waiters get one
\* each and a third none; what wakes everyone, and what changes the type of a
\* queue under those who wait on it; input that does not parse.
Waking ==
  {Cmd("pop", "list", <<k2>>, "timed"), Cmd("pop", "list", <<k2, k1>>, "forever"),
   Cmd("pop", "zset", <<k1>>, "forever"), Cmd("move", "list", <<k1, k2>>, "forever"),
   Twice(Plain("push", <<k1>>)), Cmd("push", "zset", <<k1>>, "no"),
   Plain("set", <<k1>>), Plain("flush", <<>>), Plain("bad", <<>>)}

\* One queue, a waiter that gives up and one that feeds it.
Timing ==
  {Cmd("pop", "list", <<k1>>, "timed"), Cmd("move", "list", <<k1, k1>>, "forever"),
   Plain("push", <<k1>>)}

\* Selection by place is the library's selection by a test.
ASSUME \A s \in BoundedSeq({0, 1}, 5) :
         At(s, {i \in DOMAIN s : s[i] = 1}) = SelectSeq(s, LAMBDA x : x = 1)
ASSUME \A s \in {q \in SeqOf(1 .. 4, 4) : IsInjective(q)}, S \in SUBSET (1 .. 4) :
         At(s, {i \in DOMAIN s : s[i] \in S}) = SelectSeq(s, LAMBDA x : x \in S)

ClientSymmetry == Permutations(Clients)

=============================================================================
