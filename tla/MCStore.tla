------------------------------- MODULE MCStore -------------------------------
(***************************************************************************)
(* The keyspace on a small instance.                                       *)
(***************************************************************************)
EXTENDS Store, TLC

KeySymmetry == Permutations(Keys)

\* A bound for the runs that do not ask about the counter of changes, which no
\* command reads: they do not go on from a save.
Unsaved == store.dirty \/ store = EmptyStore

=============================================================================
