----------------------------- MODULE MCSessions -----------------------------
(***************************************************************************)
(* Transactions on a small instance.                                       *)
(***************************************************************************)
EXTENDS Sessions, TLC

ClientSymmetry == Permutations(Clients)

=============================================================================
