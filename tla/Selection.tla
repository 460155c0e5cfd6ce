----------------------------- MODULE Selection -----------------------------
(***************************************************************************)
(* The elements of a sequence at some of its places, in order: what        *)
(* Vec::retain and an Iterator::filter leave.  SelectSeq says the same by  *)
(* a test on the elements; it takes that test as an operator and is        *)
(* defined by recursion, so nothing can be proved about it.                *)
(***************************************************************************)
EXTENDS Integers, FiniteSets

\* How many of the places I are no later than i.
Rank(I, i) == Cardinality({j \in I : j <= i})

\* The place that is the n-th of I.
Place(I, n) == CHOOSE i \in I : Rank(I, i) = n

At(s, I) == [n \in 1 .. Cardinality(I) |-> s[Place(I, n)]]

=============================================================================
