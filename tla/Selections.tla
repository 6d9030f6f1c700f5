----------------------------- MODULE Selections -----------------------------
(***************************************************************************)
(* What is left of an array, or of a Map in insertion order, when elements *)
(* are deleted from it: the elements at the other positions, in order.     *)
(* SelectSeq is defined by recursion on an operator, which the provers     *)
(* cannot unfold; this is the same sequence, with the position of its j-th *)
(* element said outright.                                                  *)
(***************************************************************************)
EXTENDS Integers, Sequences, FiniteSets

\* How many of the positions J come up to i
Rank(J, i) == Cardinality({k \in J : k <= i})

Filtered(s, J) == [j \in 1 .. Cardinality(J) |-> s[CHOOSE i \in J : Rank(J, i) = j]]
=============================================================================
