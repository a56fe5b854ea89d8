------------------------------- MODULE Ascending -------------------------------
(***************************************************************************)
(* The order in which code goes through a set of numbers that it has       *)
(* sorted, or that comes to it sorted.                                     *)
(***************************************************************************)
EXTENDS Naturals, FiniteSets

Smaller(set, e) == {x \in set : x < e}

\* The elements of a finite set of numbers, the smallest first.
InOrder(set) ==
  [k \in 1 .. Cardinality(set) |-> CHOOSE e \in set : Cardinality(Smaller(set, e)) = k - 1]
=============================================================================
