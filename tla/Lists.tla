-------------------------------- MODULE Lists --------------------------------
(***************************************************************************)
(* What loops over a list that pick some of its elements have in common:   *)
(* the elements at the positions picked, in the order of the list.         *)
(***************************************************************************)
EXTENDS Naturals, FiniteSets

Picked(list, positions) ==
  LET Rank(i) == Cardinality({j \in positions : j <= i})
  IN [k \in 1 .. Cardinality(positions) |-> list[CHOOSE i \in positions : Rank(i) = k]]
=============================================================================
