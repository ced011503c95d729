------------------------------- MODULE MCLibrary -------------------------------
(* Instances of Library for TLC. *)
EXTENDS Library, TLC

\* An overlay starts from every real library of two assets, and is given fewer calls.
JobsOf == [r \in Roles |-> IF r = "overlay" THEN 2 ELSE 3]

\* Of the real library: what was annotated, and what was superseded.
AnnotatedOrSuperseded ==
  {[status |-> "active", caveats |-> TRUE], [status |-> "superseded", caveats |-> FALSE]}

\* No definition tells writers, contents or names apart.
Alike == Permutations(Writer) \cup Permutations(Id) \cup Permutations(Name)
===============================================================================
