------------------------------ MODULE MCStepCache ------------------------------
(* Instances of StepCache for TLC. *)
EXTENDS StepCache, TLC

CONSTANTS a, b, v1, v2

\* Two results that share a file; the second has one of its own.
TwoValues == {v1, v2}
Files == v1 :> {a} @@ v2 :> {a, b}
===============================================================================
