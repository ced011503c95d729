----------------------------- MODULE MCSupervisor -----------------------------
(* Instances of Supervisor for TLC. *)
EXTENDS Supervisor, TLC

CONSTANTS w1, w2, l1, l2, i1, i2, s1, s2

\* One workflow, whose launches draw from two run ids.
OneWorkflow == [l \in Launch |-> w1]
OnePool == w1 :> RunId

LaunchSymmetry == Permutations(Launch) \cup Permutations(RunId)
===============================================================================
