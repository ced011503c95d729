------------------------------ MODULE MCScheduler ------------------------------
(* Instances of Scheduler for TLC. *)
EXTENDS Scheduler, TLC

CONSTANTS w1, w2

\* Days of four minutes; the windows of the two times of day overlap.
Early(w) == [workflow |-> w, at |-> 1, days |-> {0, 1}]
Late(w) == [workflow |-> w, at |-> 2, days |-> {0}]

OneWorkflow == {Early(w1), Late(w1)}
TwoWorkflows == {Early(w1), Early(w2)}
OneSaved == <<[id |-> 1, set |-> Early(w1)]>>
===============================================================================
