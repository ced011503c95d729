----------------------------- MODULE MCSettings -----------------------------
(* Small instances of Settings for TLC: two keys, both of them required by the workflow. *)
EXTENDS Settings, TLC

CONSTANTS r1, r2, cli, l1, a, b, v1, silence, steps

\* Two defaults of two values, one of them given by the environment; an update sets one, or both.
BothLow == [f \in Fields |-> 1]
StepsGiven == silence :> Absent @@ steps :> 2
OneOrBoth == {silence :> 2 @@ steps :> Absent, silence :> Absent @@ steps :> 2, BothLow}

Alike == Permutations({r1, r2}) \cup Permutations({a, b})
=============================================================================
