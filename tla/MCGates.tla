-------------------------------- MODULE MCGates --------------------------------
(* Instances of Gates for TLC. *)
EXTENDS Gates, TLC

\* A family with the default limit, and one that is allowed a longer silence.
TwoFamilies == {"write", "render"}
TwoLimits == "write" :> 1 @@ "render" :> 2
===============================================================================
