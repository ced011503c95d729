---------------------------- MODULE MCRateLimiter ----------------------------
(* Small instances of RateLimiter for TLC: the threads of ctx.map in one child. *)
EXTENDS RateLimiter, TLC

CONSTANTS t1, t2, t3, child1

OneChild == [t \in Threads |-> child1]

\* One thread asks an agent, one makes an image, and the third a video.
Mixed == t1 :> {"agent"} @@ t2 :> {"openai"} @@ t3 :> {"bfl"}
=============================================================================
