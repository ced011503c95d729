----------------------------- MODULE RunContract -----------------------------
(***************************************************************************)
(* What a run promises the readers of its request.json (the run list, the  *)
(* event stream, delete and clear-failed, statistics): the record appears  *)
(* as "running", its videos only move forward, its status is settled once, *)
(* by a verdict the recorded videos support, and nothing but a deletion     *)
(* changes it afterwards.  app/core/supervisor.py and app/core/records.py   *)
(* are the writers; Supervisor.tla shows that they keep the promise.        *)
(***************************************************************************)
EXTENDS Naturals

CONSTANTS Run,          \* every run the chassis is asked to start
          VideoCount,   \* video_count of a request
          AtomicRun     \* the runs of atomic workflows

VARIABLES reqStatus,    \* "none", a directory without a record, a status, or "deleted"
          videos        \* the videos list of each request.json

contractVars == <<reqStatus, videos>>

Video == 1 .. VideoCount

Settled == {"complete", "failed", "stopped"}
VideoStatus == {"pending", "running"} \cup Settled
Terminal == {"complete", "failed", "partial", "stopped", "stopped-budget"}
ReqStatus == {"none", "allocated", "running", "deleted"} \cup Terminal

\* A video is recorded as started, as ended, or as never to be started.
Forward(old, new) == \/ new = old
                     \/ old = "pending" /\ new \in {"running", "failed", "stopped"}
                     \/ old = "running" /\ new \in Settled

AllAre(vs, status) == \A v \in Video : vs[v] = status
Drained(vs) == \A v \in Video : vs[v] \in Settled

\* The verdicts the recorded videos support.  A run whose prepare() failed, or ran
\* out of budget, settles before any of its videos was started.
Verdict(r, vs) ==
  LET pooled == IF AllAre(vs, "complete") THEN "complete"
                ELSE IF r \in AtomicRun \/ AllAre(vs, "failed") THEN "failed"
                ELSE "partial"
  IN  (IF Drained(vs) THEN {pooled, "stopped", "stopped-budget"} ELSE {})
        \cup (IF AllAre(vs, "pending") THEN {"failed", "stopped-budget"} ELSE {})

ContractInit == /\ reqStatus = [r \in Run |-> "none"]
                /\ videos = [r \in Run |-> [v \in Video |-> "pending"]]

Allocate(r) == /\ reqStatus[r] = "none"
               /\ reqStatus' = [reqStatus EXCEPT ![r] = "allocated"]
               /\ UNCHANGED videos

Open(r) == /\ reqStatus[r] = "allocated"
           /\ reqStatus' = [reqStatus EXCEPT ![r] = "running"]
           /\ UNCHANGED videos

Advance(r) == /\ reqStatus[r] = "running"
              /\ \E vs \in [Video -> VideoStatus] :
                   /\ \A v \in Video : Forward(videos[r][v], vs[v])
                   /\ videos' = [videos EXCEPT ![r] = vs]
              /\ UNCHANGED reqStatus

Settle(r) == /\ reqStatus[r] = "running"
             /\ \E status \in Verdict(r, videos[r]) :
                  reqStatus' = [reqStatus EXCEPT ![r] = status]
             /\ UNCHANGED videos

Remove(r) == /\ reqStatus[r] \in Terminal
             /\ reqStatus' = [reqStatus EXCEPT ![r] = "deleted"]
             /\ UNCHANGED videos

ContractNext ==
  \E r \in Run : Allocate(r) \/ Open(r) \/ Advance(r) \/ Settle(r) \/ Remove(r)

ContractSpec == ContractInit /\ [][ContractNext]_contractVars
===============================================================================
