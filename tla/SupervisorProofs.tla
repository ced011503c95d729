--------------------------- MODULE SupervisorProofs ---------------------------
(* Theorems about Supervisor, for every value of its constants. *)
EXTENDS Supervisor, TLAPS

USE SupervisorAssumption

(***************************************************************************)
(* Type correctness.                                                        *)
(***************************************************************************)
LEMMA InitType == Init => TypeOK
  BY DEF Init, TypeOK, Key, Video, Prep, RunPC, Holding, Ended, WorkerPC, ReqStatus,
         VideoStatus, Settled, Running, Exited

LEMMA KeyFacts == Prep \in Key /\ Video \subseteq Key /\ \A k \in Key : k # Prep => k \in Video
  BY DEF Key, Video, Prep

LEMMA RunStepType ==
  ASSUME TypeOK, NEW l \in Launch, RunStep(l)
  PROVE  TypeOK'
<1> USE DEF TypeOK, stateVars, recordVars, workerVars, stopVars, RunPC, Holding, Ended
<1>1. CASE Admit(l) BY <1>1 DEF Admit
<1>2. CASE EnvRefused(l) BY <1>2 DEF EnvRefused
<1>3. CASE AllocateRun(l) BY <1>3 DEF AllocateRun, FreeIds, ReqStatus, wf
<1>4. CASE NameActive(l) BY <1>4 DEF NameActive
<1>5. CASE RegisterRun(l) BY <1>5 DEF RegisterRun
<1>6. CASE CreateRequest(l) BY <1>6 DEF CreateRequest, ReqStatus
<1>7. CASE PreflightRefused(l) BY <1>7 DEF PreflightRefused
<1>8. CASE PreflightPassed(l)
  <2>1. CASE IsPrep(l)
    <3>1. /\ pc' = [pc EXCEPT ![l] = "prepare"]
          /\ wpc' = [wpc EXCEPT ![l] = [wpc[l] EXCEPT ![Prep] = "spawn"]]
      BY <1>8, <2>1 DEF PreflightPassed
    <3>2. wpc' \in [Launch -> [Key -> WorkerPC]]
      BY <3>1, KeyFacts DEF WorkerPC
    <3>3. QED
      BY <1>8, <3>1, <3>2 DEF PreflightPassed
  <2>2. CASE ~IsPrep(l)
    BY <1>8, <2>2 DEF PreflightPassed
  <2>3. QED
    BY <2>1, <2>2
<1>9. CASE PrepareFailed(l) BY <1>9 DEF PrepareFailed, Stopped
<1>10. CASE AfterPrepare(l) BY <1>10 DEF AfterPrepare, Stopped
<1>11. CASE MarkPendingStopped(l) BY <1>11 DEF MarkPendingStopped, VideoStatus, Settled
<1>12. CASE FinishAs(l) BY <1>12 DEF FinishAs, ReqStatus, Terminal
<1>13. CASE FinishPool(l) BY <1>13 DEF FinishPool, AggregateStatus, ReqStatus, Terminal
<1>14. CASE Cleanup(l) BY <1>14 DEF Cleanup
<1>15. QED
  BY <1>1, <1>2, <1>3, <1>4, <1>5, <1>6, <1>7, <1>8, <1>9, <1>10, <1>11, <1>12, <1>13, <1>14
  DEF RunStep

LEMMA DriverType ==
  ASSUME TypeOK, NEW l \in Launch, NEW k \in Key, DriverStep(l, k) \/ ChildExit(l, k)
  PROVE  TypeOK'
<1> USE DEF TypeOK, runVars, stateVars, recordVars, workerVars, stopVars
<1>1. CASE StartRunner(l, k) BY <1>1 DEF StartRunner, WorkerPC, Running
<1>2. CASE RegisterProc(l, k) BY <1>2 DEF RegisterProc, WorkerPC, Stopped
<1>3. CASE ApplyPending(l, k) BY <1>3 DEF ApplyPending, WorkerPC, Hit, Running, Exited
<1>4. CASE ChildExit(l, k) BY <1>4 DEF ChildExit
<1>5. QED
  BY <1>1, <1>2, <1>3, <1>4 DEF DriverStep

LEMMA VideoType ==
  ASSUME TypeOK, NEW l \in Launch, NEW v \in Video, VideoStep(l, v) \/ RaiseInVideo(l, v)
  PROVE  TypeOK'
<1>k. v \in Key
  BY KeyFacts
<1> USE <1>k DEF TypeOK, runVars, stateVars, recordVars, workerVars, stopVars
<1>1. CASE StartVideo(l, v)
  <2>1. /\ videos' \in [Launch -> [Video -> VideoStatus]]
        /\ wpc' \in [Launch -> [Key -> WorkerPC]]
    <3>1. \/ /\ videos' = [videos EXCEPT ![l][v] = "stopped"]
             /\ wpc' = [wpc EXCEPT ![l][v] = "done"]
          \/ /\ wpc' = [wpc EXCEPT ![l][v] = "running"]
             /\ videos' = videos
      BY <1>1 DEF StartVideo
    <3>2. CASE videos' = [videos EXCEPT ![l][v] = "stopped"]
                 /\ wpc' = [wpc EXCEPT ![l][v] = "done"]
      BY <3>2 DEF WorkerPC, VideoStatus, Settled
    <3>3. CASE wpc' = [wpc EXCEPT ![l][v] = "running"] /\ videos' = videos
      BY <3>3 DEF WorkerPC
    <3>4. QED
      BY <3>1, <3>2, <3>3
  <2>2. QED
    BY <1>1, <2>1 DEF StartVideo
<1>2. CASE SetRunning(l, v) BY <1>2 DEF SetRunning, WorkerPC, VideoStatus
<1>3. CASE NoteRunning(l, v) BY <1>3 DEF NoteRunning, WorkerPC, VideoStatus
<1>4. CASE Reap(l, v) BY <1>4 DEF Reap, WorkerPC
<1>5. CASE Decide(l, v) BY <1>5 DEF Decide, WorkerPC, Settled, Stopped
<1>6. CASE RecordVideo(l, v) BY <1>6 DEF RecordVideo, WorkerPC, VideoStatus
<1>7. CASE SetVideo(l, v) BY <1>7 DEF SetVideo, WorkerPC, VideoStatus
<1>8. CASE RaiseInVideo(l, v) BY <1>8 DEF RaiseInVideo, WorkerPC, Settled
<1>9. QED
  BY <1>1, <1>2, <1>3, <1>4, <1>5, <1>6, <1>7, <1>8 DEF VideoStep

LEMMA StopType ==
  ASSUME TypeOK, NEW s \in Stopper, StopLookup(s) \/ StopStep(s)
  PROVE  TypeOK'
<1> USE DEF TypeOK, runVars, stateVars, recordVars, workerVars, stopVars
<1>1. CASE StopLookup(s) BY <1>1 DEF StopLookup
<1>2. CASE RequestStop(s) BY <1>2 DEF RequestStop
<1>3. CASE ApplyStop(s) BY <1>3 DEF ApplyStop, Hit, Running, Exited
<1>4. CASE StopAccepted(s) BY <1>4 DEF StopAccepted
<1>5. QED
  BY <1>1, <1>2, <1>3, <1>4 DEF StopStep

LEMMA NextType == TypeOK /\ [Next]_vars => TypeOK'
<1> SUFFICES ASSUME TypeOK, [Next]_vars PROVE TypeOK'
  OBVIOUS
<1> USE DEF TypeOK, runVars, stateVars, recordVars, workerVars, stopVars, RunPC, Holding, Ended
<1>1. ASSUME NEW l \in Launch, ReapPrepare(l) PROVE TypeOK'
  BY <1>1, KeyFacts DEF ReapPrepare, WorkerPC
<1>2. ASSUME NEW l \in Launch, RaiseInPrepare(l) PROVE TypeOK'
  BY <1>2, KeyFacts DEF RaiseInPrepare, WorkerPC
<1>3. ASSUME NEW l \in Launch, DeleteRun(l) PROVE TypeOK'
  BY <1>3 DEF DeleteRun, ReqStatus
<1>4. CASE Crash
  BY <1>4 DEF Crash
<1>5. CASE UNCHANGED vars
  BY <1>5 DEF vars
<1>6. ASSUME NEW l \in Launch, NEW k \in Key, DriverStep(l, k) \/ ChildExit(l, k)
      PROVE  TypeOK'
  BY <1>6, DriverType
<1>7. ASSUME NEW l \in Launch, NEW v \in Video, VideoStep(l, v) \/ RaiseInVideo(l, v)
      PROVE  TypeOK'
  BY <1>7, VideoType
<1>8. ASSUME NEW l \in Launch, RunStep(l) PROVE TypeOK'
  BY <1>8, RunStepType
<1>9. ASSUME NEW s \in Stopper, StopLookup(s) \/ StopStep(s) PROVE TypeOK'
  BY <1>9, StopType
<1> HIDE DEF TypeOK, runVars, stateVars, recordVars, workerVars, stopVars, RunPC, Holding, Ended
<1>10. QED
  BY <1>1, <1>2, <1>3, <1>4, <1>5, <1>6, <1>7, <1>8, <1>9 DEF Next, Quiescent

\* Every reachable state is typed: the records hold only the statuses the code declares,
\* and a stop past its lookup has a run to act on.
THEOREM TypeCorrect == Spec => []TypeOK
  BY InitType, NextType, PTL DEF Spec
(***************************************************************************)
(* The slot of a workflow is held exactly while one run is past admission. *)
(***************************************************************************)

\* What every step leaves alone that neither claims, names nor releases a slot.
SlotFrame ==
  /\ active' = active /\ rid' = rid
  /\ \A m \in Launch : /\ pc'[m] \in Holding <=> pc[m] \in Holding
                       /\ pc'[m] = "claimed" <=> pc[m] = "claimed"
                       /\ pc'[m] \in {"new", "env", "busy"} => pc[m] \in {"new", "env", "busy"}

LEMMA FrameKeepsSlot == TypeOK /\ SlotInv /\ SlotFrame => SlotInv'
  BY DEF SlotInv, SlotIsExclusive, SlotFrame, wf, TypeOK

LEMMA RunStepFrame ==
  ASSUME TypeOK, NEW l \in Launch,
         \/ RegisterRun(l) \/ CreateRequest(l) \/ PreflightRefused(l) \/ PreflightPassed(l)
         \/ PrepareFailed(l) \/ AfterPrepare(l) \/ MarkPendingStopped(l) \/ FinishAs(l)
         \/ FinishPool(l) \/ ReapPrepare(l) \/ RaiseInPrepare(l) \/ DeleteRun(l)
  PROVE  SlotFrame
<1> USE DEF TypeOK, SlotFrame, Holding
<1>1. CASE RegisterRun(l) BY <1>1 DEF RegisterRun
<1>2. CASE CreateRequest(l) BY <1>2 DEF CreateRequest
<1>3. CASE PreflightRefused(l) BY <1>3 DEF PreflightRefused
<1>4. CASE PreflightPassed(l) BY <1>4 DEF PreflightPassed
<1>5. CASE PrepareFailed(l) BY <1>5 DEF PrepareFailed
<1>6. CASE AfterPrepare(l) BY <1>6 DEF AfterPrepare
<1>7. CASE MarkPendingStopped(l) BY <1>7 DEF MarkPendingStopped
<1>8. CASE FinishAs(l) BY <1>8 DEF FinishAs
<1>9. CASE FinishPool(l) BY <1>9 DEF FinishPool
<1>10. CASE ReapPrepare(l) BY <1>10 DEF ReapPrepare, Driving, Prep
<1>11. CASE RaiseInPrepare(l) BY <1>11 DEF RaiseInPrepare, Driving, Prep
<1>12. CASE DeleteRun(l) BY <1>12 DEF DeleteRun, runVars
<1>13. QED
  BY <1>1, <1>2, <1>3, <1>4, <1>5, <1>6, <1>7, <1>8, <1>9, <1>10, <1>11, <1>12

\* The drivers, the children and the stop calls do not move a run thread.
LEMMA OtherStepFrame ==
  ASSUME \/ \E l \in Launch : \/ \E k \in Key : DriverStep(l, k) \/ ChildExit(l, k)
                            \/ \E v \in Video : VideoStep(l, v) \/ RaiseInVideo(l, v)
         \/ \E s \in Stopper : StopLookup(s) \/ StopStep(s)
         \/ UNCHANGED vars
  PROVE  SlotFrame
  BY DEF SlotFrame, vars, runVars, DriverStep, StartRunner, RegisterProc, ApplyPending,
         ChildExit, VideoStep, StartVideo, SetRunning, NoteRunning, Reap, Decide, RecordVideo,
         SetVideo, RaiseInVideo, StopLookup, StopStep, RequestStop, ApplyStop, StopAccepted

LEMMA InitSlot == Init => SlotInv
  BY DEF Init, SlotInv, SlotIsExclusive, Holding, wf

LEMMA NextSlot == TypeOK /\ SlotInv /\ [Next]_vars => SlotInv'
<1> SUFFICES ASSUME TypeOK, SlotInv, [Next]_vars PROVE SlotInv'
  OBVIOUS
<1>1. ASSUME NEW l \in Launch, Admit(l) PROVE SlotInv'
  <2>1. CASE active[wf(l)] = Free
    <3>1. /\ active' = [active EXCEPT ![wf(l)] = NoId]
          /\ pc' = [pc EXCEPT ![l] = "env"]
          /\ pc[l] = "new" /\ rid' = rid
      BY <1>1, <2>1 DEF Admit
    <3>2. NoId # Free /\ wf(l) \in Workflow
      BY DEF wf
    <3>3. \A m \in Launch : wf(m) = wf(l) => pc[m] \notin Holding
      BY <2>1, <3>2 DEF SlotInv, SlotIsExclusive
    <3>4. \A m \in Launch : pc'[m] \in Holding <=> m = l \/ pc[m] \in Holding
      BY <3>1 DEF TypeOK, Holding
    <3>5. SlotIsExclusive'
      <4>1. \A w \in Workflow : active'[w] = IF w = wf(l) THEN NoId ELSE active[w]
        BY <3>1 DEF TypeOK
      <4>2. QED
        BY <3>2, <3>3, <3>4, <4>1 DEF SlotInv, SlotIsExclusive, wf
    <3>6. QED
      BY <3>1, <3>2, <3>3, <3>4, <3>5 DEF SlotInv, TypeOK, Holding, wf
  <2>2. CASE active[wf(l)] # Free
    <3>1. SlotFrame
      BY <1>1, <2>2 DEF Admit, SlotFrame, TypeOK, Holding
    <3>2. QED
      BY <3>1, FrameKeepsSlot
  <2>3. QED
    BY <2>1, <2>2
<1>2. ASSUME NEW l \in Launch, EnvRefused(l) PROVE SlotInv'
  BY <1>2 DEF EnvRefused, SlotInv, SlotIsExclusive, TypeOK, Holding, wf
<1>3. ASSUME NEW l \in Launch, AllocateRun(l) PROVE SlotInv'
  BY <1>3 DEF AllocateRun, SlotInv, SlotIsExclusive, TypeOK, Holding, wf
<1>4. ASSUME NEW l \in Launch, NameActive(l) PROVE SlotInv'
  BY <1>4 DEF NameActive, SlotInv, SlotIsExclusive, TypeOK, Holding, wf
<1>5. ASSUME NEW l \in Launch, Cleanup(l) PROVE SlotInv'
  BY <1>5 DEF Cleanup, SlotInv, SlotIsExclusive, TypeOK, Holding, wf
<1>6. CASE Crash
  BY <1>6 DEF Crash, SlotInv, SlotIsExclusive, TypeOK, Holding, wf
<1>7. CASE SlotFrame
  BY <1>7, FrameKeepsSlot
<1>8. QED
  BY <1>1, <1>2, <1>3, <1>4, <1>5, <1>6, <1>7, RunStepFrame, OtherStepFrame
  DEF Next, RunStep, Quiescent

\* Never two runs of a workflow at a time, never a workflow held that nobody will release:
\* for any number of launches, workflows and stops, under every fault.
THEOREM SlotsAreExclusive == Spec => []SlotIsExclusive
<1>1. SlotInv => SlotIsExclusive
  BY DEF SlotInv
<1>2. QED
  BY <1>1, InitType, NextType, InitSlot, NextSlot, PTL DEF Spec

(***************************************************************************)
(* A stop reaches every child.                                              *)
(***************************************************************************)
Aware == {"enroll", "graceful", "hard", "drain"}

\* What every step leaves alone that neither starts, registers, hits nor reaps a live
\* child, and is not a step of a stop call.
StopFrame ==
  /\ mode' = mode /\ child' = child /\ scall' = scall /\ srun' = srun
  /\ smode' = smode /\ stodo' = stodo
  /\ \A m \in Launch : /\ pc'[m] = "new" => pc[m] = "new"
                       /\ pc'[m] \in Holding => pc[m] \in Holding \cup {"new"}
  /\ \A m \in Launch, j \in Key :
       /\ wpc'[m][j] # wpc[m][j] => pc[m] # "new" /\ wpc'[m][j] \notin Aware
       /\ wpc'[m][j] \in Aware => (j \in procs'[m] <=> j \in procs[m])

LEMMA FrameKeepsStop == TypeOK /\ StopInv /\ StopFrame => StopInv'
<1> SUFFICES ASSUME TypeOK, StopInv, StopFrame PROVE StopInv'
  OBVIOUS
<1> USE DEF StopFrame, StopInv, Aware
<1>1. \A m \in Launch, j \in Key : wpc'[m][j] \in Aware => wpc[m][j] = wpc'[m][j]
  OBVIOUS
<1>2. \A m \in Launch : pc'[m] = "new" => \A j \in Key : wpc'[m][j] = "queued"
  OBVIOUS
<1>3. ASSUME NEW m \in Launch, NEW j \in Key
      PROVE /\ (Coming(m, j))' <=> Coming(m, j)
            /\ (ComingHard(m, j))' <=> ComingHard(m, j)
            /\ (Stopped(m))' <=> Stopped(m)
  BY DEF Coming, ComingHard, Stopped
<1>4. ASSUME NEW m \in Launch, NEW j \in Key
      PROVE  /\ wpc'[m][j] \in {"graceful", "hard", "drain"} => j \in procs'[m]
             /\ wpc'[m][j] \in Aware => child'[m][j] # "none"
  BY <1>1
<1>5. ASSUME NEW m \in Launch, NEW j \in Key, pc'[m] \in Holding
      PROVE  /\ wpc'[m][j] \in {"graceful", "drain"} /\ mode'[m] = "hard" =>
                  (ComingHard(m, j))' \/ child'[m][j] \in Exited
             /\ wpc'[m][j] = "drain" /\ (Stopped(m))' =>
                  (Coming(m, j))' \/ child'[m][j] \in Exited \cup {"soft"}
  <2>1. CASE pc[m] = "new"
    BY <2>1, <1>1
  <2>2. CASE pc[m] \in Holding
    BY <2>2, <1>1, <1>3
  <2>3. QED
    BY <1>5, <2>1, <2>2
<1>6. QED
  BY <1>2, <1>4, <1>5

LEMMA RunStepStopFrame ==
  ASSUME TypeOK, NEW l \in Launch, RunStep(l) \/ DeleteRun(l)
  PROVE  StopFrame
<1> USE DEF TypeOK, StopFrame, Holding, Aware, stateVars, workerVars, stopVars
<1>1. CASE Admit(l) BY <1>1 DEF Admit
<1>2. CASE EnvRefused(l) BY <1>2 DEF EnvRefused
<1>3. CASE AllocateRun(l) BY <1>3 DEF AllocateRun
<1>4. CASE NameActive(l) BY <1>4 DEF NameActive
<1>5. CASE RegisterRun(l) BY <1>5 DEF RegisterRun
<1>6. CASE CreateRequest(l) BY <1>6 DEF CreateRequest
<1>7. CASE PreflightRefused(l) BY <1>7 DEF PreflightRefused
<1>8. CASE PreflightPassed(l)
  <2>1. CASE IsPrep(l)
    <3>1. wpc' = [wpc EXCEPT ![l] = [wpc[l] EXCEPT ![Prep] = "spawn"]]
      BY <1>8, <2>1 DEF PreflightPassed
    <3>2. \A m \in Launch, j \in Key :
            wpc'[m][j] # wpc[m][j] => m = l /\ wpc'[m][j] = "spawn"
      BY <3>1, KeyFacts
    <3>3. QED
      BY <1>8, <2>1, <3>2 DEF PreflightPassed
  <2>2. CASE ~IsPrep(l)
    BY <1>8, <2>2 DEF PreflightPassed
  <2>3. QED
    BY <2>1, <2>2
<1>9. CASE PrepareFailed(l) BY <1>9 DEF PrepareFailed
<1>10. CASE AfterPrepare(l) BY <1>10 DEF AfterPrepare
<1>11. CASE MarkPendingStopped(l) BY <1>11 DEF MarkPendingStopped
<1>12. CASE FinishAs(l) BY <1>12 DEF FinishAs
<1>13. CASE FinishPool(l) BY <1>13 DEF FinishPool
<1>14. CASE Cleanup(l) BY <1>14 DEF Cleanup
<1>15. CASE DeleteRun(l) BY <1>15 DEF DeleteRun, runVars
<1>16. QED
  BY <1>1, <1>2, <1>3, <1>4, <1>5, <1>6, <1>7, <1>8, <1>9, <1>10, <1>11, <1>12, <1>13, <1>14,
     <1>15 DEF RunStep

LEMMA WorkerStopFrame ==
  ASSUME TypeOK, NEW l \in Launch,
         \/ ReapPrepare(l) \/ RaiseInPrepare(l)
         \/ \E v \in Video : VideoStep(l, v) \/ RaiseInVideo(l, v)
  PROVE  StopFrame
<1> USE DEF TypeOK, StopFrame, Holding, Aware, runVars, stateVars, stopVars, Driving
<1>1. CASE ReapPrepare(l) BY <1>1, KeyFacts DEF ReapPrepare
<1>2. CASE RaiseInPrepare(l) BY <1>2, KeyFacts DEF RaiseInPrepare
<1>3. ASSUME NEW v \in Video, VideoStep(l, v) \/ RaiseInVideo(l, v)
      PROVE  StopFrame
  <2>k. v \in Key /\ v # Prep
    BY DEF Key, Video, Prep
  <2> USE <2>k
  <2>1. CASE StartVideo(l, v)
    <3>1. PICK next \in {"done", "running"} : wpc' = [wpc EXCEPT ![l][v] = next]
      BY <2>1 DEF StartVideo
    <3>2. QED
      BY <2>1, <3>1 DEF StartVideo
  <2>2. CASE SetRunning(l, v) BY <2>2 DEF SetRunning
  <2>3. CASE NoteRunning(l, v) BY <2>3 DEF NoteRunning
  <2>4. CASE Reap(l, v) BY <2>4 DEF Reap
  <2>5. CASE Decide(l, v) BY <2>5 DEF Decide
  <2>6. CASE RecordVideo(l, v) BY <2>6 DEF RecordVideo
  <2>7. CASE SetVideo(l, v) BY <2>7 DEF SetVideo
  <2>8. CASE RaiseInVideo(l, v) BY <2>8 DEF RaiseInVideo
  <2>9. QED
    BY <1>3, <2>1, <2>2, <2>3, <2>4, <2>5, <2>6, <2>7, <2>8 DEF VideoStep
<1>4. QED
  BY <1>1, <1>2, <1>3

\* StopInv, one run and key at a time.
StopAt(m, j) ==
  /\ pc[m] = "new" => wpc[m][j] = "queued"
  /\ wpc[m][j] \in {"graceful", "hard", "drain"} => j \in procs[m]
  /\ wpc[m][j] \in Aware => child[m][j] # "none"
  /\ pc[m] \in Holding =>
       /\ wpc[m][j] \in {"graceful", "drain"} /\ mode[m] = "hard" =>
            ComingHard(m, j) \/ child[m][j] \in Exited
       /\ wpc[m][j] = "drain" /\ Stopped(m) =>
            Coming(m, j) \/ child[m][j] \in Exited \cup {"soft"}

LEMMA StopPointwise ==
  /\ StopInv <=> \A m \in Launch, j \in Key : StopAt(m, j)
  /\ StopInv' <=> \A m \in Launch, j \in Key : StopAt(m, j)'
<1>1. StopInv <=> \A m \in Launch, j \in Key : StopAt(m, j)
  BY DEF StopInv, StopAt, Aware
<1>2. StopInv' <=> \A m \in Launch, j \in Key : StopAt(m, j)'
  BY DEF StopInv, StopAt, Aware
<1>3. QED
  BY <1>1, <1>2

\* What a step of key k of run l leaves alone: the others, and the stop calls.
LEMMA OtherKeys ==
  ASSUME TypeOK, NEW l \in Launch, NEW k \in Key, NEW m \in Launch, NEW j \in Key,
         ~(m = l /\ j = k), StopAt(m, j), pc' = pc, mode' = mode, stopVars' = stopVars,
         procs' = [procs EXCEPT ![l] = procs[l] \cup {k}] \/ procs' = procs,
         wpc'[m][j] = wpc[m][j], child'[m][j] = child[m][j]
  PROVE  StopAt(m, j)'
  BY DEF TypeOK, StopAt, Coming, ComingHard, Stopped, stopVars

LEMMA DriverKeepsStop ==
  ASSUME TypeOK, StopInv, NEW l \in Launch, NEW k \in Key, DriverStep(l, k) \/ ChildExit(l, k)
  PROVE  StopInv'
<1> SUFFICES ASSUME NEW m \in Launch, NEW j \in Key PROVE StopAt(m, j)'
  BY StopPointwise
<1>a. StopAt(m, j) /\ StopAt(l, k)
  BY StopPointwise
<1> USE DEF TypeOK, runVars, stateVars, stopVars, Driving
<1>1. CASE StartRunner(l, k)
  <2>1. /\ child' = [child EXCEPT ![l][k] = "live"]
        /\ wpc' = [wpc EXCEPT ![l][k] = "enroll"]
        /\ pc' = pc /\ mode' = mode /\ procs' = procs /\ stopVars' = stopVars /\ pc[l] # "new"
    BY <1>1 DEF StartRunner
  <2>2. CASE m = l /\ j = k
    BY <1>a, <2>1, <2>2 DEF StopAt, Aware
  <2>3. CASE ~(m = l /\ j = k)
    BY <1>a, <2>1, <2>3, OtherKeys
  <2>4. QED
    BY <2>2, <2>3
<1>2. CASE RegisterProc(l, k)
  <2>1. /\ wpc' = [wpc EXCEPT ![l][k] = IF Stopped(l) THEN mode[l] ELSE "drain"]
        /\ procs' = [procs EXCEPT ![l] = procs[l] \cup {k}]
        /\ pc' = pc /\ mode' = mode /\ child' = child /\ stopVars' = stopVars
        /\ pc[l] # "new" /\ wpc[l][k] = "enroll"
    BY <1>2 DEF RegisterProc
  <2>2. CASE m = l /\ j = k
    BY <1>a, <2>1, <2>2 DEF StopAt, Aware, Stopped
  <2>3. CASE ~(m = l /\ j = k)
    BY <1>a, <2>1, <2>3, OtherKeys
  <2>4. QED
    BY <2>2, <2>3
<1>3. CASE ApplyPending(l, k)
  <2>1. /\ child' = [child EXCEPT ![l][k] = Hit(child[l][k], wpc[l][k])]
        /\ wpc' = [wpc EXCEPT ![l][k] = "drain"]
        /\ pc' = pc /\ mode' = mode /\ procs' = procs /\ stopVars' = stopVars
        /\ pc[l] # "new" /\ wpc[l][k] \in {"graceful", "hard"}
    BY <1>3 DEF ApplyPending
  <2>2. CASE m = l /\ j = k
    <3>1. /\ child'[l][k] \in Exited \cup {"soft"}
          /\ wpc[l][k] = "hard" \/ child[l][k] \in Exited => child'[l][k] \in Exited
      BY <1>a, <2>1 DEF Hit, Running, Exited, StopAt, Aware
    <3>2. /\ (ComingHard(l, k))' <=> ComingHard(l, k)
          /\ wpc'[l][k] = "drain"
      BY <2>1 DEF ComingHard
    <3>3. QED
      BY <1>a, <2>1, <2>2, <3>1, <3>2 DEF StopAt, Aware, Exited
  <2>3. CASE ~(m = l /\ j = k)
    BY <1>a, <2>1, <2>3, OtherKeys
  <2>4. QED
    BY <2>2, <2>3
<1>4. CASE ChildExit(l, k)
  <2>1. PICK code \in Exited : child' = [child EXCEPT ![l][k] = code]
    BY <1>4 DEF ChildExit
  <2>2. pc' = pc /\ mode' = mode /\ procs' = procs /\ stopVars' = stopVars /\ wpc' = wpc
    BY <1>4 DEF ChildExit, workerVars
  <2>3. CASE m = l /\ j = k
    <3>1. child'[m][j] \in Exited /\ "none" \notin Exited
      BY <2>1, <2>3 DEF Exited
    <3>2. QED
      BY <1>a, <2>2, <2>3, <3>1 DEF StopAt
  <2>4. CASE ~(m = l /\ j = k)
    BY <1>a, <2>1, <2>2, <2>4, OtherKeys
  <2>5. QED
    BY <2>3, <2>4
<1>5. QED
  BY <1>1, <1>2, <1>3, <1>4 DEF DriverStep

LEMMA StopCallKeepsStop ==
  ASSUME TypeOK, StopInv, NEW s \in Stopper, StopLookup(s) \/ StopStep(s)
  PROVE  StopInv'
<1> SUFFICES ASSUME NEW m \in Launch, NEW j \in Key PROVE StopAt(m, j)'
  BY StopPointwise
<1>a. StopAt(m, j)
  BY StopPointwise
<1> USE DEF TypeOK, runVars, stateVars, workerVars, Stopped, Coming, ComingHard
<1>1. CASE StopLookup(s)
  <2>1. /\ (Coming(m, j))' <=> Coming(m, j)
        /\ (ComingHard(m, j))' <=> ComingHard(m, j)
    BY <1>1 DEF StopLookup
  <2>2. QED
    BY <1>1, <1>a, <2>1 DEF StopLookup, StopAt
<1>2. CASE RequestStop(s)
  <2>1. /\ mode' = [mode EXCEPT ![srun[s]] = smode[s]]
        /\ stodo' = [stodo EXCEPT ![s] = procs[srun[s]]]
        /\ scall' = [scall EXCEPT ![s] = "apply"]
        /\ scall[s] = "found" /\ srun[s] \in Launch
        /\ pc' = pc /\ wpc' = wpc /\ child' = child /\ procs' = procs
        /\ srun' = srun /\ smode' = smode
    BY <1>2 DEF RequestStop
  <2>2. Coming(m, j) => (Coming(m, j))'
    BY <2>1
  <2>3. ComingHard(m, j) => (ComingHard(m, j))'
    BY <2>1
  <2>4. CASE m = srun[s]
    <3>1. j \in procs[m] => (Coming(m, j))' /\ (smode[s] = "hard" => (ComingHard(m, j))')
      BY <2>1, <2>4
    <3>2. mode'[m] = smode[s]
      BY <2>1, <2>4
    <3>3. QED
      BY <1>a, <2>1, <3>1, <3>2 DEF StopAt
  <2>5. CASE m # srun[s]
    BY <1>a, <2>1, <2>2, <2>3, <2>5 DEF StopAt
  <2>6. QED
    BY <2>4, <2>5
<1>3. CASE ApplyStop(s)
  <2>1. PICK k \in stodo[s] : /\ child' = [child EXCEPT ![srun[s]][k] = Hit(@, smode[s])]
                             /\ stodo' = [stodo EXCEPT ![s] = @ \ {k}]
    BY <1>3 DEF ApplyStop
  <2>2. /\ pc' = pc /\ wpc' = wpc /\ mode' = mode /\ procs' = procs
        /\ scall' = scall /\ srun' = srun /\ smode' = smode
        /\ scall[s] = "apply" /\ srun[s] \in Launch /\ k \in Key
    BY <1>3 DEF ApplyStop
  <2>3. CASE m = srun[s] /\ j = k
    <3>1. child'[m][j] = Hit(child[m][j], smode[s])
      BY <2>1, <2>2, <2>3
    <3>2. child[m][j] # "none" =>
            /\ child'[m][j] \in Exited \cup {"soft"}
            /\ smode[s] = "hard" \/ child[m][j] \in Exited => child'[m][j] \in Exited
      BY <3>1 DEF Hit, Running, Exited
    <3>3. child'[m][j] = "none" => child[m][j] = "none"
      BY <3>1 DEF Hit, Running
    <3>4. ComingHard(m, j) => (ComingHard(m, j))' \/ smode[s] = "hard"
      BY <2>1, <2>2, <2>3
    <3>5. QED
      BY <1>a, <2>2, <3>2, <3>3, <3>4 DEF StopAt, Aware
  <2>4. CASE ~(m = srun[s] /\ j = k)
    <3>1. child'[m][j] = child[m][j]
      BY <2>1, <2>2, <2>4
    <3>2. Coming(m, j) => (Coming(m, j))'
      BY <2>1, <2>2, <2>4
    <3>3. ComingHard(m, j) => (ComingHard(m, j))'
      BY <2>1, <2>2, <2>4
    <3>4. QED
      BY <1>a, <2>2, <3>1, <3>2, <3>3 DEF StopAt
  <2>5. QED
    BY <2>3, <2>4
<1>4. CASE StopAccepted(s)
  <2>1. /\ Coming(m, j) => (Coming(m, j))'
        /\ ComingHard(m, j) => (ComingHard(m, j))'
    BY <1>4 DEF StopAccepted
  <2>2. QED
    BY <1>4, <1>a, <2>1 DEF StopAccepted, StopAt
<1>5. QED
  BY <1>1, <1>2, <1>3, <1>4 DEF StopStep

LEMMA CrashKeepsStop == TypeOK /\ StopInv /\ Crash => StopInv'
  BY DEF Crash, StopInv, TypeOK, Holding, stateVars, workerVars

LEMMA InitStop == Init => StopInv
  BY DEF Init, StopInv, Holding

LEMMA NextStop == TypeOK /\ StopInv /\ [Next]_vars => StopInv'
<1> SUFFICES ASSUME TypeOK, StopInv, [Next]_vars PROVE StopInv'
  OBVIOUS
<1>1. UNCHANGED vars => StopFrame
  BY DEF vars, runVars, stateVars, workerVars, stopVars, StopFrame
<1>2. CASE StopFrame
  BY <1>2, FrameKeepsStop
<1>3. QED
  BY <1>1, <1>2, RunStepStopFrame, WorkerStopFrame, DriverKeepsStop, StopCallKeepsStop,
     CrashKeepsStop DEF Next, Quiescent

\* Whatever the order of a stop's lookup, flag, pass over procs, a child's spawn and its
\* registration: for any number of videos, workers and stop calls, no child being drained
\* is left unaware of a stop, and none survives one that stays hard.
THEOREM StopsReachChildren == Spec => []StopReachesChildren
<1>1. TypeOK /\ StopInv => StopReachesChildren
  <2> SUFFICES ASSUME TypeOK, StopInv, NEW l \in Launch, NEW k \in Key,
                      Stopped(l), Driving(l, k), wpc[l][k] = "drain", ~Coming(l, k)
               PROVE child[l][k] \in IF mode[l] = "hard" THEN Exited ELSE Exited \cup {"soft"}
    BY DEF StopReachesChildren
  <2>1. pc[l] \in Holding
    BY DEF Driving, Holding
  <2>2. ~ComingHard(l, k)
    BY DEF Coming, ComingHard
  <2>3. QED
    BY <2>1, <2>2 DEF StopInv
<1>2. QED
  BY <1>1, InitType, NextType, InitStop, NextStop, PTL DEF Spec

(***************************************************************************)
(* The records keep their contract.                                         *)
(***************************************************************************)
\* RecordInv, one run at a time.
RecordAt(l) ==
  /\ pc[l] \in {"new", "env", "busy"} => reqStatus[l] = "none"
  /\ pc[l] \in {"claimed", "register", "create"} => reqStatus[l] = "allocated"
  /\ pc[l] \in Underway => reqStatus[l] = "running"
  /\ pc[l] \in Early \cup (Underway \ {"videos", "finish"}) =>
       \A v \in Video : wpc[l][v] = "queued" /\ videos[l][v] = "pending"
  /\ pc[l] = "mark" => verdict[l] \in {"stopped", "stopped-budget"}
  /\ pc[l] = "finish" =>
       \/ /\ verdict[l] \in {"stopped", "stopped-budget"}
          /\ \A v \in Video : videos[l][v] = "stopped"
       \/ /\ verdict[l] \in {"failed", "stopped-budget"}
          /\ \A v \in Video : videos[l][v] = "pending"
  /\ pc[l] = "videos" => \A v \in Video :
       /\ wpc[l][v] \in {"queued", "running"} => videos[l][v] = "pending"
       /\ wpc[l][v] \notin {"queued", "running", "done"} => videos[l][v] = "running"
       /\ wpc[l][v] = "done" => videos[l][v] \in Settled

LEMMA RecordPointwise ==
  /\ RecordInv <=> \A l \in Launch : RecordAt(l)
  /\ RecordInv' <=> \A l \in Launch : RecordAt(l)'
  BY DEF RecordInv, RecordAt

\* A step of run l leaves the records of the other runs alone.
LEMMA OtherRuns ==
  ASSUME NEW l \in Launch, NEW m \in Launch, RecordAt(m),
         pc'[m] = pc[m], verdict'[m] = verdict[m], reqStatus'[m] = reqStatus[m],
         videos'[m] = videos[m], wpc'[m] = wpc[m]
  PROVE  RecordAt(m)'
  BY DEF RecordAt

LEMMA RunStepRecord ==
  ASSUME TypeOK, NEW l \in Launch, RecordAt(l), RunStep(l) \/ DeleteRun(l)
  PROVE  RecordAt(l)'
<1> USE DEF TypeOK, RecordAt, Early, Underway, runVars, recordVars, workerVars
<1>1. CASE Admit(l) BY <1>1 DEF Admit
<1>2. CASE EnvRefused(l) BY <1>2 DEF EnvRefused
<1>3. CASE AllocateRun(l) BY <1>3 DEF AllocateRun
<1>4. CASE NameActive(l) BY <1>4 DEF NameActive
<1>5. CASE RegisterRun(l) BY <1>5 DEF RegisterRun
<1>6. CASE CreateRequest(l) BY <1>6 DEF CreateRequest
<1>7. CASE PreflightRefused(l) BY <1>7 DEF PreflightRefused
<1>8. CASE PreflightPassed(l)
  <2>k. \A v \in Video : v # 0
    BY DEF Video
  <2>1. \A v \in Video : wpc'[l][v] = wpc[l][v]
    <3>1. wpc' = [wpc EXCEPT ![l] = [wpc[l] EXCEPT ![0] = "spawn"]] \/ wpc' = wpc
      BY <1>8 DEF PreflightPassed, Prep
    <3>2. QED
      BY <2>k, <3>1, KeyFacts
  <2>2. QED
    BY <1>8, <2>1 DEF PreflightPassed
<1>9. CASE PrepareFailed(l) BY <1>9 DEF PrepareFailed
<1>10. CASE AfterPrepare(l) BY <1>10 DEF AfterPrepare
<1>11. CASE MarkPendingStopped(l) BY <1>11 DEF MarkPendingStopped
<1>12. CASE FinishAs(l) BY <1>12 DEF FinishAs
<1>13. CASE FinishPool(l) BY <1>13 DEF FinishPool
<1>14. CASE Cleanup(l) BY <1>14 DEF Cleanup
<1>15. CASE DeleteRun(l) BY <1>15 DEF DeleteRun, Terminal
<1>16. QED
  BY <1>1, <1>2, <1>3, <1>4, <1>5, <1>6, <1>7, <1>8, <1>9, <1>10, <1>11, <1>12, <1>13, <1>14,
     <1>15 DEF RunStep

LEMMA WorkerRecord ==
  ASSUME TypeOK, NEW l \in Launch, RecordAt(l),
         \/ ReapPrepare(l) \/ RaiseInPrepare(l)
         \/ \E k \in Key : DriverStep(l, k)
         \/ \E v \in Video : VideoStep(l, v) \/ RaiseInVideo(l, v)
  PROVE  RecordAt(l)'
<1> USE DEF TypeOK, RecordAt, Early, Underway, runVars, recordVars, Driving, Prep
<1>k. \A v \in Video : v \in Key /\ v # 0
  BY DEF Key, Video
<1>1. CASE ReapPrepare(l) BY <1>1, <1>k DEF ReapPrepare
<1>2. CASE RaiseInPrepare(l) BY <1>2, <1>k DEF RaiseInPrepare
<1>3. ASSUME NEW k \in Key, DriverStep(l, k) PROVE RecordAt(l)'
  <2>1. PICK old \in {"spawn", "enroll", "graceful", "hard"},
             next \in {"enroll", "graceful", "hard", "drain"} :
          wpc[l][k] = old /\ wpc' = [wpc EXCEPT ![l][k] = next]
    BY <1>3 DEF DriverStep, StartRunner, RegisterProc, ApplyPending, Stopped
  <2>2. pc' = pc /\ verdict' = verdict /\ reqStatus' = reqStatus /\ videos' = videos
    <3>1. CASE StartRunner(l, k) BY <3>1 DEF StartRunner
    <3>2. CASE RegisterProc(l, k) BY <3>2 DEF RegisterProc
    <3>3. CASE ApplyPending(l, k) BY <3>3 DEF ApplyPending
    <3>4. QED BY <1>3, <3>1, <3>2, <3>3 DEF DriverStep
  <2>3. (pc[l] = "prepare" /\ k = 0) \/ (pc[l] = "videos" /\ k # 0)
    <3>1. Driving(l, k)
      BY <1>3 DEF DriverStep, StartRunner, RegisterProc, ApplyPending
    <3>2. CASE k = 0
      BY <3>1, <3>2
    <3>3. CASE k # 0
      BY <3>1, <3>3
    <3>4. QED
      BY <3>2, <3>3
  <2>4. QED
    BY <1>k, <2>1, <2>2, <2>3
<1>4. ASSUME NEW v \in Video, VideoStep(l, v) \/ RaiseInVideo(l, v)
      PROVE  RecordAt(l)'
  <2>k. v \in Key /\ v # 0
    BY <1>k
  <2> USE <2>k DEF Settled
  <2>1. CASE StartVideo(l, v)
    <3>1. \/ /\ videos' = [videos EXCEPT ![l][v] = "stopped"]
             /\ wpc' = [wpc EXCEPT ![l][v] = "done"]
          \/ /\ wpc' = [wpc EXCEPT ![l][v] = "running"]
             /\ videos' = videos
      BY <2>1 DEF StartVideo
    <3>2. wpc[l][v] = "queued" /\ pc[l] = "videos" /\ pc' = pc /\ reqStatus' = reqStatus
      BY <2>1 DEF StartVideo
    <3>3. QED
      BY <3>1, <3>2, <1>k
  <2>2. CASE SetRunning(l, v) BY <2>2, <1>k DEF SetRunning
  <2>3. CASE NoteRunning(l, v) BY <2>3, <1>k DEF NoteRunning
  <2>4. CASE Reap(l, v) BY <2>4, <1>k DEF Reap
  <2>5. CASE Decide(l, v) BY <2>5, <1>k DEF Decide
  <2>6. CASE RecordVideo(l, v) BY <2>6, <1>k DEF RecordVideo
  <2>7. CASE SetVideo(l, v) BY <2>7, <1>k DEF SetVideo
  <2>8. CASE RaiseInVideo(l, v) BY <2>8, <1>k DEF RaiseInVideo, Raises
  <2>9. QED
    BY <1>4, <2>1, <2>2, <2>3, <2>4, <2>5, <2>6, <2>7, <2>8 DEF VideoStep
<1>5. QED
  BY <1>1, <1>2, <1>3, <1>4

LEMMA InitRecord == Init => RecordInv
  BY KeyFacts DEF Init, RecordInv, Early, Underway

\* What a step of one run, of its drivers or of its children does to the other runs.
RunOnly(l) == \A m \in Launch \ {l} :
  /\ pc'[m] = pc[m] /\ verdict'[m] = verdict[m] /\ reqStatus'[m] = reqStatus[m]
  /\ videos'[m] = videos[m] /\ wpc'[m] = wpc[m] /\ rid'[m] = rid[m]
  /\ videoFile'[m] = videoFile[m] /\ outcome'[m] = outcome[m] /\ child'[m] = child[m]

LEMMA StepsAreLocal ==
  ASSUME TypeOK, NEW l \in Launch,
         \/ RunStep(l) \/ ReapPrepare(l) \/ RaiseInPrepare(l) \/ DeleteRun(l)
         \/ \E k \in Key : DriverStep(l, k)
         \/ \E v \in Video : VideoStep(l, v) \/ RaiseInVideo(l, v)
  PROVE  RunOnly(l)
<1> USE DEF TypeOK, RunOnly, runVars, recordVars, workerVars
<1>1. CASE RunStep(l)
  <2>1. CASE Admit(l) BY <2>1 DEF Admit
  <2>2. CASE EnvRefused(l) BY <2>2 DEF EnvRefused
  <2>3. CASE AllocateRun(l) BY <2>3 DEF AllocateRun
  <2>4. CASE NameActive(l) BY <2>4 DEF NameActive
  <2>5. CASE RegisterRun(l) BY <2>5 DEF RegisterRun
  <2>6. CASE CreateRequest(l) BY <2>6 DEF CreateRequest
  <2>7. CASE PreflightRefused(l) BY <2>7 DEF PreflightRefused
  <2>8. CASE PreflightPassed(l) BY <2>8 DEF PreflightPassed
  <2>9. CASE PrepareFailed(l) BY <2>9 DEF PrepareFailed
  <2>10. CASE AfterPrepare(l) BY <2>10 DEF AfterPrepare
  <2>11. CASE MarkPendingStopped(l) BY <2>11 DEF MarkPendingStopped
  <2>12. CASE FinishAs(l) BY <2>12 DEF FinishAs
  <2>13. CASE FinishPool(l) BY <2>13 DEF FinishPool
  <2>14. CASE Cleanup(l) BY <2>14 DEF Cleanup
  <2>15. QED
    BY <1>1, <2>1, <2>2, <2>3, <2>4, <2>5, <2>6, <2>7, <2>8, <2>9, <2>10, <2>11, <2>12, <2>13,
       <2>14 DEF RunStep
<1>2. CASE ReapPrepare(l) BY <1>2 DEF ReapPrepare
<1>3. CASE RaiseInPrepare(l) BY <1>3 DEF RaiseInPrepare
<1>4. CASE DeleteRun(l) BY <1>4 DEF DeleteRun
<1>5. ASSUME NEW k \in Key, DriverStep(l, k) PROVE RunOnly(l)
  <2>1. CASE StartRunner(l, k) BY <2>1 DEF StartRunner
  <2>2. CASE RegisterProc(l, k) BY <2>2 DEF RegisterProc
  <2>3. CASE ApplyPending(l, k) BY <2>3 DEF ApplyPending
  <2>4. QED BY <1>5, <2>1, <2>2, <2>3 DEF DriverStep
<1>6. ASSUME NEW v \in Video, VideoStep(l, v) \/ RaiseInVideo(l, v)
      PROVE  RunOnly(l)
  <2>1. CASE StartVideo(l, v) BY <2>1 DEF StartVideo
  <2>2. CASE SetRunning(l, v) BY <2>2 DEF SetRunning
  <2>3. CASE NoteRunning(l, v) BY <2>3 DEF NoteRunning
  <2>4. CASE Reap(l, v) BY <2>4 DEF Reap
  <2>5. CASE Decide(l, v) BY <2>5 DEF Decide
  <2>6. CASE RecordVideo(l, v) BY <2>6 DEF RecordVideo
  <2>7. CASE SetVideo(l, v) BY <2>7 DEF SetVideo
  <2>8. CASE RaiseInVideo(l, v) BY <2>8 DEF RaiseInVideo
  <2>9. QED
    BY <1>6, <2>1, <2>2, <2>3, <2>4, <2>5, <2>6, <2>7, <2>8 DEF VideoStep
<1>7. QED
  BY <1>1, <1>2, <1>3, <1>4, <1>5, <1>6

\* The steps that touch neither a thread of the run nor a record.
NoRecord == /\ pc' = pc /\ verdict' = verdict /\ reqStatus' = reqStatus
            /\ videos' = videos /\ wpc' = wpc

LEMMA CallsWriteNoRecord ==
  ASSUME \/ \E l \in Launch, k \in Key : ChildExit(l, k)
         \/ \E s \in Stopper : StopLookup(s) \/ StopStep(s)
         \/ UNCHANGED vars
  PROVE  NoRecord
<1> USE DEF NoRecord, runVars, recordVars, workerVars
<1>1. CASE \E l \in Launch, k \in Key : ChildExit(l, k) BY <1>1 DEF ChildExit
<1>2. CASE \E s \in Stopper : StopLookup(s) BY <1>2 DEF StopLookup
<1>3. CASE \E s \in Stopper : RequestStop(s) BY <1>3 DEF RequestStop
<1>4. CASE \E s \in Stopper : ApplyStop(s) BY <1>4 DEF ApplyStop
<1>5. CASE \E s \in Stopper : StopAccepted(s) BY <1>5 DEF StopAccepted
<1>6. CASE UNCHANGED vars BY <1>6 DEF vars
<1>7. QED
  BY <1>1, <1>2, <1>3, <1>4, <1>5, <1>6 DEF StopStep

LEMMA NextRecord == TypeOK /\ RecordInv /\ [Next]_vars => RecordInv'
<1> SUFFICES ASSUME TypeOK, RecordInv, [Next]_vars, NEW m \in Launch PROVE RecordAt(m)'
  BY RecordPointwise
<1>a. RecordAt(m)
  BY RecordPointwise
<1>1. ASSUME NEW l \in Launch,
             \/ RunStep(l) \/ ReapPrepare(l) \/ RaiseInPrepare(l) \/ DeleteRun(l)
             \/ \E k \in Key : DriverStep(l, k)
             \/ \E v \in Video : VideoStep(l, v) \/ RaiseInVideo(l, v)
      PROVE  RecordAt(m)'
  <2>1. CASE m = l
    BY <1>1, <1>a, <2>1, RunStepRecord, WorkerRecord
  <2>2. CASE m # l
    BY <1>1, <1>a, <2>2, StepsAreLocal, OtherRuns DEF RunOnly
  <2>3. QED
    BY <2>1, <2>2
<1>2. CASE NoRecord
  BY <1>a, <1>2 DEF NoRecord, RecordAt
<1>3. CASE Crash
  BY <1>a, <1>3 DEF Crash, RecordAt, Early, Underway, Holding, TypeOK, recordVars, workerVars
<1>4. QED
  BY <1>1, <1>2, <1>3, CallsWriteNoRecord DEF Next, Quiescent

LEMMA InitContract == Init => Contract!ContractInit
  BY DEF Init, Contract!ContractInit, Contract!Video, Video

\* A change of the videos of a running record is a step of the contract if each of them
\* moves forward.
LEMMA ForwardAdvances ==
  ASSUME TypeOK, NEW l \in Launch, reqStatus[l] = "running", reqStatus' = reqStatus,
         NEW vs \in [Video -> VideoStatus], videos' = [videos EXCEPT ![l] = vs],
         \A v \in Video : Contract!Forward(videos[l][v], vs[v])
  PROVE  Contract!Advance(l)
  BY DEF Contract!Advance, Contract!Video, Video, Contract!VideoStatus, VideoStatus,
         Contract!Settled, Settled

\* The verdicts of a drained pool are the ones its videos support.
LEMMA AggregateIsSupported ==
  ASSUME TypeOK, NEW l \in Launch, \A v \in Video : videos[l][v] \in Settled
  PROVE  AggregateStatus(l) \in Contract!Verdict(l, videos[l])
<1>1. Contract!Drained(videos[l])
  BY DEF Contract!Drained, Contract!Video, Video, Contract!Settled, Settled
<1>2. AggregateStatus(l) \in
        {"stopped", "stopped-budget",
         IF \A v \in Video : videos[l][v] = "complete" THEN "complete"
         ELSE IF wf(l) \in AtomicWorkflow \/ (\A v \in Video : videos[l][v] = "failed")
              THEN "failed" ELSE "partial"}
  BY DEF AggregateStatus
<1>3. QED
  BY <1>1, <1>2 DEF Contract!Verdict, Contract!AllAre, Contract!Video, Video

LEMMA StepImplementsContract ==
  TypeOK /\ RecordInv /\ [Next]_vars => [Contract!ContractNext]_(Contract!contractVars)
<1> SUFFICES ASSUME TypeOK, RecordInv, [Next]_vars
             PROVE  Contract!ContractNext \/ UNCHANGED <<reqStatus, videos>>
  BY DEF Contract!contractVars
<1>a. \A l \in Launch : RecordAt(l)
  BY RecordPointwise
<1> USE DEF Contract!ContractNext
<1>1. ASSUME NEW l \in Launch, RunStep(l) \/ DeleteRun(l)
      PROVE  Contract!ContractNext \/ UNCHANGED <<reqStatus, videos>>
  <2>1. CASE AllocateRun(l)
    <3>1. reqStatus[l] = "none"
      BY <1>a, <2>1 DEF AllocateRun, RecordAt
    <3>2. reqStatus' = [reqStatus EXCEPT ![l] = "allocated"] /\ UNCHANGED videos
      BY <2>1 DEF AllocateRun
    <3>3. Contract!Allocate(l)
      BY <3>1, <3>2 DEF Contract!Allocate
    <3>4. QED
      BY <3>3
  <2>2. CASE CreateRequest(l)
    <3>1. Contract!Open(l)
      BY <1>a, <2>2 DEF CreateRequest, RecordAt, Contract!Open
    <3>2. QED
      BY <3>1
  <2>3. CASE MarkPendingStopped(l)
    <3>1. \A v \in Video : videos[l][v] = "pending"
      BY <1>a, <2>3 DEF MarkPendingStopped, RecordAt, Underway
    <3>2. reqStatus[l] = "running"
      BY <1>a, <2>3 DEF MarkPendingStopped, RecordAt, Underway
    <3>3. videos' = [videos EXCEPT ![l] = [v \in Video |-> "stopped"]]
      BY <2>3, <3>1 DEF MarkPendingStopped
    <3>4. [v \in Video |-> "stopped"] \in [Video -> VideoStatus]
      BY DEF VideoStatus, Settled
    <3>5. \A v \in Video : Contract!Forward(videos[l][v], [u \in Video |-> "stopped"][v])
      BY <3>1 DEF Contract!Forward
    <3>6. reqStatus' = reqStatus
      BY <2>3 DEF MarkPendingStopped
    <3>7. QED
      BY <3>2, <3>3, <3>4, <3>5, <3>6, ForwardAdvances
  <2>4. CASE FinishAs(l)
    <3>1. /\ reqStatus[l] = "running" /\ UNCHANGED videos
          /\ reqStatus' = [reqStatus EXCEPT ![l] = verdict[l]]
      BY <1>a, <2>4 DEF FinishAs, RecordAt, Underway
    <3>2. verdict[l] \in Contract!Verdict(l, videos[l])
      BY <1>a, <2>4 DEF FinishAs, RecordAt, Contract!Verdict, Contract!Drained,
         Contract!AllAre, Contract!Settled, Contract!Video, Video
    <3>3. QED
      BY <3>1, <3>2 DEF Contract!Settle
  <2>5. CASE FinishPool(l)
    <3>1. /\ reqStatus[l] = "running" /\ UNCHANGED videos
          /\ reqStatus' = [reqStatus EXCEPT ![l] = AggregateStatus(l)]
      BY <1>a, <2>5 DEF FinishPool, RecordAt, Underway
    <3>2. \A v \in Video : videos[l][v] \in Settled
      BY <1>a, <2>5 DEF FinishPool, RecordAt
    <3>3. QED
      BY <3>1, <3>2, AggregateIsSupported DEF Contract!Settle
  <2>6. CASE DeleteRun(l)
    BY <2>6 DEF DeleteRun, Contract!Remove, Terminal, Contract!Terminal
  <2>7. CASE Admit(l) BY <2>7 DEF Admit, recordVars
  <2>8. CASE EnvRefused(l) BY <2>8 DEF EnvRefused, recordVars
  <2>9. CASE NameActive(l) BY <2>9 DEF NameActive, recordVars
  <2>10. CASE RegisterRun(l) BY <2>10 DEF RegisterRun, recordVars
  <2>11. CASE PreflightRefused(l) BY <2>11 DEF PreflightRefused, recordVars
  <2>12. CASE PreflightPassed(l) BY <2>12 DEF PreflightPassed, recordVars
  <2>13. CASE PrepareFailed(l) BY <2>13 DEF PrepareFailed, recordVars
  <2>14. CASE AfterPrepare(l) BY <2>14 DEF AfterPrepare, recordVars
  <2>15. CASE Cleanup(l) BY <2>15 DEF Cleanup, recordVars
  <2>16. QED
    BY <1>1, <2>1, <2>2, <2>3, <2>4, <2>5, <2>6, <2>7, <2>8, <2>9, <2>10, <2>11, <2>12, <2>13,
       <2>14, <2>15 DEF RunStep
<1>2. ASSUME NEW l \in Launch, NEW v \in Video, VideoStep(l, v) \/ RaiseInVideo(l, v)
      PROVE  Contract!ContractNext \/ UNCHANGED <<reqStatus, videos>>
  <2>1. ASSUME NEW next \in VideoStatus, pc[l] = "videos", reqStatus' = reqStatus,
               videos' = [videos EXCEPT ![l][v] = next],
               Contract!Forward(videos[l][v], next)
        PROVE  Contract!ContractNext
    <3>1. reqStatus[l] = "running"
      BY <1>a, <2>1 DEF RecordAt, Underway
    <3>2. [videos[l] EXCEPT ![v] = next] \in [Video -> VideoStatus]
      BY DEF TypeOK
    <3>3. \A u \in Video : Contract!Forward(videos[l][u], [videos[l] EXCEPT ![v] = next][u])
      BY <2>1 DEF TypeOK, Contract!Forward
    <3>4. Contract!Advance(l)
      BY <2>1, <3>1, <3>2, <3>3, ForwardAdvances
    <3>5. QED
      BY <3>4
  <2>k. v # Prep
    BY DEF Video, Prep
  <2>2. CASE StartVideo(l, v)
    <3>1. /\ pc[l] = "videos" /\ wpc[l][v] = "queued" /\ reqStatus' = reqStatus
          /\ videos' = [videos EXCEPT ![l][v] = "stopped"] \/ videos' = videos
      BY <2>k, <2>2 DEF StartVideo, Driving
    <3>2. videos[l][v] = "pending"
      BY <1>a, <3>1 DEF RecordAt
    <3>3. QED
      BY <2>1, <3>1, <3>2 DEF Contract!Forward, VideoStatus, Settled
  <2>3. CASE SetRunning(l, v)
    <3>1. /\ pc[l] = "videos" /\ wpc[l][v] = "running" /\ reqStatus' = reqStatus
          /\ videos' = [videos EXCEPT ![l][v] = "running"]
      BY <2>k, <2>3 DEF SetRunning, Driving
    <3>2. videos[l][v] = "pending"
      BY <1>a, <3>1 DEF RecordAt
    <3>3. QED
      BY <2>1, <3>1, <3>2 DEF Contract!Forward, VideoStatus
  <2>4. CASE SetVideo(l, v)
    <3>1. /\ pc[l] = "videos" /\ wpc[l][v] = "publish" /\ reqStatus' = reqStatus
          /\ videos' = [videos EXCEPT ![l][v] = outcome[l][v]]
      BY <2>k, <2>4 DEF SetVideo, Driving
    <3>2. videos[l][v] = "running"
      BY <1>a, <3>1 DEF RecordAt
    <3>3. outcome[l][v] \in Settled
      BY DEF TypeOK
    <3>4. QED
      BY <2>1, <3>1, <3>2, <3>3 DEF Contract!Forward, VideoStatus, Contract!Settled, Settled
  <2>5. CASE NoteRunning(l, v) BY <2>5 DEF NoteRunning
  <2>6. CASE Reap(l, v) BY <2>6 DEF Reap, recordVars
  <2>7. CASE Decide(l, v) BY <2>7 DEF Decide, recordVars
  <2>8. CASE RecordVideo(l, v) BY <2>8 DEF RecordVideo
  <2>9. CASE RaiseInVideo(l, v) BY <2>9 DEF RaiseInVideo, recordVars
  <2>10. QED
    BY <1>2, <2>2, <2>3, <2>4, <2>5, <2>6, <2>7, <2>8, <2>9 DEF VideoStep
<1>3. ASSUME NEW l \in Launch, NEW k \in Key, DriverStep(l, k)
      PROVE  UNCHANGED <<reqStatus, videos>>
  <2>1. CASE StartRunner(l, k) BY <2>1 DEF StartRunner, recordVars
  <2>2. CASE RegisterProc(l, k) BY <2>2 DEF RegisterProc, recordVars
  <2>3. CASE ApplyPending(l, k) BY <2>3 DEF ApplyPending, recordVars
  <2>4. QED BY <1>3, <2>1, <2>2, <2>3 DEF DriverStep
<1>4. ASSUME NEW l \in Launch, ReapPrepare(l) \/ RaiseInPrepare(l)
      PROVE  UNCHANGED <<reqStatus, videos>>
  BY <1>4 DEF ReapPrepare, RaiseInPrepare, recordVars
<1>5. NoRecord \/ Crash => UNCHANGED <<reqStatus, videos>>
  BY DEF NoRecord, Crash, recordVars
<1>6. QED
  BY <1>1, <1>2, <1>3, <1>4, <1>5, CallsWriteNoRecord DEF Next, Quiescent

\* request.json keeps what RunContract promises its readers: opened once, its videos only
\* move forward, settled once by a status they support, then deleted or left alone, for
\* any number of runs and videos, under every stop, fault and crash.
THEOREM RecordsImplementContract == Spec => RecordsKeepTheContract
  BY InitType, NextType, InitRecord, NextRecord, InitContract, StepImplementsContract, PTL
  DEF Spec, RecordsKeepTheContract, Contract!ContractSpec

(***************************************************************************)
(* The two records of a video, and what they were earned by.                *)
(***************************************************************************)
Agrees(l, v) ==
  IF videoFile[l][v] = "none" THEN videos[l][v] \in {"pending", "stopped"}
  ELSE videoFile[l][v] = videos[l][v]

\* The file of a video follows its driver: it is written before request.json is, with the
\* status that was decided once.
FileAt(l, v) ==
  /\ pc[l] \in Early \cup (Underway \ {"videos"}) => videoFile[l][v] = "none"
  /\ pc[l] = "videos" =>
       /\ wpc[l][v] \in {"queued", "running", "note"} => videoFile[l][v] = "none"
       /\ wpc[l][v] = "publish" => videoFile[l][v] = outcome[l][v]
       /\ wpc[l][v] = "done" => videos[l][v] # "pending" /\ Agrees(l, v)
       /\ wpc[l][v] \in {"record", "publish"} /\ outcome[l][v] = "complete" => child[l][v] = "ok"
  /\ videos[l][v] = "complete" => child[l][v] = "ok"
  /\ reqStatus[l] \in Terminal => Agrees(l, v)

FileInv == \A l \in Launch, v \in Video : FileAt(l, v)

LEMMA InitFile == Init => FileInv
BY KeyFacts DEF Init, FileInv, FileAt, Agrees, Early, Underway, Terminal

\* What a step leaves alone that writes nothing about this video.
LEMMA FileKept ==
  ASSUME NEW l \in Launch, NEW v \in Video, FileAt(l, v),
         pc'[l] = pc[l], reqStatus'[l] = reqStatus[l], videos'[l][v] = videos[l][v],
         videoFile'[l][v] = videoFile[l][v], wpc'[l][v] = wpc[l][v],
         outcome'[l][v] = outcome[l][v], child'[l][v] = child[l][v]
  PROVE  FileAt(l, v)'
BY DEF FileAt, Agrees

LEMMA RunStepFile ==
  ASSUME TypeOK, NEW l \in Launch, NEW v \in Video, RecordAt(l), FileAt(l, v),
         RunStep(l) \/ DeleteRun(l)
  PROVE  FileAt(l, v)'
<1> USE DEF TypeOK, FileAt, Agrees, Early, Underway, runVars, stateVars, recordVars, workerVars
<1>1. CASE Admit(l) BY <1>1 DEF Admit
<1>2. CASE EnvRefused(l) BY <1>2 DEF EnvRefused
<1>3. CASE AllocateRun(l) BY <1>3 DEF AllocateRun, Terminal
<1>4. CASE NameActive(l) BY <1>4 DEF NameActive
<1>5. CASE RegisterRun(l) BY <1>5 DEF RegisterRun
<1>6. CASE CreateRequest(l) BY <1>6 DEF CreateRequest, Terminal
<1>7. CASE PreflightRefused(l) BY <1>7 DEF PreflightRefused
<1>8. CASE PreflightPassed(l)
  <2>1. wpc'[l][v] = wpc[l][v]
    <3>k. v # 0
      BY DEF Video
    <3>1. wpc' = [wpc EXCEPT ![l] = [wpc[l] EXCEPT ![0] = "spawn"]] \/ wpc' = wpc
      BY <1>8 DEF PreflightPassed, Prep
    <3>2. QED
      BY <3>k, <3>1, KeyFacts
  <2>2. /\ pc[l] = "preflight" /\ pc'[l] \in {"prepare", "videos"}
        /\ UNCHANGED <<recordVars, outcome, child>>
    BY <1>8 DEF PreflightPassed
  <2>3. wpc[l][v] = "queued"
    BY <2>2 DEF RecordAt
  <2>4. QED
    BY <2>1, <2>2, <2>3
<1>9. CASE PrepareFailed(l) BY <1>9 DEF PrepareFailed
<1>10. CASE AfterPrepare(l)
  <2>1. wpc[l][v] = "queued"
    BY <1>10 DEF AfterPrepare, RecordAt
  <2>2. QED
    BY <1>10, <2>1 DEF AfterPrepare
<1>11. CASE MarkPendingStopped(l)
  <2>1. reqStatus[l] = "running"
    BY <1>11 DEF MarkPendingStopped, RecordAt
  <2>2. QED
    BY <1>11, <2>1 DEF MarkPendingStopped, Terminal
<1>12. CASE FinishAs(l)
  <2>1. videos[l][v] \in {"pending", "stopped"} /\ videoFile[l][v] = "none"
    BY <1>12 DEF FinishAs, RecordAt
  <2>2. QED
    BY <1>12, <2>1 DEF FinishAs
<1>13. CASE FinishPool(l)
  <2>1. Agrees(l, v)
    BY <1>13 DEF FinishPool
  <2>2. QED
    BY <1>13, <2>1 DEF FinishPool
<1>14. CASE Cleanup(l) BY <1>14 DEF Cleanup
<1>15. CASE DeleteRun(l) BY <1>15 DEF DeleteRun, Terminal
<1>16. QED
  BY <1>1, <1>2, <1>3, <1>4, <1>5, <1>6, <1>7, <1>8, <1>9, <1>10, <1>11, <1>12, <1>13, <1>14,
     <1>15 DEF RunStep

\* A step of the driver of one child touches the record of no other video.
LEMMA WorkerFile ==
  ASSUME TypeOK, NEW l \in Launch, NEW v \in Video, RecordAt(l), FileAt(l, v),
         \/ ReapPrepare(l) \/ RaiseInPrepare(l)
         \/ \E k \in Key : DriverStep(l, k) \/ ChildExit(l, k)
         \/ \E u \in Video : VideoStep(l, u) \/ RaiseInVideo(l, u)
  PROVE  FileAt(l, v)'
<1> USE DEF TypeOK, runVars, stateVars, recordVars, workerVars
<1>k. \A u \in Video : u \in Key /\ u # 0
  BY DEF Key, Video
<1>1. CASE ReapPrepare(l) \/ RaiseInPrepare(l)
  <2>1. /\ pc[l] = "prepare" /\ pc'[l] \in {"prepared", "prepFailed", "cleanup"}
        /\ UNCHANGED <<recordVars, outcome, child>>
    BY <1>1 DEF ReapPrepare, RaiseInPrepare, Driving, Prep
  <2>2. QED
    BY <2>1 DEF FileAt, Agrees, Early, Underway
<1>2. ASSUME NEW k \in Key, DriverStep(l, k) PROVE FileAt(l, v)'
  <2>1. /\ pc' = pc /\ UNCHANGED <<recordVars, outcome>>
        /\ wpc[l][k] \in {"spawn", "enroll", "graceful", "hard"}
        /\ wpc'[l][k] \in {"enroll", "graceful", "hard", "drain"}
        /\ k # v => wpc'[l][v] = wpc[l][v] /\ child'[l][v] = child[l][v]
        /\ Driving(l, k)
    <3>1. CASE StartRunner(l, k) BY <1>k, <3>1 DEF StartRunner
    <3>2. CASE RegisterProc(l, k) BY <1>k, <3>2 DEF RegisterProc, Stopped
    <3>3. CASE ApplyPending(l, k) BY <1>k, <3>3 DEF ApplyPending
    <3>4. QED BY <1>2, <3>1, <3>2, <3>3 DEF DriverStep
  <2>2. CASE k # v
    BY <2>1, <2>2, FileKept
  <2>3. CASE k = v
    <3>1. pc[l] = "videos" /\ videos[l][v] = "running" /\ reqStatus[l] = "running"
      BY <1>k, <2>1, <2>3 DEF Driving, Prep, RecordAt, Underway
    <3>2. QED
      BY <2>1, <2>3, <3>1 DEF FileAt, Agrees, Early, Underway, Terminal
  <2>4. QED BY <2>2, <2>3
<1>3. ASSUME NEW k \in Key, ChildExit(l, k) PROVE FileAt(l, v)'
  <2>1. /\ pc' = pc /\ UNCHANGED <<recordVars, wpc, outcome>>
        /\ child[l][k] \in Running /\ (k # v => child'[l][v] = child[l][v])
    BY <1>3, <1>k DEF ChildExit
  <2>2. child[l][v] = "ok" => child'[l][v] = "ok"
    BY <2>1 DEF Running
  <2>3. QED
    BY <2>1, <2>2 DEF FileAt, Agrees
<1>4. ASSUME NEW u \in Video, VideoStep(l, u) \/ RaiseInVideo(l, u)
      PROVE  FileAt(l, v)'
  <2>k. u \in Key /\ u # 0 /\ v \in Key
    BY <1>k
  <2>1. pc' = pc /\ reqStatus' = reqStatus /\ child' = child /\ pc[l] = "videos"
    <3>1. CASE StartVideo(l, u) BY <2>k, <3>1 DEF StartVideo, Driving, Prep
    <3>2. CASE SetRunning(l, u) BY <2>k, <3>2 DEF SetRunning, Driving, Prep
    <3>3. CASE NoteRunning(l, u) BY <2>k, <3>3 DEF NoteRunning, Driving, Prep
    <3>4. CASE Reap(l, u) BY <2>k, <3>4 DEF Reap, Driving, Prep
    <3>5. CASE Decide(l, u) BY <2>k, <3>5 DEF Decide, Driving, Prep
    <3>6. CASE RecordVideo(l, u) BY <2>k, <3>6 DEF RecordVideo, Driving, Prep
    <3>7. CASE SetVideo(l, u) BY <2>k, <3>7 DEF SetVideo, Driving, Prep
    <3>8. CASE RaiseInVideo(l, u) BY <2>k, <3>8 DEF RaiseInVideo, Driving, Prep
    <3>9. QED
      BY <1>4, <3>1, <3>2, <3>3, <3>4, <3>5, <3>6, <3>7, <3>8 DEF VideoStep
  <2>2. CASE u # v
    <3>1. /\ videos'[l][v] = videos[l][v] /\ videoFile'[l][v] = videoFile[l][v]
          /\ wpc'[l][v] = wpc[l][v] /\ outcome'[l][v] = outcome[l][v]
      <4>1. CASE StartVideo(l, u) BY <2>k, <2>2, <4>1 DEF StartVideo
      <4>2. CASE SetRunning(l, u) BY <2>k, <2>2, <4>2 DEF SetRunning
      <4>3. CASE NoteRunning(l, u) BY <2>k, <2>2, <4>3 DEF NoteRunning
      <4>4. CASE Reap(l, u) BY <2>k, <2>2, <4>4 DEF Reap
      <4>5. CASE Decide(l, u) BY <2>k, <2>2, <4>5 DEF Decide
      <4>6. CASE RecordVideo(l, u) BY <2>k, <2>2, <4>6 DEF RecordVideo
      <4>7. CASE SetVideo(l, u) BY <2>k, <2>2, <4>7 DEF SetVideo
      <4>8. CASE RaiseInVideo(l, u) BY <2>k, <2>2, <4>8 DEF RaiseInVideo
      <4>9. QED
        BY <1>4, <4>1, <4>2, <4>3, <4>4, <4>5, <4>6, <4>7, <4>8 DEF VideoStep
    <3>2. QED BY <2>1, <3>1, FileKept
  <2>3. CASE u = v
    <3>0. reqStatus[l] = "running"
      BY <2>1 DEF RecordAt, Underway
    <3>a. \/ StartVideo(l, v) \/ SetRunning(l, v) \/ NoteRunning(l, v) \/ Reap(l, v)
          \/ Decide(l, v) \/ RecordVideo(l, v) \/ SetVideo(l, v) \/ RaiseInVideo(l, v)
      BY <1>4, <2>3 DEF VideoStep
    <3> USE <2>k, <2>1, <3>0 DEF FileAt, Agrees, Early, Underway, Terminal
    <3>1. CASE StartVideo(l, v)
      <4>1. \/ /\ videos'[l][v] = "stopped" /\ wpc'[l][v] = "done"
            \/ /\ wpc'[l][v] = "running" /\ videos'[l][v] = videos[l][v]
        BY <3>1 DEF StartVideo
      <4>2. wpc[l][v] = "queued" /\ UNCHANGED <<videoFile, outcome>>
        BY <3>1 DEF StartVideo
      <4>3. QED BY <4>1, <4>2
    <3>2. CASE SetRunning(l, v)
      <4>1. /\ wpc[l][v] = "running" /\ wpc'[l][v] = "note" /\ videos'[l][v] = "running"
            /\ UNCHANGED <<videoFile, outcome>>
        BY <3>2 DEF SetRunning
      <4>2. QED BY <4>1
    <3>3. CASE NoteRunning(l, v)
      <4>1. wpc'[l][v] = "spawn" /\ UNCHANGED <<videos, outcome>>
        BY <3>3 DEF NoteRunning
      <4>2. QED BY <4>1
    <3>4. CASE Reap(l, v)
      <4>1. wpc'[l][v] = "decide" /\ UNCHANGED <<videos, videoFile, outcome>>
        BY <3>4 DEF Reap
      <4>2. QED BY <4>1
    <3>5. CASE Decide(l, v)
      <4>1. /\ wpc'[l][v] = "record" /\ UNCHANGED <<videos, videoFile>>
            /\ outcome'[l][v] = "complete" => child[l][v] = "ok"
        BY <3>5 DEF Decide
      <4>2. QED BY <4>1
    <3>6. CASE RecordVideo(l, v)
      <4>1. /\ wpc[l][v] = "record" /\ wpc'[l][v] = "publish"
            /\ videoFile'[l][v] = outcome[l][v] /\ UNCHANGED <<videos, outcome>>
        BY <3>6 DEF RecordVideo
      <4>2. QED BY <4>1
    <3>7. CASE SetVideo(l, v)
      <4>1. /\ wpc[l][v] = "publish" /\ wpc'[l][v] = "done"
            /\ videos'[l][v] = outcome[l][v] /\ UNCHANGED <<videoFile, outcome>>
        BY <3>7 DEF SetVideo
      <4>2. outcome[l][v] \in Settled /\ outcome[l][v] \notin {"pending", "none"}
        BY DEF Settled
      <4>3. QED BY <4>1, <4>2
    <3>8. CASE RaiseInVideo(l, v)
      <4>1. /\ wpc'[l][v] = "record" /\ outcome'[l][v] # "complete"
            /\ UNCHANGED <<videos, videoFile>>
        BY <3>8 DEF RaiseInVideo
      <4>2. QED BY <4>1
    <3>9. QED BY <3>a, <3>1, <3>2, <3>3, <3>4, <3>5, <3>6, <3>7, <3>8
  <2>4. QED BY <2>2, <2>3
<1>5. QED BY <1>1, <1>2, <1>3, <1>4

\* What reaches a child from outside leaves one that has ended as it is.
LEMMA StopsSpareTheEnded ==
  ASSUME TypeOK, NEW s \in Stopper, StopLookup(s) \/ StopStep(s)
  PROVE  /\ UNCHANGED <<active, registry, runVars, recordVars, workerVars>>
         /\ \A l \in Launch, k \in Key :
              IF child[l][k] \in Running THEN child'[l][k] \in Running \cup {"fail"}
                                         ELSE child'[l][k] = child[l][k]
<1>1. CASE StopLookup(s) BY <1>1 DEF StopLookup
<1>2. CASE RequestStop(s) BY <1>2 DEF RequestStop
<1>3. CASE StopAccepted(s) BY <1>3 DEF StopAccepted
<1>4. CASE ApplyStop(s)
  <2>1. PICK k \in stodo[s] : child' = [child EXCEPT ![srun[s]][k] = Hit(@, smode[s])]
    BY <1>4 DEF ApplyStop
  <2>2. srun[s] \in Launch /\ k \in Key
    BY <1>4, <2>1 DEF ApplyStop, TypeOK
  <2>3. ASSUME NEW l \in Launch, NEW j \in Key
        PROVE  child'[l][j] = child[l][j] \/ child'[l][j] = Hit(child[l][j], smode[s])
    BY <2>1, <2>2 DEF TypeOK
  <2>4. \A p : IF p \in Running THEN Hit(p, smode[s]) \in Running \cup {"fail"}
               ELSE Hit(p, smode[s]) = p
    BY DEF Hit, Running
  <2>5. UNCHANGED <<active, registry, runVars, recordVars, workerVars>>
    BY <1>4 DEF ApplyStop
  <2>6. QED BY <2>3, <2>4, <2>5
<1>5. QED BY <1>1, <1>2, <1>3, <1>4 DEF StopStep

LEMMA NextFile == TypeOK /\ RecordInv /\ FileInv /\ [Next]_vars => FileInv'
<1> SUFFICES ASSUME TypeOK, RecordInv, FileInv, [Next]_vars, NEW m \in Launch, NEW v \in Video
             PROVE  FileAt(m, v)'
  BY DEF FileInv
<1>a. RecordAt(m) /\ FileAt(m, v) /\ v \in Key
  BY RecordPointwise, KeyFacts DEF FileInv
<1>1. ASSUME NEW l \in Launch,
             \/ RunStep(l) \/ ReapPrepare(l) \/ RaiseInPrepare(l) \/ DeleteRun(l)
             \/ \E k \in Key : DriverStep(l, k)
             \/ \E u \in Video : VideoStep(l, u) \/ RaiseInVideo(l, u)
      PROVE  FileAt(m, v)'
  <2>1. CASE m = l
    BY <1>1, <1>a, <2>1, RunStepFile, WorkerFile
  <2>2. CASE m # l
    <3>1. RunOnly(l)
      BY <1>1, StepsAreLocal
    <3>2. QED
      BY <1>a, <2>2, <3>1, FileKept DEF RunOnly
  <2>3. QED
    BY <2>1, <2>2
<1>2. ASSUME NEW l \in Launch, NEW k \in Key, ChildExit(l, k)
      PROVE  FileAt(m, v)'
  <2>1. CASE m = l
    BY <1>2, <1>a, <2>1, WorkerFile
  <2>2. CASE m # l
    <3>1. child'[m] = child[m] /\ UNCHANGED <<runVars, recordVars, workerVars>>
      BY <1>2, <2>2 DEF ChildExit, TypeOK
    <3>2. QED
      BY <1>a, <3>1, FileKept DEF runVars, recordVars, workerVars
  <2>3. QED
    BY <2>1, <2>2
<1>3. ASSUME NEW s \in Stopper, StopLookup(s) \/ StopStep(s)
      PROVE  FileAt(m, v)'
  <2>1. /\ UNCHANGED <<pc, reqStatus, videos, videoFile, wpc, outcome>>
        /\ child[m][v] = "ok" => child'[m][v] = "ok"
    BY <1>3, <1>a, StopsSpareTheEnded DEF runVars, recordVars, workerVars, Running
  <2>2. QED
    BY <1>a, <2>1 DEF FileAt, Agrees
<1>4. CASE Crash
  <2>1. /\ UNCHANGED <<reqStatus, videos, videoFile, wpc, outcome, child>>
        /\ pc'[m] = pc[m] \/ pc'[m] = "lost"
    BY <1>4 DEF Crash, recordVars, workerVars
  <2>2. QED
    BY <1>a, <2>1 DEF FileAt, Agrees, Early, Underway
<1>5. CASE UNCHANGED vars
  BY <1>a, <1>5, FileKept DEF vars, runVars, recordVars, workerVars
<1>6. QED
  BY <1>1, <1>2, <1>3, <1>4, <1>5 DEF Next, Quiescent

\* The state is typed; in a settled run request.json and the video.json files agree, although
\* they are written apart and a stop may come in between; and a video is recorded as complete
\* only if its process returned 0: for any number of runs and videos, under every fault.
THEOREM RecordsAreSound == Spec => []RecordsInv
<1>1. TypeOK /\ FileInv => RecordsInv
  BY DEF RecordsInv, FileInv, FileAt, Agrees, RecordsAgree, CompleteIsEarned
<1>2. QED
  BY <1>1, InitType, NextType, InitRecord, NextRecord, InitFile, NextFile, PTL DEF Spec

(***************************************************************************)
(* A run that ended by itself is settled, unless prepare() raised.          *)
(***************************************************************************)
\* The exceptions that leave run_request without a last status are those of prepare(): Popen's,
\* or one while its output is recorded.
PrepareNeverRaises == PrepareWorkflow = {} \/ Faults \cap {"spawn", "drain"} = {}

EndInv ==
  /\ \A l \in Launch : pc[l] = "prepare" => IsPrep(l)
  /\ \A l \in Launch : pc[l] \in {"cleanup", "done"} /\ rid[l] # NoId =>
       reqStatus[l] \in Terminal \cup {"deleted"}

LEMMA NextEnd ==
  ASSUME PrepareNeverRaises, TypeOK, RecordInv, SlotInv, EndInv, [Next]_vars
  PROVE  EndInv'
<1> DEFINE EndAt(l) == /\ pc[l] = "prepare" => IsPrep(l)
                       /\ pc[l] \in {"cleanup", "done"} /\ rid[l] # NoId =>
                            reqStatus[l] \in Terminal \cup {"deleted"}
<1> SUFFICES ASSUME NEW m \in Launch PROVE EndAt(m)'
  BY DEF EndInv
<1>a. EndAt(m) /\ RecordAt(m)
  BY RecordPointwise DEF EndInv
<1>b. pc[m] \in {"new", "env", "busy"} => rid[m] = NoId
  BY DEF SlotInv
<1>1. ASSUME NEW l \in Launch,
             \/ RunStep(l) \/ ReapPrepare(l) \/ RaiseInPrepare(l) \/ DeleteRun(l)
      PROVE  EndAt(m)'
  <2>1. CASE m # l
    <3>1. RunOnly(l)
      BY <1>1, StepsAreLocal
    <3>2. QED
      BY <1>a, <2>1, <3>1 DEF RunOnly, IsPrep
  <2>2. CASE m = l
    <3> USE <1>a, <1>b, <2>2 DEF TypeOK, runVars, recordVars, IsPrep
    <3>1. CASE Admit(l) BY <3>1 DEF Admit
    <3>2. CASE EnvRefused(l) BY <3>2 DEF EnvRefused
    <3>3. CASE AllocateRun(l) BY <3>3 DEF AllocateRun
    <3>4. CASE NameActive(l) BY <3>4 DEF NameActive
    <3>5. CASE RegisterRun(l) BY <3>5 DEF RegisterRun
    <3>6. CASE CreateRequest(l) BY <3>6 DEF CreateRequest
    <3>7. CASE PreflightRefused(l) BY <3>7 DEF PreflightRefused
    <3>8. CASE PreflightPassed(l) BY <3>8 DEF PreflightPassed
    <3>9. CASE PrepareFailed(l) BY <3>9 DEF PrepareFailed
    <3>10. CASE AfterPrepare(l) BY <3>10 DEF AfterPrepare
    <3>11. CASE MarkPendingStopped(l) BY <3>11 DEF MarkPendingStopped
    <3>12. CASE FinishAs(l) BY <3>12 DEF FinishAs, Terminal
    <3>13. CASE FinishPool(l) BY <3>13 DEF FinishPool, AggregateStatus, Terminal
    <3>14. CASE Cleanup(l) BY <3>14 DEF Cleanup
    <3>15. CASE DeleteRun(l) BY <3>15 DEF DeleteRun
    <3>16. CASE ReapPrepare(l) BY <3>16 DEF ReapPrepare
    <3>17. CASE RaiseInPrepare(l)
      <4>1. IsPrep(l) /\ Faults \cap {"spawn", "drain"} # {}
        BY <3>17 DEF RaiseInPrepare, Raises, Driving, Prep
      <4>2. QED BY <4>1 DEF PrepareNeverRaises
    <3>18. QED
      BY <1>1, <3>1, <3>2, <3>3, <3>4, <3>5, <3>6, <3>7, <3>8, <3>9, <3>10, <3>11, <3>12, <3>13,
         <3>14, <3>15, <3>16, <3>17 DEF RunStep
  <2>3. QED BY <2>1, <2>2
<1>2. ASSUME \/ \E l \in Launch : \/ \E k \in Key : DriverStep(l, k) \/ ChildExit(l, k)
                                  \/ \E v \in Video : VideoStep(l, v) \/ RaiseInVideo(l, v)
             \/ \E s \in Stopper : StopLookup(s) \/ StopStep(s)
             \/ UNCHANGED vars
      PROVE  EndAt(m)'
  <2>1. pc' = pc /\ rid' = rid /\ reqStatus' = reqStatus
    BY <1>2 DEF vars, runVars, recordVars, DriverStep, StartRunner, RegisterProc, ApplyPending,
       ChildExit, VideoStep, StartVideo, SetRunning, NoteRunning, Reap, Decide, RecordVideo,
       SetVideo, RaiseInVideo, StopLookup, StopStep, RequestStop, ApplyStop, StopAccepted
  <2>2. QED BY <1>a, <2>1 DEF IsPrep
<1>3. CASE Crash
  <2>1. /\ pc'[m] = pc[m] \/ pc'[m] = "lost"
        /\ rid' = rid /\ reqStatus' = reqStatus
    BY <1>3 DEF Crash, recordVars
  <2>2. QED BY <1>a, <2>1 DEF IsPrep
<1>4. QED
  BY <1>1, <1>2, <1>3 DEF Next, Quiescent

\* A run whose thread came to its end left a settled record behind, through every early return
\* and every stop, and whatever crashes, if prepare() raises no exception.
THEOREM EndedRunsAreSettled == PrepareNeverRaises => (Spec => []EndedRunIsSettled)
<1> SUFFICES ASSUME PrepareNeverRaises PROVE Spec => []EndedRunIsSettled
  OBVIOUS
<1>1. Init => EndInv
  BY DEF Init, EndInv
<1>2. TypeOK /\ RecordInv /\ SlotInv /\ EndInv /\ [Next]_vars => EndInv'
  BY NextEnd
<1>3. EndInv => EndedRunIsSettled
  BY DEF EndInv, EndedRunIsSettled
<1>4. QED
  BY <1>1, <1>2, <1>3, InitType, NextType, InitRecord, NextRecord, InitSlot, NextSlot, PTL
  DEF Spec

(***************************************************************************)
(* No child outlives its run.                                               *)
(***************************************************************************)
\* What the proof needs of the code's surroundings: the recording of a child's output raises
\* nothing and the chassis does not die, and the ids that different workflows draw differ (the
\* registry is keyed by the bare run id).
ChildrenAreWaitedFor == Faults \subseteq {"spawn"}
IdsArePrivate == \A l, m \in Launch : wf(l) # wf(m) => IdsOf[wf(l)] \cap IdsOf[wf(m)] = {}

RegistryAt(l) ==
  /\ pc[l] \in Holding /\ rid[l] # NoId => rid[l] \in IdsOf[wf(l)]
  /\ pc[l] \in {"claimed", "register", "create"} \cup Underway => rid[l] # NoId
  /\ pc[l] \in {"create"} \cup Underway => registry[rid[l]] = l

ChildAt(l) == \A k \in Key : child[l][k] \in Running =>
                wpc[l][k] \in {"enroll", "graceful", "hard", "drain"} /\ Driving(l, k)

RegistryInv == \A l \in Launch : RegistryAt(l)
ChildInv == \A l \in Launch : ChildAt(l)

LEMMA InitOwned == Init => RegistryInv /\ ChildInv
BY DEF Init, RegistryInv, RegistryAt, ChildInv, ChildAt, Holding, Underway, Running

\* Two runs that hold their workflows have ids of their own.
LEMMA IdsDiffer ==
  ASSUME TypeOK, IdsArePrivate, SlotInv, RegistryInv, NEW l \in Launch, NEW m \in Launch, l # m,
         pc[l] \in Holding, pc[m] \in Holding, rid[l] # NoId
  PROVE  rid[l] # rid[m]
<1>1. wf(l) # wf(m)
  BY DEF SlotInv, SlotIsExclusive
<1>2. rid[l] \in IdsOf[wf(l)] /\ (rid[m] # NoId => rid[m] \in IdsOf[wf(m)])
  BY DEF RegistryInv, RegistryAt
<1>3. IdsOf[wf(l)] \cap IdsOf[wf(m)] = {}
  BY <1>1 DEF IdsArePrivate
<1>. QED BY <1>2, <1>3

LEMMA RegistryKept ==
  ASSUME NEW m \in Launch, RegistryAt(m), rid'[m] = rid[m], pc'[m] = pc[m],
         \/ registry' = registry
         \/ pc[m] \notin {"create"} \cup Underway
         \/ registry'[rid[m]] = registry[rid[m]]
  PROVE  RegistryAt(m)'
BY DEF RegistryAt

LEMMA NextRegistry ==
  ASSUME IdsArePrivate, Faults \subseteq {"spawn"}, TypeOK, SlotInv, RegistryInv, [Next]_vars
  PROVE  RegistryInv'
<1> SUFFICES ASSUME NEW m \in Launch PROVE RegistryAt(m)'
  BY DEF RegistryInv
<1>a. RegistryAt(m) /\ (pc[m] \in {"new", "env", "busy"} => rid[m] = NoId)
  BY DEF RegistryInv, SlotInv
<1>1. ASSUME NEW l \in Launch,
             \/ RunStep(l) \/ ReapPrepare(l) \/ RaiseInPrepare(l) \/ DeleteRun(l)
      PROVE  RegistryAt(m)'
  <2>1. CASE m # l
    <3>1. rid'[m] = rid[m] /\ pc'[m] = pc[m]
      BY <1>1, <2>1, StepsAreLocal DEF RunOnly
    <3>2. CASE registry' = registry
      BY <1>a, <3>1, <3>2, RegistryKept
    <3>3. CASE pc[m] \notin {"create"} \cup Underway
      BY <1>a, <3>1, <3>3, RegistryKept
    <3>4. CASE /\ pc[m] \in {"create"} \cup Underway
               /\ RegisterRun(l) \/ (Cleanup(l) /\ rid[l] # NoId)
      <4>1. pc[l] \in Holding /\ pc[m] \in Holding /\ rid[l] \in RunId /\ rid[l] # NoId
        <5>1. RegistryAt(l) /\ rid[l] \in RunId \cup {NoId}
          BY DEF RegistryInv, TypeOK
        <5>2. CASE RegisterRun(l)
          BY <3>4, <5>1, <5>2 DEF RegisterRun, RegistryAt, Holding, Underway
        <5>3. CASE Cleanup(l) /\ rid[l] # NoId
          BY <3>4, <5>1, <5>3 DEF Cleanup, Holding, Underway
        <5>. QED BY <3>4, <5>2, <5>3
      <4>2. rid[l] # rid[m]
        BY <2>1, <4>1, IdsDiffer
      <4>3. registry'[rid[m]] = registry[rid[m]]
        <5>1. PICK x : registry' = [registry EXCEPT ![rid[l]] = x]
          BY <3>4 DEF RegisterRun, Cleanup
        <5>2. rid[m] \in RunId /\ DOMAIN registry = RunId
          BY <1>a, <3>4 DEF RegistryAt, TypeOK
        <5>. QED BY <4>2, <5>1, <5>2
      <4>. QED BY <1>a, <3>1, <4>3, RegistryKept
    <3>5. registry' = registry \/ RegisterRun(l) \/ (Cleanup(l) /\ rid[l] # NoId)
      BY <1>1 DEF RunStep, Admit, EnvRefused, AllocateRun, NameActive, CreateRequest,
         PreflightRefused, PreflightPassed, PrepareFailed, AfterPrepare, MarkPendingStopped,
         FinishAs, FinishPool, Cleanup, ReapPrepare, RaiseInPrepare, DeleteRun
    <3>. QED BY <3>2, <3>3, <3>4, <3>5
  <2>2. CASE m = l
    <3> USE <1>a, <2>2 DEF TypeOK, RegistryAt, Holding, Underway, runVars
    <3>1. CASE Admit(l) BY <3>1 DEF Admit
    <3>2. CASE EnvRefused(l) BY <3>2 DEF EnvRefused
    <3>3. CASE AllocateRun(l)
      <4>1. rid'[l] \in IdsOf[wf(l)] /\ rid'[l] # NoId /\ pc'[l] = "claimed"
        <5>1. PICK id \in FreeIds(wf(l)) : rid' = [rid EXCEPT ![l] = id]
          BY <3>3 DEF AllocateRun
        <5>2. id \in IdsOf[wf(l)] /\ id \in RunId
          BY <5>1 DEF FreeIds, wf
        <5>. QED BY <3>3, <5>1, <5>2 DEF AllocateRun
      <4>. QED BY <4>1
    <3>4. CASE NameActive(l) BY <3>4 DEF NameActive
    <3>5. CASE RegisterRun(l) BY <3>5 DEF RegisterRun
    <3>6. CASE CreateRequest(l) BY <3>6 DEF CreateRequest
    <3>7. CASE PreflightRefused(l) BY <3>7 DEF PreflightRefused
    <3>8. CASE PreflightPassed(l) BY <3>8 DEF PreflightPassed
    <3>9. CASE PrepareFailed(l) BY <3>9 DEF PrepareFailed
    <3>10. CASE AfterPrepare(l) BY <3>10 DEF AfterPrepare
    <3>11. CASE MarkPendingStopped(l) BY <3>11 DEF MarkPendingStopped
    <3>12. CASE FinishAs(l) BY <3>12 DEF FinishAs
    <3>13. CASE FinishPool(l) BY <3>13 DEF FinishPool
    <3>14. CASE Cleanup(l) BY <3>14 DEF Cleanup
    <3>15. CASE DeleteRun(l) BY <3>15 DEF DeleteRun
    <3>16. CASE ReapPrepare(l) BY <3>16 DEF ReapPrepare, Driving, Prep
    <3>17. CASE RaiseInPrepare(l) BY <3>17 DEF RaiseInPrepare, Driving, Prep
    <3>18. QED
      BY <1>1, <3>1, <3>2, <3>3, <3>4, <3>5, <3>6, <3>7, <3>8, <3>9, <3>10, <3>11, <3>12, <3>13,
         <3>14, <3>15, <3>16, <3>17 DEF RunStep
  <2>. QED BY <2>1, <2>2
<1>2. ASSUME \/ \E l \in Launch : \/ \E k \in Key : DriverStep(l, k) \/ ChildExit(l, k)
                                  \/ \E v \in Video : VideoStep(l, v) \/ RaiseInVideo(l, v)
             \/ \E s \in Stopper : StopLookup(s) \/ StopStep(s)
             \/ UNCHANGED vars
      PROVE  RegistryAt(m)'
  <2>1. pc' = pc /\ rid' = rid /\ registry' = registry
    BY <1>2 DEF vars, runVars, DriverStep, StartRunner, RegisterProc, ApplyPending,
       ChildExit, VideoStep, StartVideo, SetRunning, NoteRunning, Reap, Decide, RecordVideo,
       SetVideo, RaiseInVideo, StopLookup, StopStep, RequestStop, ApplyStop, StopAccepted
  <2>. QED BY <1>a, <2>1, RegistryKept
<1>3. ~Crash
  BY DEF Crash
<1>. QED BY <1>1, <1>2, <1>3 DEF Next, Quiescent

\* A run thread moves away from its children only when none of them runs.
LEMMA RunStepChild ==
  ASSUME TypeOK, RecordInv, NEW l \in Launch, ChildAt(l), RunStep(l) \/ DeleteRun(l)
  PROVE  ChildAt(l)'
<1>0. RecordAt(l)
  BY RecordPointwise
<1> SUFFICES ASSUME NEW k \in Key, child'[l][k] \in Running
             PROVE  wpc'[l][k] \in {"enroll", "graceful", "hard", "drain"} /\ Driving(l, k)'
  BY DEF ChildAt
<1>1. child' = child
  BY DEF RunStep, Admit, EnvRefused, AllocateRun, NameActive, RegisterRun, CreateRequest,
     PreflightRefused, PreflightPassed, PrepareFailed, AfterPrepare, MarkPendingStopped, FinishAs,
     FinishPool, Cleanup, DeleteRun
<1>2. wpc[l][k] \in {"enroll", "graceful", "hard", "drain"} /\ Driving(l, k)
  BY <1>1 DEF ChildAt
<1>3. pc[l] \in {"prepare", "videos"} /\ (pc[l] = "videos" => k \in Video)
  BY <1>2, KeyFacts DEF Driving
<1>4. ~FinishPool(l)
  BY <1>2, <1>3 DEF FinishPool
<1>5. DeleteRun(l)
  BY <1>3, <1>4 DEF RunStep, Admit, EnvRefused, AllocateRun, NameActive, RegisterRun,
     CreateRequest, PreflightRefused, PreflightPassed, PrepareFailed, AfterPrepare,
     MarkPendingStopped, FinishAs, Cleanup
<1>. QED BY <1>2, <1>5 DEF DeleteRun, runVars, workerVars, Driving

LEMMA WorkerChild ==
  ASSUME TypeOK, Faults \subseteq {"spawn"}, NEW l \in Launch, ChildAt(l),
         \/ ReapPrepare(l) \/ RaiseInPrepare(l)
         \/ \E k \in Key : DriverStep(l, k) \/ ChildExit(l, k)
         \/ \E v \in Video : VideoStep(l, v) \/ RaiseInVideo(l, v)
  PROVE  ChildAt(l)'
<1> SUFFICES ASSUME NEW j \in Key, child'[l][j] \in Running
             PROVE  wpc'[l][j] \in {"enroll", "graceful", "hard", "drain"} /\ Driving(l, j)'
  BY DEF ChildAt
<1> USE DEF TypeOK, runVars, workerVars, stateVars, recordVars
<1>k. Prep \in Key /\ \A v \in Video : v \in Key /\ v # Prep
  BY DEF Key, Video, Prep
<1>1. CASE ReapPrepare(l) \/ RaiseInPrepare(l)
  <2>1. child' = child /\ Driving(l, Prep) /\ (\A i \in Key \ {Prep} : wpc'[l][i] = wpc[l][i])
    BY <1>1 DEF ReapPrepare, RaiseInPrepare
  <2>2. child[l][Prep] \notin Running
    <3>1. CASE ReapPrepare(l)
      BY <3>1 DEF ReapPrepare, Exited, Running
    <3>2. CASE RaiseInPrepare(l)
      <4>1. wpc[l][Prep] = "spawn"
        BY <3>2 DEF RaiseInPrepare, Raises
      <4>. QED BY <4>1, <1>k DEF ChildAt
    <3>. QED BY <1>1, <3>1, <3>2
  <2>3. Driving(l, j) /\ j # Prep
    BY <2>1, <2>2 DEF ChildAt
  <2>. QED BY <2>1, <2>3 DEF Driving
<1>2. ASSUME NEW k \in Key, DriverStep(l, k)
      PROVE  wpc'[l][j] \in {"enroll", "graceful", "hard", "drain"} /\ Driving(l, j)'
  <2>1. /\ pc' = pc /\ wpc'[l][k] \in {"enroll", "graceful", "hard", "drain"} /\ Driving(l, k)
        /\ k # j => wpc'[l][j] = wpc[l][j] /\ child'[l][j] = child[l][j]
    <3>1. CASE StartRunner(l, k) BY <3>1 DEF StartRunner
    <3>2. CASE RegisterProc(l, k) BY <3>2 DEF RegisterProc, Stopped
    <3>3. CASE ApplyPending(l, k) BY <3>3 DEF ApplyPending
    <3>4. QED BY <1>2, <3>1, <3>2, <3>3 DEF DriverStep
  <2>. QED BY <2>1 DEF ChildAt, Driving
<1>3. ASSUME NEW k \in Key, ChildExit(l, k)
      PROVE  wpc'[l][j] \in {"enroll", "graceful", "hard", "drain"} /\ Driving(l, j)'
  <2>1. /\ pc' = pc /\ wpc' = wpc /\ child[l][k] \in Running
        /\ k # j => child'[l][j] = child[l][j]
    BY <1>3 DEF ChildExit
  <2>2. child[l][j] \in Running
    BY <2>1
  <2>. QED BY <2>1, <2>2 DEF ChildAt, Driving
<1>4. ASSUME NEW v \in Video, VideoStep(l, v) \/ RaiseInVideo(l, v)
      PROVE  wpc'[l][j] \in {"enroll", "graceful", "hard", "drain"} /\ Driving(l, j)'
  <2>1. /\ pc' = pc /\ child' = child /\ (v # j => wpc'[l][j] = wpc[l][j])
        /\ wpc[l][v] \notin {"enroll", "graceful", "hard"}
        /\ wpc[l][v] = "drain" => child[l][v] \in Exited
    <3> USE <1>k
    <3>1. CASE StartVideo(l, v)
      <4>1. wpc'[l][j] = wpc[l][j] \/ v = j
        BY <3>1 DEF StartVideo
      <4>. QED BY <3>1, <4>1 DEF StartVideo
    <3>2. CASE SetRunning(l, v) BY <3>2 DEF SetRunning
    <3>3. CASE NoteRunning(l, v) BY <3>3 DEF NoteRunning
    <3>4. CASE Reap(l, v) BY <3>4 DEF Reap
    <3>5. CASE Decide(l, v) BY <3>5 DEF Decide
    <3>6. CASE RecordVideo(l, v) BY <3>6 DEF RecordVideo
    <3>7. CASE SetVideo(l, v) BY <3>7 DEF SetVideo
    <3>8. CASE RaiseInVideo(l, v) BY <3>8 DEF RaiseInVideo, Raises
    <3>9. QED
      BY <1>4, <3>1, <3>2, <3>3, <3>4, <3>5, <3>6, <3>7, <3>8 DEF VideoStep
  <2>2. v # j
    BY <1>k, <2>1 DEF ChildAt, Running, Exited
  <2>. QED BY <2>1, <2>2 DEF ChildAt, Driving
<1>. QED BY <1>1, <1>2, <1>3, <1>4

LEMMA NextChild ==
  ASSUME TypeOK, Faults \subseteq {"spawn"}, RecordInv, ChildInv, [Next]_vars
  PROVE  ChildInv'
<1> SUFFICES ASSUME NEW m \in Launch PROVE ChildAt(m)'
  BY DEF ChildInv
<1>a. ChildAt(m)
  BY DEF ChildInv
<1>1. ASSUME NEW l \in Launch,
             \/ RunStep(l) \/ ReapPrepare(l) \/ RaiseInPrepare(l) \/ DeleteRun(l)
             \/ \E k \in Key : DriverStep(l, k)
             \/ \E u \in Video : VideoStep(l, u) \/ RaiseInVideo(l, u)
      PROVE  ChildAt(m)'
  <2>1. CASE m = l
    BY <1>1, <1>a, <2>1, RunStepChild, WorkerChild
  <2>2. CASE m # l
    <3>1. child'[m] = child[m] /\ wpc'[m] = wpc[m] /\ pc'[m] = pc[m]
      BY <1>1, <2>2, StepsAreLocal DEF RunOnly
    <3>. QED BY <1>a, <3>1 DEF ChildAt, Driving
  <2>. QED BY <2>1, <2>2
<1>2. ASSUME NEW l \in Launch, NEW k \in Key, ChildExit(l, k)
      PROVE  ChildAt(m)'
  <2>1. CASE m = l
    BY <1>2, <1>a, <2>1, WorkerChild
  <2>2. CASE m # l
    <3>1. child'[m] = child[m] /\ wpc'[m] = wpc[m] /\ pc'[m] = pc[m]
      BY <1>2, <2>2 DEF ChildExit, TypeOK, runVars, workerVars
    <3>. QED BY <1>a, <3>1 DEF ChildAt, Driving
  <2>. QED BY <2>1, <2>2
<1>3. ASSUME NEW s \in Stopper, StopLookup(s) \/ StopStep(s)
      PROVE  ChildAt(m)'
  <2>1. /\ pc' = pc /\ wpc' = wpc
        /\ \A k \in Key : child'[m][k] \in Running => child[m][k] \in Running
    BY <1>3, StopsSpareTheEnded DEF runVars, workerVars, Running
  <2>. QED BY <1>a, <2>1 DEF ChildAt, Driving
<1>4. CASE UNCHANGED vars
  BY <1>a, <1>4 DEF vars, runVars, workerVars, ChildAt, Driving
<1>5. ~Crash
  BY DEF Crash
<1>. QED BY <1>1, <1>2, <1>3, <1>4, <1>5 DEF Next, Quiescent

\* No child outlives its run: a process that runs belongs to a run that holds its workflow and
\* that the stop endpoint finds.  The hypotheses name what the code leaves open.
THEOREM LiveChildrenAreOwned ==
  ChildrenAreWaitedFor /\ IdsArePrivate => (Spec => []LiveChildIsOwned)
<1> SUFFICES ASSUME ChildrenAreWaitedFor, IdsArePrivate PROVE Spec => []LiveChildIsOwned
  OBVIOUS
<1>1. TypeOK /\ SlotInv /\ RegistryInv /\ ChildInv => LiveChildIsOwned
  <2> SUFFICES ASSUME TypeOK, SlotInv, RegistryInv, ChildInv,
                      NEW l \in Launch, NEW k \in Key, child[l][k] \in Running
               PROVE  pc[l] \in Holding /\ active[wf(l)] = rid[l] /\ registry[rid[l]] = l
    BY DEF LiveChildIsOwned
  <2>1. pc[l] \in {"prepare", "videos"}
    BY DEF ChildInv, ChildAt, Driving
  <2>. QED BY <2>1 DEF SlotInv, RegistryInv, RegistryAt, Holding, Underway
<1>2. TypeOK /\ SlotInv /\ RegistryInv /\ [Next]_vars => RegistryInv'
  BY NextRegistry DEF ChildrenAreWaitedFor
<1>3. TypeOK /\ RecordInv /\ ChildInv /\ [Next]_vars => ChildInv'
  BY NextChild DEF ChildrenAreWaitedFor
<1>. QED
  BY <1>1, <1>2, <1>3, InitType, NextType, InitRecord, NextRecord, InitSlot, NextSlot,
     InitOwned, PTL DEF Spec

(***************************************************************************)
(* A stop is what the record says.                                          *)
(***************************************************************************)
\* A stop the run knew of when its pool drained, or when prepare() returned, is what the run is
\* recorded as, whatever the budget, the videos and the deletions do meanwhile.
THEOREM StopsAreRecorded == Spec => StopIsRecorded
<1>1. ASSUME TypeOK, [Next]_vars, NEW l \in Launch,
             pc[l] \in {"videos", "prepared", "prepFailed"}, Stopped(l),
             pc'[l] # pc[l], pc'[l] # "lost"
      PROVE  \/ pc'[l] = "cleanup" /\ reqStatus'[l] = "stopped"
             \/ pc'[l] = "mark" /\ verdict'[l] = "stopped"
  <2> USE DEF TypeOK
  <2>1. CASE PrepareFailed(l) BY <1>1, <2>1 DEF PrepareFailed
  <2>2. CASE AfterPrepare(l) BY <1>1, <2>2 DEF AfterPrepare
  <2>3. CASE FinishPool(l) BY <1>1, <2>3 DEF FinishPool, AggregateStatus
  <2>4. PICK m \in Launch : RunStep(m) \/ ReapPrepare(m) \/ RaiseInPrepare(m) \/ DeleteRun(m)
    <3>1. ASSUME \/ \E m \in Launch : \/ \E k \in Key : DriverStep(m, k) \/ ChildExit(m, k)
                                      \/ \E v \in Video : VideoStep(m, v) \/ RaiseInVideo(m, v)
                 \/ \E s \in Stopper : StopLookup(s) \/ StopStep(s)
                 \/ UNCHANGED vars
          PROVE  pc' = pc
      BY <3>1 DEF vars, runVars, DriverStep, StartRunner, RegisterProc, ApplyPending,
         ChildExit, VideoStep, StartVideo, SetRunning, NoteRunning, Reap, Decide, RecordVideo,
         SetVideo, RaiseInVideo, StopLookup, StopStep, RequestStop, ApplyStop, StopAccepted
    <3>2. ~Crash
      BY <1>1 DEF Crash
    <3>. QED BY <1>1, <3>1, <3>2 DEF Next, Quiescent
  <2>5. m = l
    BY <1>1, <2>4, StepsAreLocal DEF RunOnly
  <2>6. PrepareFailed(l) \/ AfterPrepare(l) \/ FinishPool(l)
    BY <1>1, <2>4, <2>5 DEF RunStep, Admit, EnvRefused, AllocateRun, NameActive, RegisterRun,
       CreateRequest, PreflightRefused, PreflightPassed, MarkPendingStopped, FinishAs, Cleanup,
       ReapPrepare, RaiseInPrepare, DeleteRun, Driving, Prep, runVars
  <2>. QED BY <2>1, <2>2, <2>3, <2>6
<1>2. TypeOK /\ [Next]_vars =>
        [\A l \in Launch : pc[l] \in {"videos", "prepared", "prepFailed"} /\ Stopped(l)
                             /\ pc'[l] # pc[l] /\ pc'[l] # "lost" =>
           (pc'[l] = "cleanup" /\ reqStatus'[l] = "stopped")
             \/ (pc'[l] = "mark" /\ verdict'[l] = "stopped")]_vars
  BY <1>1
<1>. QED BY <1>2, InitType, NextType, PTL DEF Spec, StopIsRecorded
===============================================================================
