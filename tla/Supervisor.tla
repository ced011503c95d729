------------------------------ MODULE Supervisor ------------------------------
(***************************************************************************)
(* The run supervisor: app/core/supervisor.py with the records it writes   *)
(* (app/core/records.py), the run directory it claims (app/core/ids.py)     *)
(* and the endpoints that act on a run (launch, stop and delete of          *)
(* app/api/runs.py).                                                        *)
(*                                                                          *)
(* Every launch runs run_request on a thread of its own.  Key 0 stands for  *)
(* the prepare() child, keys 1..VideoCount for the video children, each     *)
(* driven by a pool worker.  Critical sections under _lock or state.lock    *)
(* are one action; what lies between two of them is not.                    *)
(***************************************************************************)
EXTENDS Naturals, FiniteSets

CONSTANTS
  Workflow, Launch, RunId,
  Stopper,          \* calls of the stop endpoint
  WorkflowOf,       \* the workflow a launch names
  IdsOf,            \* the run ids (UTC seconds and suffixes) a workflow can draw
  VideoCount, Concurrency,
  AtomicWorkflow,   \* workflows whose manifest says atomic
  PrepareWorkflow,  \* workflows whose manifest declares prepare
  StopModes,        \* the stop modes the callers use
  Faults,           \* which failures the environment produces
  NoId, NoLaunch, Free

FaultKinds == {"spawn",     \* Popen raises
               "drain",     \* recording a child's output raises
               "crash"}     \* the chassis process dies

ASSUME SupervisorAssumption ==
  /\ WorkflowOf \in [Launch -> Workflow]
  /\ IdsOf \in [Workflow -> SUBSET RunId]
  /\ VideoCount \in Nat \ {0}
  /\ Concurrency \in Nat
  /\ AtomicWorkflow \subseteq Workflow
  /\ PrepareWorkflow \subseteq Workflow
  /\ StopModes \subseteq {"graceful", "hard"}
  /\ Faults \subseteq FaultKinds
  /\ NoId \notin RunId
  /\ NoLaunch \notin Launch
  /\ Free \notin RunId \cup {NoId}

VARIABLES
  active,     \* _active: the run that holds each workflow (NoId: claimed, not yet named)
  registry,   \* _runs: run id to the state of a live run
  pc, rid, verdict,     \* each run_request thread: position, run_id, status to finish with
  mode, denied, procs,  \* each _RunState: stop_requested and stop_mode, budget_denied, procs
  reqStatus, videos,    \* each request.json, and the statuses it is written from
  videoFile,  \* the status in each video.json
  wpc, outcome,         \* each child's driver: position, status it will record
  child,      \* each runner process, "soft" after the sentinel and the soft signal
  scall, sid, srun, smode, stodo  \* each stop call: position, run id, run found, mode, copy of procs

runVars == <<pc, rid, verdict>>
stateVars == <<mode, denied, procs>>
recordVars == <<reqStatus, videos, videoFile>>
workerVars == <<wpc, outcome>>
stopVars == <<scall, sid, srun, smode, stodo>>
vars == <<active, registry, runVars, stateVars, recordVars, workerVars, child, stopVars>>

Video == 1 .. VideoCount
Key == 0 .. VideoCount
Prep == 0

Settled == {"complete", "failed", "stopped"}
VideoStatus == {"pending", "running"} \cup Settled
Terminal == {"complete", "failed", "partial", "stopped", "stopped-budget"}
ReqStatus == {"none", "allocated", "running", "deleted"} \cup Terminal

Running == {"live", "soft"}
Exited == {"ok", "fail", "denied"}     \* return code 0, another one, EXIT_BUDGET_DENIED

\* Before admission, after it (the launch holds its workflow), and afterwards.
Holding == {"env", "claimed", "register", "create", "preflight", "prepare", "prepared",
            "prepFailed", "videos", "mark", "finish", "cleanup"}
Ended == {"busy", "done", "lost"}
RunPC == {"new"} \cup Holding \cup Ended
WorkerPC == {"queued", "running", "note", "spawn", "enroll", "graceful", "hard", "drain",
             "decide", "record", "publish", "done"}

wf(l) == WorkflowOf[l]
IsPrep(l) == wf(l) \in PrepareWorkflow
Stopped(l) == mode[l] # "no"

\* Launches whose run directory is still there.
OnDisk(l) == reqStatus[l] \notin {"none", "deleted"}
FreeIds(w) == IdsOf[w] \ {rid[l] : l \in {m \in Launch : wf(m) = w /\ OnDisk(m)}}

\* _apply_stop: the sentinel and SIGTERM, or kill_tree; both spare an exited process.
Hit(process, how) == IF process \notin Running THEN process
                     ELSE IF how = "hard" THEN "fail" ELSE "soft"

-------------------------------------------------------------------------------
Init ==
  /\ active = [w \in Workflow |-> Free]
  /\ registry = [id \in RunId |-> NoLaunch]
  /\ pc = [l \in Launch |-> "new"]
  /\ rid = [l \in Launch |-> NoId]
  /\ verdict = [l \in Launch |-> "failed"]
  /\ mode = [l \in Launch |-> "no"]
  /\ denied = [l \in Launch |-> FALSE]
  /\ procs = [l \in Launch |-> {}]
  /\ reqStatus = [l \in Launch |-> "none"]
  /\ videos = [l \in Launch |-> [v \in Video |-> "pending"]]
  /\ videoFile = [l \in Launch |-> [v \in Video |-> "none"]]
  /\ wpc = [l \in Launch |-> [k \in Key |-> "queued"]]
  /\ outcome = [l \in Launch |-> [v \in Video |-> "failed"]]
  /\ child = [l \in Launch |-> [k \in Key |-> "none"]]
  /\ scall = [s \in Stopper |-> "idle"]
  /\ sid = [s \in Stopper |-> NoId]
  /\ srun = [s \in Stopper |-> NoLaunch]
  /\ smode = [s \in Stopper |-> "hard"]
  /\ stodo = [s \in Stopper |-> {}]

-------------------------------------------------------------------------------
(* The run_request thread.                                                 *)

\* Mutant: the busy answer is given inside the try block, whose finally then releases.
AdmitInsideTry(l) ==
  /\ pc[l] = "new"
  /\ IF active[wf(l)] = Free
     THEN active' = [active EXCEPT ![wf(l)] = NoId] /\ pc' = [pc EXCEPT ![l] = "env"]
     ELSE pc' = [pc EXCEPT ![l] = "cleanup"] /\ UNCHANGED active
  /\ UNCHANGED <<registry, rid, verdict, stateVars, recordVars, workerVars, child, stopVars>>

\* The busy check and the claim, one critical section under _lock.
Admit(l) ==
  /\ pc[l] = "new"
  /\ IF active[wf(l)] = Free
     THEN /\ active' = [active EXCEPT ![wf(l)] = NoId]
          /\ pc' = [pc EXCEPT ![l] = "env"]
     ELSE /\ pc' = [pc EXCEPT ![l] = "busy"]
          /\ UNCHANGED active
  /\ UNCHANGED <<registry, rid, verdict, stateVars, recordVars, workerVars, child, stopVars>>

\* ensure_env blocked or raised, or the suffixes of this second are exhausted.
EnvRefused(l) ==
  /\ pc[l] = "env"
  /\ pc' = [pc EXCEPT ![l] = "cleanup"]
  /\ UNCHANGED <<active, registry, rid, verdict, stateVars, recordVars, workerVars, child,
                 stopVars>>

\* allocate_run: the first run directory of the second that mkdir can create.
AllocateRun(l) ==
  /\ pc[l] = "env"
  /\ \E id \in FreeIds(wf(l)) : rid' = [rid EXCEPT ![l] = id]
  /\ reqStatus' = [reqStatus EXCEPT ![l] = "allocated"]
  /\ pc' = [pc EXCEPT ![l] = "claimed"]
  /\ UNCHANGED <<active, registry, verdict, stateVars, videos, videoFile, workerVars, child,
                 stopVars>>

NameActive(l) ==
  /\ pc[l] = "claimed"
  /\ active' = [active EXCEPT ![wf(l)] = rid[l]]
  /\ pc' = [pc EXCEPT ![l] = "register"]
  /\ UNCHANGED <<registry, rid, verdict, stateVars, recordVars, workerVars, child, stopVars>>

RegisterRun(l) ==
  /\ pc[l] = "register"
  /\ registry' = [registry EXCEPT ![rid[l]] = l]
  /\ pc' = [pc EXCEPT ![l] = "create"]
  /\ UNCHANGED <<active, rid, verdict, stateVars, recordVars, workerVars, child, stopVars>>

CreateRequest(l) ==
  /\ pc[l] = "create"
  /\ reqStatus' = [reqStatus EXCEPT ![l] = "running"]
  /\ pc' = [pc EXCEPT ![l] = "preflight"]
  /\ UNCHANGED <<active, registry, rid, verdict, stateVars, videos, videoFile, workerVars,
                 child, stopVars>>

\* check_atomic_budget refuses a run that its estimate does not fit.
PreflightRefused(l) ==
  /\ pc[l] = "preflight"
  /\ wf(l) \in AtomicWorkflow
  /\ verdict' = [verdict EXCEPT ![l] = "stopped-budget"]
  /\ pc' = [pc EXCEPT ![l] = "mark"]
  /\ UNCHANGED <<active, registry, rid, stateVars, recordVars, workerVars, child, stopVars>>

\* on_started, then prepare() or the pool.
PreflightPassed(l) ==
  /\ pc[l] = "preflight"
  /\ IF IsPrep(l)
     THEN /\ pc' = [pc EXCEPT ![l] = "prepare"]
          /\ wpc' = [wpc EXCEPT ![l][Prep] = "spawn"]
     ELSE /\ pc' = [pc EXCEPT ![l] = "videos"]
          /\ UNCHANGED wpc
  /\ UNCHANGED <<active, registry, rid, verdict, stateVars, recordVars, outcome, child, stopVars>>

\* Mutant: the failure of prepare() returns without finishing the request.
PrepareFailedReturns(l) ==
  /\ pc[l] = "prepFailed"
  /\ pc' = [pc EXCEPT ![l] = "cleanup"]
  /\ UNCHANGED <<active, registry, rid, verdict, stateVars, recordVars, workerVars, child,
                 stopVars>>

\* prepare() failed: terminal_flags picks the status to finish with.
PrepareFailed(l) ==
  /\ pc[l] = "prepFailed"
  /\ IF Stopped(l)
     THEN /\ verdict' = [verdict EXCEPT ![l] = "stopped"]
          /\ pc' = [pc EXCEPT ![l] = "mark"]
     ELSE /\ verdict' = [verdict EXCEPT ![l] =
                          IF denied[l] THEN "stopped-budget" ELSE "failed"]
          /\ pc' = [pc EXCEPT ![l] = "finish"]
  /\ UNCHANGED <<active, registry, rid, stateVars, recordVars, workerVars, child, stopVars>>

AfterPrepare(l) ==
  /\ pc[l] = "prepared"
  /\ IF Stopped(l)
     THEN /\ verdict' = [verdict EXCEPT ![l] = "stopped"]
          /\ pc' = [pc EXCEPT ![l] = "mark"]
     ELSE /\ pc' = [pc EXCEPT ![l] = "videos"]
          /\ UNCHANGED verdict
  /\ UNCHANGED <<active, registry, rid, stateVars, recordVars, workerVars, child, stopVars>>

MarkPendingStopped(l) ==
  /\ pc[l] = "mark"
  /\ videos' = [videos EXCEPT ![l] =
                 [v \in Video |-> IF videos[l][v] = "pending" THEN "stopped"
                                  ELSE videos[l][v]]]
  /\ pc' = [pc EXCEPT ![l] = "finish"]
  /\ UNCHANGED <<active, registry, rid, verdict, stateVars, reqStatus, videoFile, workerVars,
                 child, stopVars>>

\* finish_request with an explicit status.
FinishAs(l) ==
  /\ pc[l] = "finish"
  /\ reqStatus' = [reqStatus EXCEPT ![l] = verdict[l]]
  /\ pc' = [pc EXCEPT ![l] = "cleanup"]
  /\ UNCHANGED <<active, registry, rid, verdict, stateVars, videos, videoFile, workerVars,
                 child, stopVars>>

\* Mutants: the budget comes before the stop; one complete video completes the run.
AggregateBudgetFirst(l) ==
  IF denied[l] THEN "stopped-budget" ELSE IF Stopped(l) THEN "stopped"
  ELSE IF \A v \in Video : videos[l][v] = "complete" THEN "complete" ELSE "failed"

AggregateAnyComplete(l) ==
  IF Stopped(l) THEN "stopped" ELSE IF denied[l] THEN "stopped-budget"
  ELSE IF \E v \in Video : videos[l][v] = "complete" THEN "complete" ELSE "failed"

AggregateStatus(l) ==
  LET every(status) == \A v \in Video : videos[l][v] = status
  IN  IF Stopped(l) THEN "stopped"
      ELSE IF denied[l] THEN "stopped-budget"
      ELSE IF every("complete") THEN "complete"
      ELSE IF wf(l) \in AtomicWorkflow \/ every("failed") THEN "failed"
      ELSE "partial"

\* The pool is drained: finish_request aggregates the videos' statuses.
FinishPool(l) ==
  /\ pc[l] = "videos"
  /\ \A v \in Video : wpc[l][v] = "done"
  /\ reqStatus' = [reqStatus EXCEPT ![l] = AggregateStatus(l)]
  /\ pc' = [pc EXCEPT ![l] = "cleanup"]
  /\ UNCHANGED <<active, registry, rid, verdict, stateVars, videos, videoFile, workerVars,
                 child, stopVars>>

\* The finally block: the workflow is released and the run forgotten.
Cleanup(l) ==
  /\ pc[l] = "cleanup"
  /\ active' = IF active[wf(l)] \in {NoId, rid[l]} THEN [active EXCEPT ![wf(l)] = Free]
               ELSE active
  /\ registry' = IF rid[l] # NoId THEN [registry EXCEPT ![rid[l]] = NoLaunch] ELSE registry
  /\ pc' = [pc EXCEPT ![l] = "done"]
  /\ UNCHANGED <<rid, verdict, stateVars, recordVars, workerVars, child, stopVars>>

-------------------------------------------------------------------------------
(* The drivers of the children: _run_prepare (key 0) and _run_one_video.   *)

Driving(l, k) == pc[l] = IF k = Prep THEN "prepare" ELSE "videos"
InFlight(l) == {v \in Video : wpc[l][v] \notin {"queued", "done"}}
Workers == IF Concurrency = 0 THEN 1 ELSE Concurrency

\* A pool thread takes the next video and looks at the stop flag.
StartVideo(l, v) ==
  /\ Driving(l, v)
  /\ wpc[l][v] = "queued"
  /\ \A u \in Video : u < v => wpc[l][u] # "queued"
  /\ Cardinality(InFlight(l)) < Workers
  /\ IF Stopped(l)
     THEN /\ videos' = [videos EXCEPT ![l][v] = "stopped"]
          /\ wpc' = [wpc EXCEPT ![l][v] = "done"]
     ELSE /\ wpc' = [wpc EXCEPT ![l][v] = "running"]
          /\ UNCHANGED videos
  /\ UNCHANGED <<active, registry, runVars, stateVars, reqStatus, videoFile, outcome, child,
                 stopVars>>

SetRunning(l, v) ==
  /\ Driving(l, v)
  /\ wpc[l][v] = "running"
  /\ videos' = [videos EXCEPT ![l][v] = "running"]
  /\ wpc' = [wpc EXCEPT ![l][v] = "note"]
  /\ UNCHANGED <<active, registry, runVars, stateVars, reqStatus, videoFile, outcome, child,
                 stopVars>>

NoteRunning(l, v) ==
  /\ Driving(l, v)
  /\ wpc[l][v] = "note"
  /\ videoFile' = [videoFile EXCEPT ![l][v] = "running"]
  /\ wpc' = [wpc EXCEPT ![l][v] = "spawn"]
  /\ UNCHANGED <<active, registry, runVars, stateVars, reqStatus, videos, outcome, child,
                 stopVars>>

StartRunner(l, k) ==
  /\ Driving(l, k)
  /\ wpc[l][k] = "spawn"
  /\ child' = [child EXCEPT ![l][k] = "live"]
  /\ wpc' = [wpc EXCEPT ![l][k] = "enroll"]
  /\ UNCHANGED <<active, registry, runVars, stateVars, recordVars, outcome, stopVars>>

\* Mutant: the mode of an earlier stop is not returned.
RegisterProcBlind(l, k) ==
  /\ Driving(l, k)
  /\ wpc[l][k] = "enroll"
  /\ procs' = [procs EXCEPT ![l] = @ \cup {k}]
  /\ wpc' = [wpc EXCEPT ![l][k] = "drain"]
  /\ UNCHANGED <<active, registry, runVars, mode, denied, recordVars, outcome, child, stopVars>>

\* register_proc returns the mode of a stop that came before it.
RegisterProc(l, k) ==
  /\ Driving(l, k)
  /\ wpc[l][k] = "enroll"
  /\ procs' = [procs EXCEPT ![l] = @ \cup {k}]
  /\ wpc' = [wpc EXCEPT ![l][k] = IF Stopped(l) THEN mode[l] ELSE "drain"]
  /\ UNCHANGED <<active, registry, runVars, mode, denied, recordVars, outcome, child, stopVars>>

ApplyPending(l, k) ==
  /\ Driving(l, k)
  /\ wpc[l][k] \in {"graceful", "hard"}
  /\ child' = [child EXCEPT ![l][k] = Hit(@, wpc[l][k])]
  /\ wpc' = [wpc EXCEPT ![l][k] = "drain"]
  /\ UNCHANGED <<active, registry, runVars, stateVars, recordVars, outcome, stopVars>>

\* Mutant: the end of the output is taken for the end of the process.
ReapWithoutWait(l, v) ==
  /\ v # Prep /\ Driving(l, v)
  /\ wpc[l][v] = "drain"
  /\ procs' = [procs EXCEPT ![l] = @ \ {v}]
  /\ wpc' = [wpc EXCEPT ![l][v] = "decide"]
  /\ UNCHANGED <<active, registry, runVars, mode, denied, recordVars, outcome, child, stopVars>>

\* The output ended and the process was waited for.
Reap(l, v) ==
  /\ v # Prep /\ Driving(l, v)
  /\ wpc[l][v] = "drain"
  /\ child[l][v] \in Exited
  /\ procs' = [procs EXCEPT ![l] = @ \ {v}]
  /\ wpc' = [wpc EXCEPT ![l][v] = "decide"]
  /\ UNCHANGED <<active, registry, runVars, mode, denied, recordVars, outcome, child, stopVars>>

\* mark_budget_denied, was_stopped and the status that follows from them.
Decide(l, v) ==
  /\ Driving(l, v)
  /\ wpc[l][v] = "decide"
  /\ denied' = IF child[l][v] = "denied" THEN [denied EXCEPT ![l] = TRUE] ELSE denied
  /\ outcome' = [outcome EXCEPT ![l][v] =
                  IF Stopped(l) \/ child[l][v] = "denied" THEN "stopped"
                  ELSE IF child[l][v] = "ok" THEN "complete" ELSE "failed"]
  /\ wpc' = [wpc EXCEPT ![l][v] = "record"]
  /\ UNCHANGED <<active, registry, runVars, mode, procs, recordVars, child, stopVars>>

RecordVideo(l, v) ==
  /\ Driving(l, v)
  /\ wpc[l][v] = "record"
  /\ videoFile' = [videoFile EXCEPT ![l][v] = outcome[l][v]]
  /\ wpc' = [wpc EXCEPT ![l][v] = "publish"]
  /\ UNCHANGED <<active, registry, runVars, stateVars, reqStatus, videos, outcome, child,
                 stopVars>>

\* Mutant: the stop flag is read a second time between the two files.
SetVideoRereads(l, v) ==
  /\ Driving(l, v)
  /\ wpc[l][v] = "publish"
  /\ videos' = [videos EXCEPT ![l][v] = IF Stopped(l) THEN "stopped" ELSE outcome[l][v]]
  /\ wpc' = [wpc EXCEPT ![l][v] = "done"]
  /\ UNCHANGED <<active, registry, runVars, stateVars, reqStatus, videoFile, outcome, child,
                 stopVars>>

SetVideo(l, v) ==
  /\ Driving(l, v)
  /\ wpc[l][v] = "publish"
  /\ videos' = [videos EXCEPT ![l][v] = outcome[l][v]]
  /\ wpc' = [wpc EXCEPT ![l][v] = "done"]
  /\ UNCHANGED <<active, registry, runVars, stateVars, reqStatus, videoFile, outcome, child,
                 stopVars>>

\* prepare() ended: it needs return code 0 and a usable result file.
ReapPrepare(l) ==
  /\ Driving(l, Prep)
  /\ wpc[l][Prep] = "drain"
  /\ child[l][Prep] \in Exited
  /\ denied' = IF child[l][Prep] = "denied" THEN [denied EXCEPT ![l] = TRUE] ELSE denied
  /\ procs' = [procs EXCEPT ![l] = @ \ {Prep}]
  /\ wpc' = [wpc EXCEPT ![l][Prep] = "done"]
  /\ \/ child[l][Prep] = "ok" /\ pc' = [pc EXCEPT ![l] = "prepared"]
     \/ pc' = [pc EXCEPT ![l] = "prepFailed"]
  /\ UNCHANGED <<active, registry, rid, verdict, mode, recordVars, outcome, child, stopVars>>

\* An exception in the driver.  The child's registration is dropped, the child is not killed.
Raises(l, k) == \/ wpc[l][k] = "spawn" /\ "spawn" \in Faults
                \/ wpc[l][k] = "drain" /\ "drain" \in Faults

RaiseInVideo(l, v) ==
  /\ v # Prep /\ Driving(l, v)
  /\ Raises(l, v)
  /\ procs' = [procs EXCEPT ![l] = @ \ {v}]
  /\ outcome' = [outcome EXCEPT ![l][v] = IF Stopped(l) THEN "stopped" ELSE "failed"]
  /\ wpc' = [wpc EXCEPT ![l][v] = "record"]
  /\ UNCHANGED <<active, registry, runVars, mode, denied, recordVars, child, stopVars>>

\* _run_prepare has no handler: the exception leaves run_request through its finally.
RaiseInPrepare(l) ==
  /\ Driving(l, Prep)
  /\ Raises(l, Prep)
  /\ procs' = [procs EXCEPT ![l] = @ \ {Prep}]
  /\ wpc' = [wpc EXCEPT ![l][Prep] = "done"]
  /\ pc' = [pc EXCEPT ![l] = "cleanup"]
  /\ UNCHANGED <<active, registry, rid, verdict, mode, denied, recordVars, outcome, child,
                 stopVars>>

-------------------------------------------------------------------------------
(* The children, the endpoints and the chassis process.                    *)

\* A child ends by itself, by the silence watchdog or after the soft signal.
ChildExit(l, k) ==
  /\ child[l][k] \in Running
  /\ \E code \in Exited : child' = [child EXCEPT ![l][k] = code]
  /\ UNCHANGED <<active, registry, runVars, stateVars, recordVars, workerVars, stopVars>>

\* stop(): the lookup under _lock ...
StopLookup(s) ==
  /\ scall[s] = "idle"
  /\ \E id \in RunId, how \in StopModes :
       /\ sid' = [sid EXCEPT ![s] = id]
       /\ smode' = [smode EXCEPT ![s] = how]
       /\ srun' = [srun EXCEPT ![s] = registry[id]]
       /\ scall' = [scall EXCEPT ![s] = IF registry[id] = NoLaunch THEN "notRunning"
                                        ELSE "found"]
  /\ UNCHANGED <<active, registry, runVars, stateVars, recordVars, workerVars, child, stodo>>

\* ... request_stop under state.lock, which copies procs ...
RequestStop(s) ==
  /\ scall[s] = "found"
  /\ mode' = [mode EXCEPT ![srun[s]] = smode[s]]
  /\ stodo' = [stodo EXCEPT ![s] = procs[srun[s]]]
  /\ scall' = [scall EXCEPT ![s] = "apply"]
  /\ UNCHANGED <<active, registry, runVars, denied, procs, recordVars, workerVars, child,
                 sid, srun, smode>>

\* ... and _apply_stop on each process of the copy, with no lock held.
ApplyStop(s) ==
  /\ scall[s] = "apply"
  /\ \E k \in stodo[s] :
       /\ child' = [child EXCEPT ![srun[s]][k] = Hit(@, smode[s])]
       /\ stodo' = [stodo EXCEPT ![s] = @ \ {k}]
  /\ UNCHANGED <<active, registry, runVars, stateVars, recordVars, workerVars,
                 scall, sid, srun, smode>>

StopAccepted(s) ==
  /\ scall[s] = "apply"
  /\ stodo[s] = {}
  /\ scall' = [scall EXCEPT ![s] = "accepted"]
  /\ UNCHANGED <<active, registry, runVars, stateVars, recordVars, workerVars, child,
                 sid, srun, smode, stodo>>

\* delete_run and each deletion of clear_failed_runs: the record's status is the only guard.
DeleteRun(l) ==
  /\ reqStatus[l] \in Terminal
  /\ reqStatus' = [reqStatus EXCEPT ![l] = "deleted"]
  /\ UNCHANGED <<active, registry, runVars, stateVars, videos, videoFile, workerVars, child,
                 stopVars>>

\* The chassis dies and is started again: threads and module globals are gone, the files
\* and the children, each in a session of its own, are not.
Crash ==
  /\ "crash" \in Faults
  /\ \E l \in Launch : pc[l] \in Holding
  /\ pc' = [l \in Launch |-> IF pc[l] \in Holding THEN "lost" ELSE pc[l]]
  /\ active' = [w \in Workflow |-> Free]
  /\ registry' = [id \in RunId |-> NoLaunch]
  /\ scall' = [s \in Stopper |-> IF scall[s] \in {"found", "apply"} THEN "lost" ELSE scall[s]]
  /\ UNCHANGED <<rid, verdict, stateVars, recordVars, workerVars, child,
                 sid, srun, smode, stodo>>

\* Every request was served and every call answered: nothing is left to happen.
Quiescent ==
  /\ \A l \in Launch : pc[l] \in Ended /\ \A k \in Key : child[l][k] \notin Running
  /\ UNCHANGED vars

-------------------------------------------------------------------------------
RunStep(l) ==
  \/ Admit(l) \/ EnvRefused(l) \/ AllocateRun(l) \/ NameActive(l) \/ RegisterRun(l)
  \/ CreateRequest(l) \/ PreflightRefused(l) \/ PreflightPassed(l) \/ PrepareFailed(l)
  \/ AfterPrepare(l) \/ MarkPendingStopped(l) \/ FinishAs(l) \/ FinishPool(l) \/ Cleanup(l)

DriverStep(l, k) ==
  \/ StartRunner(l, k) \/ RegisterProc(l, k) \/ ApplyPending(l, k)

VideoStep(l, v) ==
  \/ StartVideo(l, v) \/ SetRunning(l, v) \/ NoteRunning(l, v) \/ Reap(l, v) \/ Decide(l, v)
  \/ RecordVideo(l, v) \/ SetVideo(l, v)

StopStep(s) == RequestStop(s) \/ ApplyStop(s) \/ StopAccepted(s)

Next ==
  \/ \E l \in Launch :
       \/ RunStep(l) \/ ReapPrepare(l) \/ RaiseInPrepare(l) \/ DeleteRun(l)
       \/ \E k \in Key : DriverStep(l, k) \/ ChildExit(l, k)
       \/ \E v \in Video : VideoStep(l, v) \/ RaiseInVideo(l, v)
  \/ \E s \in Stopper : StopLookup(s) \/ StopStep(s)
  \/ Crash
  \/ Quiescent

Spec == Init /\ [][Next]_vars

\* The threads run; nothing obliges a child to end, except the default action of the
\* soft signal (the runner installs no handler).
Fairness ==
  /\ \A l \in Launch :
       /\ WF_vars(RunStep(l)) /\ WF_vars(ReapPrepare(l))
       /\ \A k \in Key : WF_vars(DriverStep(l, k))
       /\ \A v \in Video : WF_vars(VideoStep(l, v))
  /\ \A s \in Stopper : WF_vars(StopStep(s))

SoftExit(l, k) == child[l][k] = "soft" /\ ChildExit(l, k)

FairSpec == Spec /\ Fairness
FairSoftSpec == FairSpec /\ \A l \in Launch, k \in Key : WF_vars(SoftExit(l, k))

-------------------------------------------------------------------------------
(* Properties.                                                             *)

\* Every variable has its type; a stop past its lookup has a run to act on.
TypeOK ==
  /\ active \in [Workflow -> RunId \cup {NoId, Free}]
  /\ registry \in [RunId -> Launch \cup {NoLaunch}]
  /\ pc \in [Launch -> RunPC]
  /\ rid \in [Launch -> RunId \cup {NoId}]
  /\ verdict \in [Launch -> {"failed", "stopped", "stopped-budget"}]
  /\ mode \in [Launch -> {"no", "graceful", "hard"}]
  /\ denied \in [Launch -> BOOLEAN]
  /\ procs \in [Launch -> SUBSET Key]
  /\ reqStatus \in [Launch -> ReqStatus]
  /\ videos \in [Launch -> [Video -> VideoStatus]]
  /\ videoFile \in [Launch -> [Video -> VideoStatus \cup {"none"}]]
  /\ wpc \in [Launch -> [Key -> WorkerPC]]
  /\ outcome \in [Launch -> [Video -> Settled]]
  /\ child \in [Launch -> [Key -> {"none"} \cup Running \cup Exited]]
  /\ scall \in [Stopper -> {"idle", "found", "apply", "accepted", "notRunning", "lost"}]
  /\ sid \in [Stopper -> RunId \cup {NoId}]
  /\ srun \in [Stopper -> Launch \cup {NoLaunch}]
  /\ smode \in [Stopper -> {"graceful", "hard"}]
  /\ stodo \in [Stopper -> SUBSET Key]
  /\ \A s \in Stopper : scall[s] \in {"found", "apply"} => srun[s] \in Launch

\* A stop of run l has still to reach the child of key k.
Coming(l, k) == \E s \in Stopper : /\ scall[s] = "apply"
                                  /\ srun[s] = l
                                  /\ k \in stodo[s]

\* Stopping and spawning race: a child started around a stop is hit by the stop's own
\* pass over procs or by the pending mode register_proc returns, whichever comes.  Once
\* neither is outstanding, no child being drained runs on unaware of the stop, and after
\* a hard stop none runs at all.
StopReachesChildren ==
  \A l \in Launch, k \in Key :
    (Stopped(l) /\ Driving(l, k) /\ wpc[l][k] = "drain" /\ ~Coming(l, k)) =>
      child[l][k] \in IF mode[l] = "hard" THEN Exited ELSE Exited \cup {"soft"}

\* No child outlives its run: a process that still runs belongs to a run that holds its
\* workflow (so no later run of the workflow can start beside it) and that the stop
\* endpoint still finds.
LiveChildIsOwned ==
  \A l \in Launch : (\E k \in Key : child[l][k] \in Running) =>
    pc[l] \in Holding /\ active[wf(l)] = rid[l] /\ registry[rid[l]] = l

\* A workflow is marked as held exactly while one run_request is past admission: never two
\* at a time, never none (a slot nobody will release), across claims, naming, early
\* returns, exceptions, the release in finally and a restart.
SlotIsExclusive ==
  /\ \A l, m \in Launch :
       wf(l) = wf(m) /\ pc[l] \in Holding /\ pc[m] \in Holding => l = m
  /\ \A w \in Workflow :
       active[w] # Free <=> \E l \in Launch : wf(l) = w /\ pc[l] \in Holding

\* request.json and the video.json files are written apart: in a settled run they agree,
\* and a video without a file was never started.
RecordsAgree ==
  \A l \in Launch : reqStatus[l] \in Terminal =>
    \A v \in Video :
      IF videoFile[l][v] = "none" THEN videos[l][v] \in {"pending", "stopped"}
      ELSE videoFile[l][v] = videos[l][v]

\* A video recorded as complete ran to return code 0, and no stop was known when its
\* status was decided: in a run that settled as complete every video earned it.
CompleteIsEarned ==
  \A l \in Launch : reqStatus[l] \in {"complete", "partial"} =>
    \A v \in Video : videos[l][v] = "complete" => child[l][v] = "ok"

\* The invariant of the records: the state is typed, the two records of a video agree, and
\* what they say was earned.
RecordsInv == TypeOK /\ RecordsAgree /\ CompleteIsEarned

\* A run that ended by itself left a settled record behind.
EndedRunIsSettled ==
  \A l \in Launch : pc[l] = "done" /\ rid[l] # NoId =>
    reqStatus[l] \in Terminal \cup {"deleted"}

\* A stop reaches the record readers: a stop the run knew of when its pool drained, or
\* when prepare() returned, is what the run is recorded as.
StopIsRecorded ==
  [][\A l \in Launch : pc[l] \in {"videos", "prepared", "prepFailed"} /\ Stopped(l)
                         /\ pc'[l] # pc[l] /\ pc'[l] # "lost" =>
       (pc'[l] = "cleanup" /\ reqStatus'[l] = "stopped")
         \/ (pc'[l] = "mark" /\ verdict'[l] = "stopped")]_vars

\* What request.json promises its readers.
Contract == INSTANCE RunContract WITH
  Run <- Launch, AtomicRun <- {l \in Launch : wf(l) \in AtomicWorkflow}

RecordsKeepTheContract == Contract!ContractSpec

\* A stop ends the run: the run thread leaves, whatever its children do by themselves.
StopEnds == \A l \in Launch : Stopped(l) ~> pc[l] \in Ended

-------------------------------------------------------------------------------
(* The inductive invariants behind the properties (SupervisorProofs).      *)

\* What _active holds for a run past admission.
SlotInv ==
  /\ SlotIsExclusive
  /\ \A l \in Launch : pc[l] \in {"new", "env", "busy"} => rid[l] = NoId
  /\ \A l \in Launch : pc[l] \in Holding =>
       active[wf(l)] = IF pc[l] = "claimed" THEN NoId ELSE rid[l]

ComingHard(l, k) == \E s \in Stopper : /\ scall[s] = "apply"
                                      /\ srun[s] = l
                                      /\ smode[s] = "hard"
                                      /\ k \in stodo[s]

\* Every registered child is in the copy a later stop takes, every stop that has not hit
\* it yet is on its way, and a hard one is not undone by a graceful one.
StopInv ==
  /\ \A l \in Launch : pc[l] = "new" => \A k \in Key : wpc[l][k] = "queued"
  /\ \A l \in Launch, k \in Key :
       /\ wpc[l][k] \in {"graceful", "hard", "drain"} => k \in procs[l]
       /\ wpc[l][k] \in {"enroll", "graceful", "hard", "drain"} => child[l][k] # "none"
  /\ \A l \in Launch : pc[l] \in Holding => \A k \in Key :
       /\ wpc[l][k] \in {"graceful", "drain"} /\ mode[l] = "hard" =>
            ComingHard(l, k) \/ child[l][k] \in Exited
       /\ wpc[l][k] = "drain" /\ Stopped(l) =>
            Coming(l, k) \/ child[l][k] \in Exited \cup {"soft"}

Early == {"new", "env", "busy", "claimed", "register", "create"}
Underway == {"preflight", "prepare", "prepared", "prepFailed", "mark", "videos", "finish"}

\* The record of a run follows its thread, the video's statuses follow their drivers.
RecordInv ==
  \A l \in Launch :
    /\ pc[l] \in {"new", "env", "busy"} => reqStatus[l] = "none"
    /\ pc[l] \in {"claimed", "register", "create"} => reqStatus[l] = "allocated"
    /\ pc[l] \in Underway => reqStatus[l] = "running"
    /\ pc[l] \in Early \cup (Underway \ {"videos", "finish"}) =>
         \A v \in Video : wpc[l][v] = "queued" /\ videos[l][v] = "pending"
    /\ pc[l] = "mark" => verdict[l] \in {"stopped", "stopped-budget"}
    /\ pc[l] = "finish" =>
         \/ /\ verdict[l] \in {"stopped", "stopped-budget"}
            /\ \A v \in Video : videos[l][v] = "stopped"
         \/ /\ verdict[l] \in {"failed", "stopped-budget"}
            /\ \A v \in Video : videos[l][v] = "pending"
    /\ pc[l] = "videos" => \A v \in Video :
         /\ wpc[l][v] \in {"queued", "running"} => videos[l][v] = "pending"
         /\ wpc[l][v] \notin {"queued", "running", "done"} => videos[l][v] = "running"
         /\ wpc[l][v] = "done" => videos[l][v] \in Settled
===============================================================================
