--------------------------------- MODULE Gates ---------------------------------
(***************************************************************************)
(* Approval gates and the silence watchdog of one video: run_gate of         *)
(* sdk/sfvf/gate.py in the child process, the reader of the child's output   *)
(* (_consume_stdout), the watchdog beside it (_watch_silence), and the API   *)
(* that lists gates and takes decisions (app/api/runs.py).  A token is the   *)
(* occurrence number of a gate of the one family.  A tick is longer than the *)
(* watchdog's interval, and the reader keeps up with the child.              *)
(***************************************************************************)
EXTENDS Naturals, Sequences, SequencesExt, FiniteSets

CONSTANTS
  Thread,    \* the threads of the workflow that run steps and ask gates
  User,      \* concurrent calls of submit_gate
  Family,    \* the step families
  Limit,     \* of each family: the silence it is allowed, in ticks
  Default,   \* the limit while no family is known
  MaxGates, MaxPipe, MaxAge,  \* bound the gates asked, the lines in the pipe, the ticks counted
  None

Token == 0 .. MaxGates - 1
Decision == {"approve", "reject"}
Limits == {Limit[f] : f \in Family} \cup {Default}

GateLine(k) == [t |-> "gate", token |-> k]
StepLine(f) == [t |-> "step", name |-> f]
OtherLine == [t |-> "heartbeat"]
Lines == {GateLine(k) : k \in Token} \cup {StepLine(f) : f \in Family} \cup {OtherLine}

ASSUME GatesAssumption ==
  /\ Thread # {}
  /\ MaxGates \in Nat /\ MaxPipe \in Nat \ {0} /\ Default \in Nat \ {0}
  /\ Limit \in [Family -> Nat \ {0}]
  /\ MaxAge \in Nat /\ \A n \in Limits : n < MaxAge
  /\ None \notin Decision \cup Family /\ None \notin Token /\ None \notin Lines

VARIABLES
  alive,      \* the child process runs
  pc, step, token,   \* of each thread: its position, its step, the gate it is at
  taken,      \* of each gate: the decision a thread took
  auto,       \* gates_auto: the run passes its gates by itself
  count,      \* _gate_counts
  pipe, hand, \* lines written and not read; the line noted and not recorded yet
  asked,      \* the gates events.jsonl tells of
  answer,     \* of each gate: the response file
  stopped,    \* the stop sentinel is there
  form,       \* of each call of submit_gate: the gate it found pending
  age,        \* ticks since last_activity
  family, gateOpen,   \* current_family and gate_open
  watch       \* the watchdog: "sleep", "kill" (decided), "done"

childVars == <<pc, step, token, taken, count>>
readVars == <<hand, asked>>
silenceVars == <<age, family, gateOpen>>
vars == <<alive, childVars, auto, pipe, readVars, answer, stopped, form, silenceVars, watch>>

Init ==
  /\ alive = TRUE
  /\ pc = [t \in Thread |-> "run"]
  /\ step \in [Thread -> Family]
  /\ token = [t \in Thread |-> None]
  /\ taken = [k \in Token |-> None]
  /\ auto \in BOOLEAN
  /\ count = 0
  /\ pipe = <<>> /\ hand = None /\ asked = {}
  /\ answer = [k \in Token |-> None]
  /\ stopped = FALSE
  /\ form = [u \in User |-> None]
  /\ age = 0 /\ family = None /\ gateOpen = FALSE
  /\ watch = "sleep"

-------------------------------------------------------------------------------
(* The child.                                                              *)

Go(t, from, to) == alive /\ pc[t] = from /\ pc' = [pc EXCEPT ![t] = to]
Emit(line) == Len(pipe) < MaxPipe /\ pipe' = Append(pipe, line)

\* A step that has to be computed says nothing when it begins.
BeginStep(t) ==
  /\ Go(t, "run", "step")
  /\ \E f \in Family : step' = [step EXCEPT ![t] = f]
  /\ UNCHANGED <<alive, token, taken, count, auto, pipe, readVars, answer, stopped, form,
                 silenceVars, watch>>

Heartbeat(t) ==
  /\ Go(t, "step", "step") /\ Emit(OtherLine)
  /\ UNCHANGED <<alive, step, token, taken, count, auto, readVars, answer, stopped, form,
                 silenceVars, watch>>

EndStep(t) ==
  /\ Go(t, "step", "run") /\ Emit(StepLine(step[t]))
  /\ UNCHANGED <<alive, step, token, taken, count, auto, readVars, answer, stopped, form,
                 silenceVars, watch>>

\* Mutant: the occurrence is not counted.
AskForgets(t) ==
  /\ count < MaxGates /\ Go(t, "run", "ask")
  /\ token' = [token EXCEPT ![t] = count]
  /\ UNCHANGED <<alive, step, taken, count, auto, pipe, readVars, answer, stopped, form,
                 silenceVars, watch>>

\* The occurrence is taken under _GATE_COUNTS_LOCK.
Ask(t) ==
  /\ count < MaxGates /\ Go(t, "run", "ask")
  /\ token' = [token EXCEPT ![t] = count]
  /\ count' = count + 1
  /\ UNCHANGED <<alive, step, taken, auto, pipe, readVars, answer, stopped, form, silenceVars,
                 watch>>

Finish(t, from, d) ==
  /\ Go(t, from, IF d = "reject" THEN "out" ELSE "run")
  /\ taken' = [taken EXCEPT ![token[t]] = d]
  /\ token' = [token EXCEPT ![t] = None]

\* An answer that is there already is replayed, an automatic run writes one, else the gate is told.
Open(t) ==
  /\ pc[t] = "ask"
  /\ \/ /\ answer[token[t]] # None
        /\ Finish(t, "ask", answer[token[t]])
        /\ UNCHANGED <<pipe, answer>>
     \/ /\ answer[token[t]] = None /\ auto
        /\ \E d \in Decision : /\ answer' = [answer EXCEPT ![token[t]] = d]
                               /\ Finish(t, "ask", d)
        /\ UNCHANGED pipe
     \/ /\ answer[token[t]] = None /\ ~auto
        /\ Go(t, "ask", "wait") /\ Emit(GateLine(token[t]))
        /\ UNCHANGED <<token, taken, answer>>
  /\ UNCHANGED <<alive, step, count, auto, readVars, stopped, form, silenceVars, watch>>

\* One look at the response file, and one at the sentinel.
Poll(t) ==
  /\ pc[t] = "wait"
  /\ \/ answer[token[t]] # None /\ Finish(t, "wait", answer[token[t]])
     \/ answer[token[t]] = None /\ Go(t, "wait", "stop?") /\ UNCHANGED <<taken, token>>
  /\ UNCHANGED <<alive, step, count, auto, pipe, readVars, answer, stopped, form, silenceVars,
                 watch>>

\* Mutant: the sentinel is not looked for.
PollStopNever(t) ==
  /\ Go(t, "stop?", "wait")
  /\ UNCHANGED <<alive, step, token, taken, count, auto, pipe, readVars, answer, stopped, form,
                 silenceVars, watch>>

PollStop(t) ==
  /\ Go(t, "stop?", IF stopped THEN "out" ELSE "wait")
  /\ token' = [token EXCEPT ![t] = IF stopped THEN None ELSE token[t]]
  /\ UNCHANGED <<alive, step, taken, count, auto, pipe, readVars, answer, stopped, form,
                 silenceVars, watch>>

\* The process ends: it returns, fails, or a signal ends it.
Die ==
  /\ alive
  /\ alive' = FALSE
  /\ UNCHANGED <<childVars, auto, pipe, readVars, answer, stopped, form, silenceVars, watch>>

-------------------------------------------------------------------------------
(* The supervisor: the reader and the watchdog.                            *)

\* Mutant: a gate counts only while no step has been heard of.
NoteFirstGate ==
  /\ pipe # <<>> /\ hand = None
  /\ hand' = Head(pipe) /\ pipe' = Tail(pipe)
  /\ age' = 0
  /\ gateOpen' = (Head(pipe).t = "gate" /\ family = None)
  /\ family' = IF Head(pipe).t = "step" THEN Head(pipe).name ELSE family
  /\ UNCHANGED <<alive, childVars, auto, asked, answer, stopped, form, watch>>

\* silence.note(), under its lock.
Note ==
  /\ pipe # <<>> /\ hand = None
  /\ hand' = Head(pipe) /\ pipe' = Tail(pipe)
  /\ age' = 0
  /\ gateOpen' = (Head(pipe).t = "gate")
  /\ family' = IF Head(pipe).t = "step" THEN Head(pipe).name ELSE family
  /\ UNCHANGED <<alive, childVars, auto, asked, answer, stopped, form, watch>>

Record ==
  /\ hand # None
  /\ asked' = IF hand.t = "gate" THEN asked \cup {hand.token} ELSE asked
  /\ hand' = None
  /\ UNCHANGED <<alive, childVars, auto, pipe, answer, stopped, form, silenceVars, watch>>

LimitNow == IF family = None THEN Default ELSE Limit[family]
Overdue == ~gateOpen /\ age > LimitNow
Drained == ~alive /\ pipe = <<>> /\ hand = None

\* Mutant: an open gate ends the watchdog.
CheckReturnsAtGate ==
  /\ watch = "sleep"
  /\ watch' = IF gateOpen \/ ~alive THEN "done" ELSE IF Overdue THEN "kill" ELSE "sleep"
  /\ UNCHANGED <<alive, childVars, auto, pipe, readVars, answer, stopped, form, silenceVars>>

\* The watchdog wakes: an ended child or the end of the output ends it too.
Check ==
  /\ watch = "sleep"
  /\ watch' = IF ~alive THEN "done" ELSE IF Overdue THEN "kill" ELSE "sleep"
  /\ UNCHANGED <<alive, childVars, auto, pipe, readVars, answer, stopped, form, silenceVars>>

\* It releases the lock, records the line, and kills the tree if the child still runs.
Kill ==
  /\ watch = "kill" /\ watch' = "done"
  /\ alive' = FALSE
  /\ UNCHANGED <<childVars, auto, pipe, readVars, answer, stopped, form, silenceVars>>

\* Time passes: the reader has read what there is and the watchdog has looked.
Tick ==
  /\ alive /\ pipe = <<>> /\ hand = None
  /\ watch # "kill" /\ (watch = "sleep" => ~Overdue)
  /\ age < MaxAge /\ age' = age + 1
  /\ UNCHANGED <<alive, childVars, auto, pipe, readVars, answer, stopped, form, family, gateOpen,
                 watch>>

-------------------------------------------------------------------------------
(* The API: gates and stops.                                               *)

Pending == {k \in asked : answer[k] = None}

\* Mutant: every gate the log tells of can be answered.
FindGateOfAny(u) ==
  /\ form[u] = None
  /\ \E k \in asked : form' = [form EXCEPT ![u] = k]
  /\ UNCHANGED <<alive, childVars, auto, pipe, readVars, answer, stopped, silenceVars, watch>>

\* submit_gate looks for the gate in the event log, its response file not there yet.
FindGate(u) ==
  /\ form[u] = None
  /\ \E k \in Pending : form' = [form EXCEPT ![u] = k]
  /\ UNCHANGED <<alive, childVars, auto, pipe, readVars, answer, stopped, silenceVars, watch>>

\* It checks the decision against the shape and writes the response file.
Submit(u) ==
  /\ form[u] # None
  /\ form' = [form EXCEPT ![u] = None]
  /\ \E d \in Decision : answer' = [answer EXCEPT ![form[u]] = d]
  /\ UNCHANGED <<alive, childVars, auto, pipe, readVars, stopped, silenceVars, watch>>

Stop ==
  /\ ~stopped /\ stopped' = TRUE
  /\ UNCHANGED <<alive, childVars, auto, pipe, readVars, answer, form, silenceVars, watch>>

Quiescent == Drained /\ watch = "done" /\ UNCHANGED vars

Step(t) == BeginStep(t) \/ Heartbeat(t) \/ EndStep(t)
AtAGate(t) == Open(t) \/ Poll(t) \/ PollStop(t)

Next ==
  \/ \E t \in Thread : Step(t) \/ Ask(t) \/ AtAGate(t)
  \/ Die \/ Note \/ Record \/ Check \/ Kill \/ Tick
  \/ \E u \in User : FindGate(u) \/ Submit(u)
  \/ Stop \/ Quiescent

\* The SDK's polling loop, the supervisor's threads and time go on; the workflow's own steps
\* may hang, and users owe nothing.
Fairness ==
  /\ \A t \in Thread : WF_vars(AtAGate(t))
  /\ WF_vars(Note) /\ WF_vars(Record) /\ WF_vars(Check) /\ WF_vars(Kill) /\ WF_vars(Tick)

Spec == Init /\ [][Next]_vars /\ Fairness

-------------------------------------------------------------------------------
(* Properties.                                                             *)

TypeOK ==
  /\ alive \in BOOLEAN /\ auto \in BOOLEAN /\ stopped \in BOOLEAN /\ gateOpen \in BOOLEAN
  /\ pc \in [Thread -> {"run", "step", "ask", "wait", "stop?", "out"}]
  /\ step \in [Thread -> Family] /\ token \in [Thread -> Token \cup {None}]
  /\ \A t \in Thread : token[t] # None <=> pc[t] \in {"ask", "wait", "stop?"}
  /\ taken \in [Token -> Decision \cup {None}] /\ answer \in [Token -> Decision \cup {None}]
  /\ count \in 0 .. MaxGates
  /\ pipe \in Seq(Lines) /\ Len(pipe) <= MaxPipe /\ hand \in Lines \cup {None}
  /\ asked \subseteq 0 .. count - 1
  /\ form \in [User -> Token \cup {None}]
  /\ age \in 0 .. MaxAge /\ family \in Family \cup {None}
  /\ watch \in {"sleep", "kill", "done"}

Waits(t) == alive /\ pc[t] \in {"wait", "stop?"}
AtGate(t) == Waits(t) /\ GateLine(token[t]) \notin ToSet(pipe)

\* "An approval gate is never timed out": the watchdog condemns no child all of whose threads
\* are at gates the supervisor knows of.  (A thread that works beside a gate closes it.)
GateIsNeverTimedOut ==
  [][watch = "sleep" /\ watch' = "kill" => \E t \in Thread : ~AtGate(t)]_vars

\* Threads that ask gates at one time never share an answer.
GatesAreApart == \A t, u \in Thread : t # u /\ token[t] # None => token[t] # token[u]

\* The invariant of the gates: a thread has a token exactly while it is at a gate, and no two
\* threads have the same.
GateInv == TypeOK /\ GatesAreApart

\* The decision on file is the one the workflow went on with, an answer that was replayed
\* included, as long as answers are submitted one at a time.
TheRecordIsTheDecision == \A k \in Token : taken[k] # None => answer[k] = taken[k]

\* No silence lasts: outside gates a child that stays silent is killed, also after a gate.
SilenceIsEnded == []<>(~alive \/ age = 0 \/ gateOpen)

\* An answered gate goes on, and a stop releases a gate nobody answers.
GatesAreReleased ==
  \A t \in Thread : (Waits(t) /\ (stopped \/ answer[token[t]] # None)) ~> ~Waits(t)
===============================================================================
