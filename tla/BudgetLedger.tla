----------------------------- MODULE BudgetLedger -----------------------------
(***************************************************************************)
(* The money breaker: BudgetGuard of sdk/sfvf/_budget.py with its callers, *)
(* agents._post_chat_completion, Context._budget_reserved (media.image,     *)
(* media.video) and providers.serpapi.  Each paid call is an actor of some  *)
(* child process; they share one JSONL file under one lock file.  A reading *)
(* of the ledger, a reading of the clock and an append are steps of their   *)
(* own, a process can die between any two of them, and an append can tear.  *)
(***************************************************************************)
EXTENDS Naturals, Sequences, SequencesExt, FiniteSetsExt

CONSTANTS
  Call, MeterOf, RunOf, VideoOf, Estimate, DayCeiling, RunCeiling, VideoCeiling, Days,
  Caller,        \* which code makes a call: "llm", "block" or "search"
  Price,         \* what the provider may bill for a call
  Faults,        \* "crash": a process dies; "io": a write fails half-way; "lost": no answer
  Nobody

ASSUME BudgetAssumption ==
  /\ IsFiniteSet(Call)
  /\ Estimate \in [Call -> Nat \ {0}]
  /\ DOMAIN MeterOf = Call /\ DOMAIN RunOf = Call /\ DOMAIN VideoOf = Call
  /\ \A c \in Call : DayCeiling[MeterOf[c]] \in Nat /\ RunCeiling[MeterOf[c]] \in Nat
  /\ VideoCeiling \in Nat
  /\ Caller \in [Call -> {"llm", "block", "search"}]
  /\ Price \in [Call -> Nat \ {0}]
  /\ Days \in Nat \ {0}
  /\ Faults \subseteq {"crash", "io", "lost"}
  /\ Nobody \notin Call

VARIABLES
  ledger,   \* the complete lines of the ledger
  torn,     \* a partial line follows them
  lock,     \* who holds the lock file
  today,    \* the clock
  kill,     \* the operator's kill-switch file exists
  pc,       \* where each call is
  settle,   \* the amount a call is about to reconcile
  billed    \* what the provider took, in truth

vars == <<ledger, torn, lock, today, kill, pc, settle, billed>>

Position == {"idle", "check", "append", "held", "sent", "settle", "amend", "done"}

Line(c, kind, amount) == [token |-> c, kind |-> kind, amount |-> amount, day |-> today]

-------------------------------------------------------------------------------
(* What the ledger says: _token_states and the sums.                       *)

LinesOf(c, kind) == {i \in DOMAIN ledger : ledger[i].token = c /\ ledger[i].kind = kind}
Reserved(c) == LinesOf(c, "reserved") # {}

\* effective_amount: the last reconciliation, else the reservation.
Amount(c) == IF LinesOf(c, "actual") # {} THEN ledger[Max(LinesOf(c, "actual"))].amount
             ELSE IF Reserved(c) THEN ledger[Max(LinesOf(c, "reserved"))].amount
             ELSE 0
DayOf(c) == IF Reserved(c) THEN ledger[Max(LinesOf(c, "reserved"))].day ELSE 0

SumOver(calls) == MapThenSumSet(Amount, calls)
DaySum(meter, d) == SumOver({c \in Call : MeterOf[c] = meter /\ DayOf(c) = d})
RunSum(run, meter) == SumOver({c \in Call : RunOf[c] = run /\ MeterOf[c] = meter})
\* A run is <<workflow, run id>>: the per-video sum leaves out the workflow and the meter.
VideoSum(id, video) == SumOver({c \in Call : RunOf[c][2] = id /\ VideoOf[c] = video})

\* Mutant: the run's spend is not looked at.
AllowedWithoutRun(c) ==
  /\ DaySum(MeterOf[c], today) + Estimate[c] <= DayCeiling[MeterOf[c]]
  /\ VideoSum(RunOf[c][2], VideoOf[c]) + Estimate[c] <= VideoCeiling

Allowed(c) ==
  /\ DaySum(MeterOf[c], today) + Estimate[c] <= DayCeiling[MeterOf[c]]
  /\ RunSum(RunOf[c], MeterOf[c]) + Estimate[c] <= RunCeiling[MeterOf[c]]
  /\ VideoSum(RunOf[c][2], VideoOf[c]) + Estimate[c] <= VideoCeiling

-------------------------------------------------------------------------------
Init ==
  /\ ledger = <<>> /\ torn = FALSE
  /\ lock = Nobody
  /\ today = 1
  /\ kill = FALSE
  /\ pc = [c \in Call |-> "idle"]
  /\ settle = [c \in Call |-> 0]
  /\ billed = [c \in Call |-> 0]

Go(c, from, to) == pc[c] = from /\ pc' = [pc EXCEPT ![c] = to]

(* reserve(), from the two locks to the append.                            *)

\* Mutant: only the threads of one process exclude one another.
EnterWithoutFileLock(c) ==
  /\ Go(c, "idle", "check")
  /\ UNCHANGED <<ledger, torn, lock, today, kill, settle, billed>>

Enter(c) ==
  /\ lock = Nobody
  /\ Go(c, "idle", "check")
  /\ lock' = c
  /\ UNCHANGED <<ledger, torn, today, kill, settle, billed>>

Check(c) ==
  /\ IF ~kill /\ Allowed(c) THEN Go(c, "check", "append") /\ UNCHANGED lock
     ELSE Go(c, "check", "done") /\ lock' = Nobody
  /\ UNCHANGED <<ledger, torn, today, kill, settle, billed>>

\* Mutant: the new line is written behind the torn one, and neither can be read.
WriteGlued(line) == /\ ledger' = IF torn THEN ledger ELSE Append(ledger, line)
                    /\ torn' = FALSE

\* _append_line drops a torn tail before it writes.
Write(line) == /\ ledger' = Append(ledger, line)
               /\ torn' = FALSE

AppendReserved(c) ==
  /\ Go(c, "append", "held")
  /\ Write(Line(c, "reserved", Estimate[c]))
  /\ lock' = Nobody
  /\ UNCHANGED <<today, kill, settle, billed>>

-------------------------------------------------------------------------------
(* The paid call.                                                          *)

Dispatch(c) ==
  /\ Go(c, "held", "sent")
  /\ UNCHANGED <<ledger, torn, lock, today, kill, settle, billed>>

ToSettle(c, from, amount) ==
  /\ Go(c, from, "settle")
  /\ settle' = [settle EXCEPT ![c] = amount]
  /\ UNCHANGED <<ledger, torn, lock, today, kill, billed>>

\* An exception before the request is on its way: the reservation is released.
Abandon(c) == ToSettle(c, "held", 0)

\* The provider serves the request, and bills it once.
Serve(c) ==
  /\ pc[c] = "sent"
  /\ billed[c] = 0
  /\ billed' = [billed EXCEPT ![c] = Price[c]]
  /\ UNCHANGED <<ledger, torn, lock, today, kill, pc, settle>>

\* A 200: a search costs what was reserved for it, or nothing when the provider had it in
\* its cache; the other answers name their cost.
Answered(c) ==
  \/ billed[c] > 0 /\ ToSettle(c, "sent", IF Caller[c] = "search" THEN Estimate[c] ELSE billed[c])
  \/ Caller[c] = "search" /\ billed[c] = 0 /\ ToSettle(c, "sent", 0)

\* A 429 or another refusal is not billed: llm asks again, or the reservation is released.
Refused(c) ==
  /\ billed[c] = 0
  /\ \/ ToSettle(c, "sent", 0)
     \/ /\ Caller[c] = "llm" /\ Go(c, "sent", "held")
        /\ UNCHANGED <<ledger, torn, lock, today, kill, settle, billed>>

\* Mutant: the llm call is taken for unbilled until its answer is there.
FailedReleasesLlm(c) ==
  /\ "lost" \in Faults
  /\ ToSettle(c, "sent", 0)

\* No usable answer to a request that was dispatched: llm and search keep the reservation,
\* _budget_reserved releases it.
Failed(c) ==
  /\ "lost" \in Faults
  /\ IF Caller[c] = "block" THEN ToSettle(c, "sent", 0)
     ELSE /\ Go(c, "sent", "done")
          /\ UNCHANGED <<ledger, torn, lock, today, kill, settle, billed>>

-------------------------------------------------------------------------------
(* reconcile().                                                            *)

EnterReconcile(c) ==
  /\ lock = Nobody
  /\ Go(c, "settle", "amend")
  /\ lock' = c
  /\ UNCHANGED <<ledger, torn, today, kill, settle, billed>>

AppendActual(c) ==
  /\ Go(c, "amend", "done")
  /\ Write(Line(c, "actual", settle[c]))
  /\ lock' = Nobody
  /\ UNCHANGED <<today, kill, settle, billed>>

-------------------------------------------------------------------------------
(* Failures and the world.                                                 *)

\* What an append leaves that does not come to its end: nothing, a torn line, or a whole
\* line whose writer does not know of it.
Unfinished(c) ==
  \/ UNCHANGED <<ledger, torn>>
  \/ ledger' = ledger /\ torn' = TRUE
  \/ /\ pc[c] = "append" /\ Write(Line(c, "reserved", Estimate[c]))
  \/ /\ pc[c] = "amend" /\ Write(Line(c, "actual", settle[c]))

\* The file cannot be written: BudgetError, the call ends.
WriteFails(c) ==
  /\ "io" \in Faults
  /\ pc[c] \in {"append", "amend"}
  /\ pc' = [pc EXCEPT ![c] = "done"]
  /\ Unfinished(c)
  /\ lock' = Nobody
  /\ UNCHANGED <<today, kill, settle, billed>>

\* The child process is killed or dies; the system drops its lock.
Crash(c) ==
  /\ "crash" \in Faults
  /\ pc[c] \notin {"idle", "done"}
  /\ pc' = [pc EXCEPT ![c] = "done"]
  /\ IF pc[c] \in {"append", "amend"} THEN Unfinished(c) ELSE UNCHANGED <<ledger, torn>>
  /\ lock' = IF lock = c THEN Nobody ELSE lock
  /\ UNCHANGED <<today, kill, settle, billed>>

Midnight ==
  /\ today < Days
  /\ today' = today + 1
  /\ UNCHANGED <<ledger, torn, lock, kill, pc, settle, billed>>

EngageKillSwitch ==
  /\ ~kill
  /\ kill' = TRUE
  /\ UNCHANGED <<ledger, torn, lock, today, pc, settle, billed>>

Quiescent == (\A c \in Call : pc[c] = "done") /\ UNCHANGED vars

Next ==
  \/ \E c \in Call :
       \/ Enter(c) \/ Check(c) \/ AppendReserved(c)
       \/ Dispatch(c) \/ Abandon(c) \/ Serve(c) \/ Answered(c) \/ Refused(c) \/ Failed(c)
       \/ EnterReconcile(c) \/ AppendActual(c)
       \/ WriteFails(c) \/ Crash(c)
  \/ Midnight \/ EngageKillSwitch \/ Quiescent

Spec == Init /\ [][Next]_vars

-------------------------------------------------------------------------------
(* Properties.                                                             *)

TypeOK ==
  /\ ledger \in Seq([token : Call, kind : {"reserved", "actual"}, amount : Nat, day : 1 .. Days])
  /\ torn \in BOOLEAN
  /\ lock \in Call \cup {Nobody}
  /\ today \in 1 .. Days
  /\ kill \in BOOLEAN
  /\ pc \in [Call -> Position]
  /\ settle \in [Call -> Nat]
  /\ billed \in [Call -> Nat]

\* What reconciliations added over the estimates their calls were admitted with.
Excess(c) == IF Amount(c) > Estimate[c] THEN Amount(c) - Estimate[c] ELSE 0
ExcessOver(calls) == MapThenSumSet(Excess, calls)

\* Concurrent processes, a midnight between the check and the line, retries and torn
\* writes: no ceiling is passed by more than the calls' real prices exceeded their
\* estimates, and by nothing at all when the estimates were high enough.
CeilingsHold ==
  \A c \in Call :
    /\ \A d \in 1 .. Days :
         LET calls == {x \in Call : MeterOf[x] = MeterOf[c] /\ DayOf(x) = d}
         IN  SumOver(calls) <= DayCeiling[MeterOf[c]] + ExcessOver(calls)
    /\ LET calls == {x \in Call : MeterOf[x] = MeterOf[c] /\ RunOf[x] = RunOf[c]}
       IN  SumOver(calls) <= RunCeiling[MeterOf[c]] + ExcessOver(calls)
    /\ LET calls == {x \in Call : RunOf[x][2] = RunOf[c][2] /\ VideoOf[x] = VideoOf[c]}
       IN  SumOver(calls) <= VideoCeiling + ExcessOver(calls)

\* A token is never handed out for a line that readers do not see, whatever half-written
\* line the file ended with: the charge stays visible while the call is out.
TokenIsDurable ==
  \A c \in Call : pc[c] \in {"held", "sent", "settle", "amend"} => Reserved(c)

\* The invariant of the ledger: its records are typed, and no token is handed out in vain.
LedgerInv == TypeOK /\ TokenIsDurable

\* A charge of llm or search never evades the ceilings: a call that was billed counts for its
\* price or, while or because that is not known, for its estimate.  (_budget_reserved, around
\* the media calls, releases on every exception.)
ChargesAreCounted ==
  \A c \in Call : billed[c] > 0 /\ Caller[c] # "block" => Amount(c) \in {billed[c], Estimate[c]}

\* The lock file, the two readings of the clock and the tolerant reader amount to one
\* atomic charge on one day.
Contract == INSTANCE BudgetContract WITH
  charge <- [c \in Call |-> Amount(c)], day <- [c \in Call |-> DayOf(c)]
LedgerKeepsTheContract == Contract!ContractSpec
===============================================================================
