---------------------------- MODULE BudgetContract ----------------------------
(***************************************************************************)
(* What the budget engine (sdk/sfvf/_budget.py) promises: the charge of a  *)
(* paid call appears in one step, on one day, and only while every ceiling *)
(* that applies to it has room for the estimate; afterwards the charge      *)
(* changes only to what the call is reconciled with.  BudgetLedger shows    *)
(* that the file, its lock and the two readings of the clock keep this.     *)
(***************************************************************************)
EXTENDS Naturals, FiniteSetsExt

CONSTANTS
  Call,                           \* paid calls, of any process
  MeterOf, RunOf, VideoOf,        \* of a call: provider meter, <<workflow, run id>>, video
  Estimate,                       \* what a call reserves, at least 1
  DayCeiling, RunCeiling,         \* per meter
  VideoCeiling,                   \* of one video, over all its meters
  Days                            \* the last day of the model

VARIABLES charge, day     \* of each call: what it counts for, and on which day (0: not yet)
contract == <<charge, day>>

Total(amount, calls) == MapThenSumSet(LAMBDA c : amount[c], calls)

OfDay(c, d) == {x \in Call : MeterOf[x] = MeterOf[c] /\ day[x] = d}
OfRun(c) == {x \in Call : MeterOf[x] = MeterOf[c] /\ RunOf[x] = RunOf[c]}
\* _video_sum knows neither the workflow nor the meter.
OfVideo(c) == {x \in Call : RunOf[x][2] = RunOf[c][2] /\ VideoOf[x] = VideoOf[c]}

Fits(c, d) ==
  /\ Total(charge, OfDay(c, d)) + Estimate[c] <= DayCeiling[MeterOf[c]]
  /\ Total(charge, OfRun(c)) + Estimate[c] <= RunCeiling[MeterOf[c]]
  /\ Total(charge, OfVideo(c)) + Estimate[c] <= VideoCeiling

ContractInit == /\ charge = [c \in Call |-> 0]
                /\ day = [c \in Call |-> 0]

Grant(c, d) == /\ day[c] = 0
               /\ Fits(c, d)
               /\ charge' = [charge EXCEPT ![c] = Estimate[c]]
               /\ day' = [day EXCEPT ![c] = d]

Reconcile(c) == /\ day[c] # 0
                /\ charge'[c] \in Nat
                /\ charge' = [charge EXCEPT ![c] = charge'[c]]
                /\ UNCHANGED day

ContractNext == \E c \in Call : Reconcile(c) \/ \E d \in 1 .. Days : Grant(c, d)

ContractSpec == ContractInit /\ [][ContractNext]_contract
===============================================================================
