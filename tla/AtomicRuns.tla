------------------------------ MODULE AtomicRuns ------------------------------
(***************************************************************************)
(* Runs of atomic workflows before their ledger: app/core/estimate.py      *)
(* learns from the finished runs what a run will cost, app/core/           *)
(* preflight.py refuses one that does not fit what is left, and what was   *)
(* admitted then reserves call by call (BudgetLedger), beside other runs.  *)
(***************************************************************************)
EXTENDS BudgetLedger, FiniteSets

CONSTANTS
  Atomic,       \* the runs of atomic workflows that have a budget and are not dry
  VideoCount,   \* how many videos each of them makes
  Histories,    \* what the runs directory may hold of their workflow, newest run first
  MaxHistory,   \* MAX_HISTORY
  Factor,       \* safety_factor, <<numerator, denominator>>
  Unit          \* amounts of finished runs are in parts of one unit of the ledger

Meter == {MeterOf[c] : c \in Call}
Complete(run) == {i \in DOMAIN run.videos : run.videos[i].status = "complete"}

IsCost(amounts) == DOMAIN amounts \subseteq Meter /\ \A m \in DOMAIN amounts : amounts[m] \in Nat

\* Finished runs in an order; _aggregate_status calls no run complete or partial of which no
\* video is complete.
IsHistory(h) ==
  /\ IsFiniteSet(DOMAIN h) /\ DOMAIN h \subseteq Nat
  /\ \A i \in DOMAIN h :
       /\ IsCost(h[i].prepare)
       /\ IsFiniteSet(DOMAIN h[i].videos)
       /\ \A j \in DOMAIN h[i].videos : IsCost(h[i].videos[j].uncached)
       /\ h[i].status \in {"complete", "partial"} => Complete(h[i]) # {}

ASSUME AtomicAssumption ==
  /\ Atomic \subseteq {RunOf[c] : c \in Call}
  /\ VideoCount \in Nat \ {0} /\ MaxHistory \in Nat \ {0} /\ Unit \in Nat \ {0}
  /\ Factor \in (Nat \ {0}) \X (Nat \ {0})
  /\ \A h \in Histories : IsHistory(h)

VARIABLES
  launch,   \* run_request of each run: before its check, running, or refused
  promise,  \* history: what the finished runs said it would cost at least, by meter
  since     \* history: how many lines the ledger had at its check

atomicVars == <<launch, promise, since>>

-------------------------------------------------------------------------------
(* estimate_cost: the mean of a few finished runs.                         *)

\* Mutant: a run that failed says what the next one will cost.
CandidatesOfAnyEnd(h) == {i \in DOMAIN h : ~h[i].dry}

Candidates(h) == {i \in DOMAIN h : h[i].status \in {"complete", "partial"} /\ ~h[i].dry}

\* The newest runs with the same cost-relevant parameters or, when there are none, of any.
Newest(runs) == {i \in runs : Cardinality({j \in runs : j <= i}) <= MaxHistory}
Pool(h) == LET matched == {i \in Candidates(h) : h[i].same}
           IN  Newest(IF matched # {} THEN matched ELSE Candidates(h))

Naming(run, m) == {i \in Complete(run) : m \in DOMAIN run.videos[i].uncached}
Uncached(run, m) == SumFunction([i \in Naming(run, m) |-> run.videos[i].uncached[m]])

\* Mutant: videos that did not complete lower the price of one that does.
RunUncachedOverAll(run, m) == Uncached(run, m) \div Len(run.videos)

RunUncached(run, m) == Uncached(run, m) \div Cardinality(Complete(run))

\* The means leave out the runs that do not name the meter.
Mean(f) == IF DOMAIN f = {} THEN 0 ELSE SumFunction(f) \div Cardinality(DOMAIN f)
MeanUncached(h, m) ==
  Mean([i \in {j \in Pool(h) : Naming(h[j], m) # {}} |-> RunUncached(h[i], m)])
MeanPrepare(h, m) ==
  Mean([i \in {j \in Pool(h) : m \in DOMAIN h[j].prepare} |-> h[i].prepare[m]])

\* Mutant: what one video costs is taken for the run.
ScaleForOne(h, m) == MeanUncached(h, m) + MeanPrepare(h, m)

ScaleEstimate(h, m) == MeanUncached(h, m) * VideoCount + MeanPrepare(h, m)

\* The meters an estimate speaks of, and what the run needs of them.
Estimated(h) == {m \in Meter : \E i \in Pool(h) : Naming(h[i], m) # {} \/ m \in DOMAIN h[i].prepare}
Times(amount) == (amount * Factor[1]) \div Factor[2]
Needs(h) == [m \in Estimated(h) |-> Times(ScaleEstimate(h, m))]

-------------------------------------------------------------------------------
(* What a user concludes from the same directory: the run's videos will    *)
(* cost at least what the cheapest comparable finished video cost.         *)

Comparable(h) ==
  LET finished == {i \in DOMAIN h : h[i].status \in {"complete", "partial"} /\ ~h[i].dry}
      same == {i \in finished : h[i].same}
  IN  {h[i] : i \in IF same # {} THEN same ELSE finished}
Cost(amounts, m) == IF m \in DOMAIN amounts THEN amounts[m] ELSE 0
LeastOr0(S) == IF S = {} THEN 0 ELSE Min(S)
CheapestVideo(h, m) ==
  LeastOr0(UNION {{Cost(run.videos[i].uncached, m) : i \in Complete(run)} : run \in Comparable(h)})
CheapestPrepare(h, m) == LeastOr0({Cost(run.prepare, m) : run \in Comparable(h)})

\* In whole units of the ledger.
Promise(h) ==
  [m \in Meter |-> Times(VideoCount * CheapestVideo(h, m) + CheapestPrepare(h, m)) \div Unit]

Forecasts == {[need |-> Needs(h), promise |-> Promise(h)] : h \in Histories}

-------------------------------------------------------------------------------
AtomicInit ==
  /\ Init
  /\ launch = [r \in {RunOf[c] : c \in Call} |-> IF r \in Atomic THEN "waiting" ELSE "running"]
  /\ promise = [r \in Atomic |-> [m \in Meter |-> 0]]
  /\ since = [r \in Atomic |-> 0]

\* check_atomic_budget: the headroom of both ceilings, read once and without the lock.
Fits(r, need) ==
  \A m \in DOMAIN need :
    /\ need[m] + Unit * RunSum(r, m) <= Unit * RunCeiling[m]
    /\ need[m] + Unit * DaySum(m, today) <= Unit * DayCeiling[m]

Preflight(r) ==
  /\ launch[r] = "waiting"
  /\ \E f \in Forecasts :
       \/ /\ Fits(r, f.need)
          /\ launch' = [launch EXCEPT ![r] = "running"]
          /\ promise' = [promise EXCEPT ![r] = f.promise]
          /\ since' = [since EXCEPT ![r] = Len(ledger)]
          /\ UNCHANGED vars
       \/ /\ ~Fits(r, f.need)
          /\ launch' = [launch EXCEPT ![r] = "refused"]
          /\ pc' = [c \in Call |-> IF RunOf[c] = r THEN "done" ELSE pc[c]]
          /\ UNCHANGED <<ledger, torn, lock, today, kill, settle, billed, promise, since>>

\* The calls of a run come after its check.
Work ==
  /\ Next
  /\ \A c \in Call : launch[RunOf[c]] # "running" => pc'[c] = pc[c]
  /\ UNCHANGED atomicVars

AtomicNext == (\E r \in Atomic : Preflight(r)) \/ Work

AtomicSpec == AtomicInit /\ [][AtomicNext]_<<vars, atomicVars>>

-------------------------------------------------------------------------------
(* Properties.                                                             *)

AtomicTypeOK ==
  /\ launch \in [{RunOf[c] : c \in Call} -> {"waiting", "running", "refused"}]
  /\ promise \in [Atomic -> [Meter -> Nat]]
  /\ since \in [Atomic -> Nat]

\* Nobody else's line came after the run's check.
Alone(r) == \A i \in since[r] + 1 .. Len(ledger) : RunOf[ledger[i].token] = r

\* Money is not spent on half an atomic run: what the finished runs announced was set aside
\* by the check, so a run that was admitted is refused no call that stays within it, whatever
\* was spent before and even over a midnight, as long as no other run spends beside it and the
\* video's own ceiling, which the check does not look at, has room.
NotStranded ==
  \A c \in Call :
    LET r == RunOf[c] IN
    /\ r \in Atomic /\ pc[c] = "check" /\ Alone(r)
    /\ RunSum(r, MeterOf[c]) + Estimate[c] <= promise[r][MeterOf[c]]
    /\ VideoSum(r[2], VideoOf[c]) + Estimate[c] <= VideoCeiling
    => Allowed(c)

\* The invariant of the ledger under atomic and other runs.
AtomicInv == LedgerInv /\ AtomicTypeOK /\ NotStranded
===============================================================================
