---------------------------- MODULE MCBudgetLedger ----------------------------
(* Instances of BudgetLedger and AtomicRuns for TLC. *)
EXTENDS AtomicRuns, TLC

CONSTANTS c1, c2, c3, usd

\* Two calls of one run, for different videos, and a call of another workflow's run.
AllCallers == c1 :> "llm" @@ c2 :> "block" @@ c3 :> "search"
OneMeter == [c \in Call |-> usd]
TwoRuns == [c \in Call |-> IF c = c3 THEN <<"w2", "i2">> ELSE <<"w1", "i1">>]
TwoVideos == [c \in Call |-> IF c = c2 THEN 2 ELSE 1]

\* The first call is dear and billed below its estimate, the second is billed above it.
Estimates == [c \in Call |-> IF c = c1 THEN 2 ELSE 1]
Prices == [c \in Call |-> IF c = c2 THEN 3 ELSE 1]
DayLimit == [m \in {usd} |-> 3]
RunLimit == [m \in {usd} |-> 2]

\* The run of the first two calls is atomic.  Earlier runs of its workflow: twelfths of a unit.
TheAtomic == {<<"w1", "i1">>}
ThreeHalves == <<3, 2>>
Nothing == [m \in {} |-> 0]
Cost_(n) == [m \in {usd} |-> n]
Video(status, amounts) == [status |-> status, uncached |-> amounts]
Run(status, dry, same, prepare, videos) ==
  [status |-> status, dry |-> dry, same |-> same, prepare |-> prepare, videos |-> videos]
Earlier == {
  Run("complete", FALSE, TRUE, Nothing, <<Video("complete", Cost_(12)), Video("complete", Cost_(12))>>),
  Run("complete", FALSE, TRUE, Cost_(4), <<Video("complete", Cost_(4)), Video("complete", Cost_(8))>>),
  Run("partial", FALSE, TRUE, Nothing, <<Video("complete", Cost_(12)), Video("failed", Cost_(8))>>),
  Run("partial", FALSE, TRUE, Cost_(4), <<Video("complete", Nothing), Video("complete", Cost_(8))>>),
  Run("complete", FALSE, FALSE, Cost_(0), <<Video("complete", Cost_(8))>>),
  Run("complete", TRUE, TRUE, Nothing, <<Video("complete", Cost_(0))>>),
  Run("failed", FALSE, TRUE, Nothing, <<Video("complete", Cost_(4)), Video("failed", Nothing)>>)}
ThreeEarlier == UNION {[1 .. n -> Earlier] : n \in 0 .. 3}
===============================================================================
