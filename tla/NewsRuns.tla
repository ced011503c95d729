------------------------------ MODULE NewsRuns ------------------------------
(***************************************************************************)
(* The runs of the bundled workflow sensational-science-news, in the       *)
(* environment that Environment keeps for it: prepare() chooses the        *)
(* subjects of the run's videos once, out of what the research finds and   *)
(* against the list of the subjects used before, which the workflow keeps  *)
(* in its library; run() makes each video in a process of its own: plan,   *)
(* gate, speech, the visual bed that costs money, render, finalize.        *)
(*                                                                         *)
(* Fold is casefold(), to the title in lower case; a source of the         *)
(* research is its title. A run may fail or be stopped at any moment. The app may   *)
(* die at any moment: the prepare of a real run lives on, and its put with *)
(* it; the videos of a dead app are recorded by nobody.                    *)
(***************************************************************************)
EXTENDS Environment, Sequences, Lists

CONSTANTS
  Titles, Fold,       \* the titles of the sources, and each in lower case
  Listed,             \* the titles whose sources are on _SCIENCE_NEWS_ALLOWLIST
  Stubs,              \* the titles the research of a dry run finds
  Cap,                \* _USED_SUBJECTS_CAP
  MaxFound,           \* bound on what one research finds, and on what the picker answers
  MaxVideos, MaxRuns, \* bounds on the videos of a run and on the runs
  MaxBeats, Consider, \* bound on the beats of a video; _WEB_CONSIDER
  ClipCost, StillCost, CheckCost   \* what a clip, a still, a look at a web image cost

ASSUME NewsAssumption ==
  /\ Fold \in [Titles -> Titles] /\ Listed \subseteq Titles /\ Stubs \in Seq(Titles)
  /\ Cap \in Nat \ {0} /\ MaxVideos \in 1 .. Cap
  /\ {MaxFound, MaxRuns, MaxBeats, Consider, ClipCost, StillCost, CheckCost} \subseteq Nat

VARIABLES
  used,       \* the value used-subjects in the library of the workflow
  run,        \* the run that is in the environment, or None
  orphans,    \* prepares whose app has died
  runs,
  taken,      \* history: every subject a real run chose, in the order of their puts
  overtook    \* history: a prepare whose app had died put its list

newsVars == <<used, run, orphans, runs, taken, overtook>>
allVars == <<vars, newsVars>>

NewsInit ==
  /\ Init
  /\ used = <<>> /\ run = None /\ orphans = {} /\ runs = 0 /\ taken = <<>> /\ overtook = FALSE

Elements(s) == {s[i] : i \in DOMAIN s}

UpTo(n, S) == UNION {[1 .. k -> S] : k \in 0 .. n}

Folds(titles) == {Fold[t] : t \in Elements(titles)}

First(s, f) == {i \in DOMAIN s : \A j \in 1 .. i - 1 : f[s[j]] # f[s[i]]}

Distinct(s) == Picked(s, First(s, [t \in Titles |-> t]))

----------------------------------------------------------------------------
(* prepare: the list is read first, then there are minutes of research and a model's answer. *)
Prepare ==
  /\ pc = "ready" /\ run = None
  /\ runs < MaxRuns /\ runs' = runs + 1
  /\ \E dry \in BOOLEAN, n \in 1 .. MaxVideos :
       run' = [phase |-> "research", dry |-> dry, n |-> n, stored |-> used,
               chosen |-> <<>>, videos |-> <<>>]
  /\ UNCHANGED <<vars, used, orphans, taken, overtook>>

AllowlistFilter(found) == Picked(found, {i \in DOMAIN found : found[i] \in Listed})

(* A second, broader search is made when the first finds too little on the allowlist. *)
PoolOf(strict, broad, n) ==
  LET first == AllowlistFilter(strict)
  IN IF Len(first) < n THEN Distinct(first \o AllowlistFilter(broad)) ELSE first

(* The first fresh titles of a list, as many as are missing, one for each casefolded title. *)
TakeFresh(titles, usedFolds, n) ==
  LET fresh == {i \in First(titles, Fold) : Fold[titles[i]] \notin usedFolds}
  IN Picked(titles, {i \in fresh : Cardinality({j \in fresh : j < i}) < n})

(* What of the picked titles is in the pool, in the spelling it has there first. *)
Canonical(picked, pool) ==
  LET spelt(t) == Picked(pool, {i \in DOMAIN pool : Fold[pool[i]] = Fold[t]})[1]
      known == Picked(picked, {i \in DOMAIN picked : Fold[picked[i]] \in Folds(pool)})
  IN [i \in DOMAIN known |-> spelt(known[i])]

(* Mutant: a title that is used in lower case is taken for fresh when it is spelt otherwise. *)
FinalizeAsSpelt(picked, pool, usedFolds, n) ==
  LET titles == Canonical(picked, pool) \o pool
      fresh == {i \in First(titles, [t \in Titles |-> t]) : titles[i] \notin usedFolds}
  IN Picked(titles, {i \in fresh : Cardinality({j \in fresh : j < i}) < n})

(* What the model picked comes first; the pool fills up the rest. *)
FinalizeSubjectList(picked, pool, usedFolds, n) ==
  TakeFresh(Canonical(picked, pool) \o pool, usedFolds, n)

(* An empty pool raises, except in a dry run, which takes what is not on the allowlist. *)
Pools(dry, n) ==
  IF dry THEN {Distinct(Stubs)}
  ELSE LET Found == UpTo(MaxFound, Titles)
       IN {PoolOf(strict, broad, n) : strict, broad \in Found} \ {<<>>}

(* What prepare may choose for n videos when these are used: fewer subjects than that raise. *)
Choices ==
  LET Chosen(dry, n, taboo) ==
        {FinalizeSubjectList(picked, pool, taboo, n) :
           picked \in UpTo(MaxFound, Listed), pool \in Pools(dry, n)}
      Used == {Folds(titles) : titles \in UpTo(Cap, Titles)}
  IN UNION {{[dry |-> dry, n |-> n, used |-> taboo, chosen |-> c] :
               c \in {c \in Chosen(dry, n, taboo) : Len(c) = n}} :
               dry \in BOOLEAN, n \in 1 .. MaxVideos, taboo \in Used}

Choosing(r) ==
  {[r EXCEPT !.phase = "put", !.chosen = c.chosen] :
     c \in {c \in Choices : c.dry = r.dry /\ c.n = r.n /\ c.used = Folds(r.stored)}}

(* Mutant: the list that is too long loses its newest subjects. *)
MergedHead(stored, chosen) ==
  LET merged == Distinct(stored \o chosen)
  IN IF Len(merged) > Cap THEN SubSeq(merged, 1, Cap) ELSE merged

(* A list that is too long loses its oldest subjects. *)
Merged(stored, chosen) ==
  LET merged == Distinct(stored \o chosen)
  IN IF Len(merged) > Cap THEN SubSeq(merged, Len(merged) - Cap + 1, Len(merged)) ELSE merged

(* Mutant: a dry run puts its subjects into the library itself. *)
PutThrough(r) ==
  /\ r.phase = "put"
  /\ used' = Merged(r.stored, r.chosen)
  /\ taken' = IF r.dry THEN taken ELSE taken \o r.chosen

(* ctx.library.put: a dry run puts into an overlay that is thrown away with the run. *)
Put(r) ==
  /\ r.phase = "put"
  /\ IF r.dry THEN UNCHANGED <<used, taken>>
     ELSE used' = Merged(r.stored, r.chosen) /\ taken' = taken \o r.chosen

PrepareChooses ==
  /\ run # None /\ run.phase = "research"
  /\ run' \in Choosing(run)
  /\ UNCHANGED <<vars, used, orphans, runs, taken, overtook>>

(* The list is put, the step is set and prepare returns: the videos of the run start. *)
PrepareReturns ==
  /\ run # None /\ Put(run)
  /\ run' = [run EXCEPT !.phase = "videos", !.stored = <<>>,
                        !.videos = [v \in 1 .. run.n |-> "queued"]]
  /\ UNCHANGED <<vars, orphans, runs, overtook>>

----------------------------------------------------------------------------
(* The beats of a video, and what its bed costs. A bed is a number of beats, of web images that   *)
(* were accepted, and of web images that were looked at to find them.                             *)

ClipCount(beats) == IF beats >= 4 THEN 2 ELSE 1

Statics(beats) == beats - ClipCount(beats)

Beds ==
  {bed \in [beats : 1 .. MaxBeats, found : 0 .. MaxBeats, checks : 0 .. Consider] :
     /\ bed.found <= Statics(bed.beats) /\ bed.found <= bed.checks
     /\ Statics(bed.beats) = 0 => bed.checks = 0}

(* _source_visual_bed: a clip first, and last in a longer video; between them web images as long  *)
(* as there are any, then stills.                                                                 *)
BedCost(bed) ==
  ClipCount(bed.beats) * ClipCost + (Statics(bed.beats) - bed.found) * StillCost
    + bed.checks * CheckCost

(* Mutant: the plan's cost leaves out the looks at web images. *)
CostOfPictures(beats) == ClipCount(beats) * ClipCost + Statics(beats) * StillCost

(* _estimate_bed_cost: as if no web image were accepted, and all of them were looked at. *)
EstimateBedCost(beats) ==
  ClipCount(beats) * ClipCost + Statics(beats) * StillCost + Consider * CheckCost

VideoGoes(v, from, to) ==
  /\ run # None /\ v \in DOMAIN run.videos
  /\ run.videos[v] = from
  /\ run' = [run EXCEPT !.videos[v] = to]
  /\ UNCHANGED <<vars, used, orphans, runs, taken, overtook>>

(* run: the script is written, and the plan for it approved. *)
Plan(v) == VideoGoes(v, "queued", "planned")

(* Speech, the visual bed, the render, captions and music. *)
Make(v) == VideoGoes(v, "planned", "rendered")

(* finalize reviews what it wrote, the pictures and the sound only in a real run, and raises when  *)
(* the review fails.                                                                               *)
Finalize(v) ==
  \E failures \in SUBSET {"structural", "composition", "content"} :
    /\ run # None => ~(run.dry /\ "content" \in failures)
    /\ VideoGoes(v, "rendered", IF failures = {} THEN "done" ELSE "failed")

(* The plan is rejected, the budget is used up, a provider or a tool fails. *)
VideoFails(v) == \E from \in {"queued", "planned", "rendered"} : VideoGoes(v, from, "failed")

----------------------------------------------------------------------------
(* All videos have ended, or prepare has failed, or the run is stopped. *)
NewsRunEnds ==
  /\ RunEnds /\ run' = None
  /\ UNCHANGED <<used, orphans, runs, taken, overtook>>

(* The app dies. What a dry run puts goes into an overlay that no run reads. *)
NewsDie ==
  /\ Die /\ run' = None
  /\ orphans' = orphans \cup
       {r \in {run} \ {None} : ~r.dry /\ r.phase \in {"research", "put"}}
  /\ UNCHANGED <<used, runs, taken, overtook>>

OrphanChooses(r) ==
  /\ r.phase = "research"
  /\ \E next \in Choosing(r) : orphans' = (orphans \ {r}) \cup {next}
  /\ UNCHANGED <<vars, used, run, runs, taken, overtook>>

OrphanPuts(r) ==
  /\ Put(r) /\ orphans' = orphans \ {r} /\ overtook' = TRUE
  /\ UNCHANGED <<vars, run, runs>>

OrphanFails(r) ==
  /\ orphans' = orphans \ {r}
  /\ UNCHANGED <<vars, used, run, runs, taken, overtook>>

EnvironmentStep ==
  /\ \/ Ensure \/ Blocked \/ Find \/ Removed \/ CreateVenv
     \/ InstallSdk \/ Read \/ Install \/ Mark
     \/ \E part \in Parts : Remove(part)
     \/ Fail
     \/ \E v \in Requirements : Edit(v) \/ InstallDetached(v)
  /\ UNCHANGED newsVars

NewsNext ==
  \/ EnvironmentStep
  \/ Prepare \/ PrepareChooses \/ PrepareReturns \/ NewsRunEnds \/ NewsDie
  \/ \E v \in 1 .. MaxVideos : Plan(v) \/ Make(v) \/ Finalize(v) \/ VideoFails(v)
  \/ \E r \in orphans : OrphanChooses(r) \/ OrphanPuts(r) \/ OrphanFails(r)

NewsSpec == NewsInit /\ [][NewsNext]_allVars

----------------------------------------------------------------------------
NewsTypeOK ==
  /\ used \in UpTo(Cap, Titles) /\ taken \in Seq(Titles)
  /\ runs \in 0 .. MaxRuns /\ overtook \in BOOLEAN
  /\ run # None =>
       /\ pc = "ready" /\ run.n \in 1 .. MaxVideos /\ run.dry \in BOOLEAN
       /\ run.videos # <<>> <=> run.phase = "videos"
  /\ \A r \in orphans : ~r.dry /\ r.phase # "videos"

(* No subject is used again, however it is spelt, before as many others as the list holds.       *)
SubjectsAreFresh ==
  \A i, j \in DOMAIN taken : i < j /\ Fold[taken[i]] = Fold[taken[j]] => j - i > Cap

(* The list holds only what a real run chose, and, before a video of a real run starts, what its *)
(* run chose.                                                                                    *)
TheListIsTheHistory ==
  /\ Elements(used) \subseteq Elements(taken)
  /\ run # None /\ run.phase = "videos" =>
       /\ Len(run.chosen) = run.n
       /\ ~run.dry => Elements(run.chosen) \subseteq Elements(used)

(* What the bed of a video costs stays within what its approved plan said, unless the speech is   *)
(* longer than the plan took it for.                                                              *)
PlanCoversTheBed ==
  \A bed \in Beds, planned \in 1 .. MaxBeats :
    bed.beats <= planned => BedCost(bed) <= EstimateBedCost(planned)

(* As long as no prepare puts its list after its app has died, the subjects of the videos are     *)
(* fresh, and the list is what the runs chose, whichever runs fail, are stopped or are dry; a plan *)
(* that was approved covers its bed.                                                              *)
NewsInv ==
  /\ NewsTypeOK
  /\ ~overtook => SubjectsAreFresh /\ TheListIsTheHistory
  /\ PlanCoversTheBed
=============================================================================
