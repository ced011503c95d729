------------------------------ MODULE Learning ------------------------------
(***************************************************************************)
(* The learning of one workflow: app/learning/{engine,accept,state}.py and *)
(* app/api/{learning,quality}.py.  Clients of the API call run, staged,    *)
(* accept, reject and save; the calls that write take the lock of the      *)
(* workflow and hold it through all their file operations, each of which   *)
(* is a step here.  Beside them, and without the lock, the supervisor      *)
(* launches runs whose child reads the live rule files, and users answer   *)
(* quality questions about finished runs.  A learning run pays for one     *)
(* completion, reserved in the budget ledger before it is asked for.       *)
(*                                                                         *)
(* A text is a number: 0 is what a file held first, 1 .. MaxLearnings what *)
(* the n-th learning run proposed, and a save writes a number after those. *)
(* A run has one video, one child and one step of one agent.               *)
(***************************************************************************)
EXTENDS Integers, Sequences, FiniteSets

CONSTANTS
  Clients,       \* browser tabs, each with one call at a time
  NFiles,        \* the rule and skill files, in the order of their paths
  None,
  Outside,       \* a path that is no rule or skill file
  MaxAttempts,   \* how often a completion is asked for while the provider is busy
  Bounds         \* the bounds of the histories: [learnings, saves, runs, time, faults]

ASSUME LearningAssumption ==
  /\ NFiles \in Nat \ {0} /\ MaxAttempts \in Nat \ {0}
  /\ Outside \notin 1 .. NFiles
  /\ Bounds \subseteq [learnings : Nat, saves : Nat, runs : Nat, time : Nat, faults : Nat]
  /\ Bounds # {} /\ IsFiniteSet(Bounds)
  /\ None \notin Clients \cup Int \cup [version : Int, text : Int]

Most(S) == CHOOSE n \in S : \A m \in S : m <= n
MaxLearnings == Most({b.learnings : b \in Bounds})
MaxSaves == Most({b.saves : b \in Bounds})
MaxFaults == Most({b.faults : b \in Bounds})

VARIABLES
  live,      \* the file at its live path: version and text, or None
  archive,   \* archive/<stem>.v<n>: the text of a version, or None
  staged,    \* the staging area: the text proposed for a file, or None
  marker,    \* last_learned; -1 when there is none
  holder,    \* the client in the critical section of the workflow's lock
  op,        \* what the holder is doing
  seen,      \* the proposals a client looks at
  clock,
  runs,      \* the runs launched: when, and whether they are rated
  child,     \* the child of the active run
  cache,     \* the step cache: the result stored under an instructions digest
  learnings, saves, faults,  \* how many there were
  bound,     \* how many learning runs, saves, launches, seconds and faults there may be
  past,      \* history: every (file, version, text) that was live
  offered,   \* history: the files each learning run proposed to edit
  basis,     \* history: the labels the last one gathered
  learned,   \* history: the labels whose proposals were accepted
  apart      \* history: no rule file was edited while a run was active

fileVars  == <<live, archive, past>>
labelVars == <<clock, runs>>
childVars == <<child, cache>>
countVars == <<learnings, saves, faults, bound>>
ghostVars == <<offered, basis, learned, apart>>
vars == <<fileVars, staged, marker, holder, op, seen, labelVars, childVars, countVars, ghostVars>>

Files    == 1 .. NFiles
Torn     == -1
Texts    == Torn .. (MaxLearnings + MaxSaves)
Versions == 1 .. (1 + MaxLearnings + MaxSaves + MaxFaults)  \* what was interrupted is repeated
Nothing  == [f \in Files |-> None]
First(S) == CHOOSE f \in S : \A g \in S : f <= g

(* The completion of a learning run: its reservation in the ledger, the attempts made, what    *)
(* the code holds of the last one, and whether the provider bills any of them.                 *)
NoCharge == [ledger |-> "none", tries |-> 0, unbilled |-> TRUE, billed |-> FALSE]

Idle == [call |-> "none", pc |-> "idle", todo |-> {}, text |-> 0, edit |-> Nothing,
         charge |-> NoCharge]

NoChild == [pc |-> "none", paths |-> {}, launched |-> Nothing, digest |-> Nothing,
            made |-> Nothing]

(* What the files of a list say when they are read: a missing or empty file is skipped. *)
Read(paths) ==
  [f \in Files |-> IF f \in paths /\ live[f] # None /\ live[f].text # Torn
                     THEN live[f].text ELSE None]

Existing == {f \in Files : live[f] # None}

(* The labels a learning run gathers. *)
Labels(since) == {r \in DOMAIN runs : runs[r].answered /\ runs[r].started > since}

(* What the learning tab counts, at any time and without the lock. *)
LabelCount == Labels(marker)

Init ==
  /\ live = [f \in Files |-> [version |-> 1, text |-> 0]]
  /\ archive = [f \in Files |-> [v \in Versions |-> None]]
  /\ past = {<<f, 1, 0>> : f \in Files}
  /\ staged = Nothing /\ marker = -1
  /\ holder = None /\ op = Idle /\ seen = [c \in Clients |-> Nothing]
  /\ clock = 0 /\ runs = <<>>
  /\ child = NoChild /\ cache = <<>>
  /\ learnings = 0 /\ saves = 0 /\ faults = 0 /\ bound \in Bounds
  /\ offered = [n \in 1 .. MaxLearnings |-> {}]
  /\ basis = {} /\ learned = {} /\ apart = TRUE

Enter(c, o) == holder = None /\ holder' = c /\ op' = o

Leave == holder' = None /\ op' = Idle

----------------------------------------------------------------------------
(* POST /learning/<id>/run: gather, ask the optimiser, stage. *)

Gather(c) ==
  /\ learnings < bound.learnings
  /\ Enter(c, [Idle EXCEPT !.call = "run", !.pc = "reserve"])
  /\ learnings' = learnings + 1
  /\ basis' = Labels(marker)
  /\ UNCHANGED <<fileVars, staged, marker, seen, labelVars, childVars, saves, faults, bound,
                 offered, learned, apart>>

Completing == UNCHANGED <<fileVars, staged, marker, holder, seen, labelVars, childVars, countVars, ghostVars>>

(* complete: the estimate is reserved before the first attempt; a refused reservation is an     *)
(* exception of the learning run.                                                              *)
Reserve ==
  /\ op.pc = "reserve"
  /\ op' = [op EXCEPT !.pc = "post", !.charge.ledger = "estimate"]
  /\ Completing

(* Mutant: that the reservation may be released is not taken back when it is tried again. *)
PostOnceBusy ==
  /\ op.pc = "post"
  /\ \E reply \in {"ok", "busy", "refused", "lost"} : \E billed \in BOOLEAN :
       /\ billed => reply \in {"ok", "lost"}
       /\ op' = [op EXCEPT
            !.pc = CASE reply = "ok" -> "read"
                     [] reply = "busy" /\ op.charge.tries + 1 < MaxAttempts -> "post"
                     [] OTHER -> "settle",
            !.charge.tries = @ + 1,
            !.charge.unbilled = reply \in {"busy", "refused"} \/ (op.charge.tries > 0 /\ @),
            !.charge.billed = billed]
  /\ Completing

(* An attempt: the provider bills an answer, arrived or lost, and nothing it refuses; a busy    *)
(* one is asked again.                                                                         *)
Post ==
  /\ op.pc = "post"
  /\ \E reply \in {"ok", "busy", "refused", "lost"} : \E billed \in BOOLEAN :
       /\ billed => reply \in {"ok", "lost"}
       /\ op' = [op EXCEPT
            !.pc = CASE reply = "ok" -> "read"
                     [] reply = "busy" /\ op.charge.tries + 1 < MaxAttempts -> "post"
                     [] OTHER -> "settle",
            !.charge.tries = @ + 1,
            !.charge.unbilled = reply \in {"busy", "refused"},
            !.charge.billed = billed]
  /\ Completing

(* The body may state no usable cost, and may hold no content: the one does not need the other. *)
ReadBody ==
  /\ op.pc = "read"
  /\ \E cost, content \in BOOLEAN :
       op' = [op EXCEPT !.pc = IF content THEN "answered" ELSE "settle",
                        !.charge.ledger = IF cost THEN "cost" ELSE @]
  /\ Completing

(* The finally of a completion that fails: a reservation nobody bills is settled at zero. *)
SettleUnbilled ==
  /\ op.pc = "settle"
  /\ op' = [op EXCEPT !.pc = "failed",
                      !.charge.ledger = IF op.charge.unbilled THEN "zero" ELSE @]
  /\ Completing

(* parse_optimizer_response and _validate_edits: one path that is no rule or skill file spoils all. *)
Parsed(paths) == paths \subseteq Files

(* Mutant: the new proposals are staged over the old ones. *)
OptimizeOver ==
  /\ op.pc = "answered"
  /\ \E S \in SUBSET (Files \cup {Outside}) :
       LET edit == [f \in Files |-> IF f \in S THEN learnings ELSE None] IN
       IF ~Parsed(S)
         THEN op' = [op EXCEPT !.pc = "failed"] /\ UNCHANGED offered
         ELSE /\ op' = [op EXCEPT !.pc = "stage", !.todo = S, !.edit = edit, !.charge = NoCharge]
              /\ offered' = [offered EXCEPT ![learnings] = S]
  /\ UNCHANGED <<fileVars, staged, marker, holder, seen, labelVars, childVars, countVars, basis, learned, apart>>

(* The optimiser answers with edits of some of the files; the old staging area is removed. *)
Optimize ==
  /\ op.pc = "answered"
  /\ \E S \in SUBSET (Files \cup {Outside}) :
       LET edit == [f \in Files |-> IF f \in S THEN learnings ELSE None] IN
       IF ~Parsed(S)
         THEN op' = [op EXCEPT !.pc = "failed"] /\ UNCHANGED <<offered, staged>>
         ELSE /\ op' = [op EXCEPT !.pc = "stage", !.todo = S, !.edit = edit, !.charge = NoCharge]
              /\ offered' = [offered EXCEPT ![learnings] = S]
              /\ staged' = Nothing
  /\ UNCHANGED <<fileVars, marker, holder, seen, labelVars, childVars, countVars, basis, learned, apart>>

Stage ==
  /\ op.pc = "stage" /\ op.todo # {}
  /\ \E f \in op.todo :
       /\ staged' = [staged EXCEPT ![f] = op.edit[f]]
       /\ op' = [op EXCEPT !.todo = @ \ {f}]
  /\ UNCHANGED <<fileVars, marker, holder, seen, labelVars, childVars, countVars, ghostVars>>

(* The response shows the caller what was staged. *)
Staged ==
  /\ op.pc = "stage" /\ op.todo = {}
  /\ seen' = [seen EXCEPT ![holder] = op.edit]
  /\ Leave
  /\ UNCHANGED <<fileVars, staged, marker, labelVars, childVars, countVars, ghostVars>>

(* Mutant: a failed learning run leaves what it staged. *)
LearningErrorKept ==
  /\ op.pc \in {"reserve", "failed", "stage"}
  /\ Leave
  /\ UNCHANGED <<fileVars, staged, marker, seen, labelVars, childVars, countVars, ghostVars>>

(* Any exception of a learning run discards the staging area. *)
LearningError ==
  /\ op.pc \in {"reserve", "failed", "stage"}
  /\ staged' = Nothing
  /\ Leave
  /\ UNCHANGED <<fileVars, marker, seen, labelVars, childVars, countVars, ghostVars>>

----------------------------------------------------------------------------
(* GET staged takes no lock; accept, reject and save do. *)

View(c) ==
  /\ holder # c /\ seen[c] # staged
  /\ seen' = [seen EXCEPT ![c] = staged]
  /\ UNCHANGED <<fileVars, staged, marker, holder, op, labelVars, childVars, countVars, ghostVars>>

Editing == op.call \in {"accept", "save"}

(* The interface offers accept while it shows proposals; the call itself names none of them. *)
Accept(c) ==
  /\ seen[c] # Nothing
  /\ Enter(c, [Idle EXCEPT !.call = "accept", !.pc = "apply", !.edit = staged,
                           !.todo = {f \in Files : staged[f] # None}])
  /\ apart' = (apart /\ child.pc = "none")
  /\ UNCHANGED <<fileVars, staged, marker, seen, labelVars, childVars, countVars, offered, basis,
                 learned>>

Reject(c) ==
  /\ holder = None /\ seen[c] # Nothing
  /\ staged' = Nothing
  /\ seen' = [seen EXCEPT ![c] = Nothing]
  /\ UNCHANGED <<fileVars, marker, holder, op, labelVars, childVars, countVars, ghostVars>>

Save(c) ==
  /\ saves < bound.saves
  /\ saves' = saves + 1
  /\ \E f \in Existing :
       Enter(c, [Idle EXCEPT !.call = "save", !.pc = "apply", !.todo = {f},
                             !.edit = [Nothing EXCEPT ![f] = MaxLearnings + saves + 1]])
  /\ apart' = (apart /\ child.pc = "none")
  /\ UNCHANGED <<fileVars, staged, marker, seen, labelVars, childVars, learnings, faults, bound,
                 offered, basis, learned>>

(* Mutant: the archive name is that of the version about to be written. *)
ArchiveAsNew ==
  /\ op.pc = "apply" /\ op.todo # {}
  /\ LET f == First(op.todo) IN
       IF live[f] = None
         THEN op' = [op EXCEPT !.pc = "write", !.text = 1] /\ UNCHANGED <<live, archive>>
         ELSE /\ archive' = [archive EXCEPT ![f][live[f].version + 1] = live[f].text]
              /\ live' = [live EXCEPT ![f] = None]
              /\ op' = [op EXCEPT !.pc = "write", !.text = live[f].version + 1]
  /\ UNCHANGED <<past, staged, marker, holder, seen, labelVars, childVars, countVars, ghostVars>>

(* Mutant: the files are moved to the archive together, before the first is written. *)
ArchiveAll ==
  /\ op.pc = "apply" /\ op.todo # {}
  /\ LET S == op.todo \cap Existing IN
       /\ archive' = [f \in Files |-> IF f \in S THEN [archive[f] EXCEPT ![live[f].version] = live[f].text]
                                               ELSE archive[f]]
       /\ live' = [f \in Files |-> IF f \in S THEN None ELSE live[f]]
       /\ op' = [op EXCEPT !.pc = "write", !.text = 2]
  /\ UNCHANGED <<past, staged, marker, holder, seen, labelVars, childVars, countVars, ghostVars>>

(* apply_instruction_edit: move the live file to its archive name, then write the new one. *)
Archive ==
  /\ op.pc = "apply" /\ op.todo # {}
  /\ LET f == First(op.todo) IN
       IF live[f] = None
         THEN op' = [op EXCEPT !.pc = "write", !.text = 1] /\ UNCHANGED <<live, archive>>
         ELSE /\ archive' = [archive EXCEPT ![f][live[f].version] = live[f].text]
              /\ live' = [live EXCEPT ![f] = None]
              /\ op' = [op EXCEPT !.pc = "write", !.text = live[f].version + 1]
  /\ UNCHANGED <<past, staged, marker, holder, seen, labelVars, childVars, countVars, ghostVars>>

(* Opening the file to write truncates it: until it is filled it is empty, without frontmatter. *)
Open ==
  /\ op.pc = "write"
  /\ live' = [live EXCEPT ![First(op.todo)] = [version |-> 1, text |-> Torn]]
  /\ op' = [op EXCEPT !.pc = "fill"]
  /\ UNCHANGED <<archive, past, staged, marker, holder, seen, labelVars, childVars, countVars,
                 ghostVars>>

Fill ==
  /\ op.pc = "fill"
  /\ LET f == First(op.todo) IN
       /\ live' = [live EXCEPT ![f] = [version |-> op.text, text |-> op.edit[f]]]
       /\ past' = past \cup {<<f, op.text, op.edit[f]>>}
       /\ op' = [op EXCEPT !.pc = "apply", !.todo = @ \ {f}]
  /\ UNCHANGED <<archive, staged, marker, holder, seen, labelVars, childVars, countVars, ghostVars>>

Saved ==
  /\ op.call = "save" /\ op.pc = "apply" /\ op.todo = {}
  /\ Leave
  /\ UNCHANGED <<fileVars, staged, marker, seen, labelVars, childVars, countVars, ghostVars>>

Discard ==
  /\ op.call = "accept" /\ op.pc = "apply" /\ op.todo = {}
  /\ staged' = Nothing
  /\ op' = [op EXCEPT !.pc = "mark"]
  /\ UNCHANGED <<fileVars, marker, holder, seen, labelVars, childVars, countVars, ghostVars>>

Mark ==
  /\ op.pc = "mark"
  /\ seen' = [seen EXCEPT ![holder] = Nothing]
  /\ IF op.edit = Nothing
       THEN UNCHANGED <<marker, learned>>
       ELSE /\ marker' = clock
            /\ learned' = learned \cup basis
  /\ Leave
  /\ UNCHANGED <<fileVars, staged, labelVars, childVars, countVars, offered, basis, apart>>

----------------------------------------------------------------------------
(* Runs: the child gets the paths of the live files, not copies of them. *)

Launch ==
  /\ child.pc = "none" /\ Len(runs) < bound.runs
  /\ runs' = Append(runs, [started |-> clock, answered |-> FALSE])
  /\ child' = [NoChild EXCEPT !.pc = "launched", !.paths = Existing, !.launched = Read(Existing)]
  /\ apart' = (apart /\ ~Editing)
  /\ UNCHANGED <<fileVars, staged, marker, holder, op, seen, clock, cache, countVars, offered,
                 basis, learned>>

Construct ==
  /\ child.pc = "launched"
  /\ child' = [child EXCEPT !.pc = "constructed", !.digest = Read(child.paths)]
  /\ UNCHANGED <<fileVars, staged, marker, holder, op, seen, labelVars, cache, countVars, ghostVars>>

(* Mutant: the instructions are no part of the key. *)
StepKeyBare(c) == Nothing

(* ctx.step: a result stored under the digest is served; else the agent reads the files anew. *)
StepKey(c) == c.digest

Hit ==
  /\ child.pc = "constructed" /\ StepKey(child) \in DOMAIN cache
  /\ child' = [child EXCEPT !.pc = "served", !.made = cache[StepKey(child)]]
  /\ UNCHANGED <<fileVars, staged, marker, holder, op, seen, labelVars, cache, countVars, ghostVars>>

Ask ==
  /\ child.pc = "constructed" /\ StepKey(child) \notin DOMAIN cache
  /\ LET text == Read(child.paths) IN
       child' = [child EXCEPT !.pc = "asked", !.made = text]
  /\ UNCHANGED <<fileVars, staged, marker, holder, op, seen, labelVars, cache, countVars, ghostVars>>

Store ==
  /\ child.pc = "asked"
  /\ cache' = [d \in DOMAIN cache \cup {StepKey(child)} |->
                IF d = StepKey(child) THEN child.made ELSE cache[d]]
  /\ child' = [child EXCEPT !.pc = "served"]
  /\ UNCHANGED <<fileVars, staged, marker, holder, op, seen, labelVars, countVars, ghostVars>>

Finish ==
  /\ child.pc = "served"
  /\ child' = NoChild
  /\ UNCHANGED <<fileVars, staged, marker, holder, op, seen, labelVars, cache, countVars, ghostVars>>

(* A submission replaces the quality of the video: one without answers takes them away. *)
SubmitQuality(r, answers) ==
  /\ r = Len(runs) => child.pc = "none"
  /\ runs[r].answered # answers
  /\ runs' = [runs EXCEPT ![r].answered = answers]
  /\ UNCHANGED <<fileVars, staged, marker, holder, op, seen, clock, childVars, countVars, ghostVars>>

----------------------------------------------------------------------------
Tick ==
  /\ clock < bound.time /\ clock' = clock + 1
  /\ UNCHANGED <<fileVars, staged, marker, holder, op, seen, runs, childVars, countVars, ghostVars>>

(* The chassis dies, or an accept or a save raises: what is done stays done.  The marker is *)
(* written in place, and one that cannot be read is none.                                   *)
Interrupt ==
  /\ holder # None /\ faults < bound.faults /\ faults' = faults + 1
  /\ marker' \in IF op.pc = "mark" /\ op.edit # Nothing THEN {marker, -1} ELSE {marker}
  /\ Leave
  /\ UNCHANGED <<fileVars, staged, seen, labelVars, childVars, learnings, saves, bound,
                 ghostVars>>

Next ==
  \/ \E c \in Clients : Gather(c) \/ View(c) \/ Accept(c) \/ Reject(c) \/ Save(c)
  \/ Reserve \/ Post \/ ReadBody \/ SettleUnbilled
  \/ Optimize \/ Stage \/ Staged \/ LearningError
  \/ Archive \/ Open \/ Fill \/ Saved \/ Discard \/ Mark
  \/ Launch \/ Construct \/ Hit \/ Ask \/ Store \/ Finish
  \/ \E r \in DOMAIN runs, answers \in BOOLEAN : SubmitQuality(r, answers)
  \/ Tick \/ Interrupt

Spec == Init /\ [][Next]_vars
----------------------------------------------------------------------------
(* Every variable stays in its range. *)
TypeOK ==
  /\ live \in [Files -> [version : Versions, text : Texts] \cup {None}]
  /\ archive \in [Files -> [Versions -> Texts \cup {None}]]
  /\ staged \in [Files -> Texts \cup {None}]
  /\ seen \in [Clients -> [Files -> Texts \cup {None}]]
  /\ marker \in -1 .. clock /\ clock \in Nat
  /\ holder \in Clients \cup {None} /\ (holder = None <=> op = Idle)
  /\ op.todo \subseteq Files /\ op.edit \in [Files -> Texts \cup {None}]
  /\ op.charge.tries \in 0 .. MaxAttempts
  /\ child.paths \subseteq Files /\ apart \in BOOLEAN

(* As long as no call was interrupted, every text that ever was in force under a version is    *)
(* found under it, in the live file or in the archive.  It is what makes the version recorded   *)
(* for an old video mean something.                                                            *)
HistoryIsKept ==
  faults = 0 => \A p \in past : LET f == p[1]  v == p[2] IN
    \/ live[f] = [version |-> v, text |-> p[3]]
    \/ archive[f][v] = p[3]

(* Proposals come into force as the learning run made them, all its edits or none, whatever     *)
(* other calls were made between its staging and the accept, unless a call was interrupted.     *)
WholeProposals ==
  holder = None /\ faults = 0 =>
    \A n \in 1 .. MaxLearnings :
      {f \in Files : \E p \in past : p[1] = f /\ p[3] = n} \in {{}, offered[n]}

(* A call that is interrupted leaves no file damaged but the one it was writing: between calls   *)
(* no more files are missing or empty than calls were interrupted.                              *)
Damaged == {f \in Files : live[f] = None \/ live[f].text = Torn}
DamageIsLocal == holder = None => Cardinality(Damaged) <= faults

(* A label whose proposals were accepted is never gathered again, while the marker is not lost. *)
NothingIsLearnedTwice ==
  faults = 0 => /\ op.call = "run" => basis \cap learned = {}
                /\ LabelCount \cap learned = {}

(* A completion the provider bills stays counted in the ledger, at its cost or its estimate,    *)
(* whatever became of the attempts before it and of its answer; one whose last attempt was      *)
(* refused costs nothing.                                                                      *)
CompletionsAreCounted ==
  op.pc \in {"answered", "failed"} =>
    /\ op.charge.billed => op.charge.ledger \in {"estimate", "cost"}
    /\ op.charge.unbilled <=> op.charge.ledger = "zero"

(* The invariant of the learning of a workflow: its state is typed, no version is lost, no label *)
(* is used or shown twice, and what is paid is counted.                                        *)
LearningInv == TypeOK /\ HistoryIsKept /\ NothingIsLearnedTwice /\ CompletionsAreCounted

(* "Proposals are always reviewed before they take effect": what an accept applies is, to the   *)
(* last edit, what one of the tabs was shown; not always the one that accepts.                  *)
OnlyReviewedIsApplied ==
  [][holder = None /\ op'.call = "accept" /\ op'.edit # Nothing /\ faults = 0 =>
       \E c \in Clients : seen[c] = op'.edit]_vars

(* As long as no rule was edited beside an active run, what a step of a run uses, cached or     *)
(* new, was made under the rules in force at its launch.                                        *)
ResultsFollowTheRules == child.pc = "served" /\ apart => child.made = child.launched
=============================================================================
