---------------------------- MODULE LearningProofs ----------------------------
(***************************************************************************)
(* Proofs about the learning of a workflow: the state is typed and no       *)
(* version number runs out, no version is lost, proposals come into force   *)
(* whole and reviewed, no label is learned twice, what is paid is counted,  *)
(* damage stays local, and a step follows the rules of its launch.          *)
(***************************************************************************)
EXTENDS Learning, FiniteSetTheorems, WellFoundedInduction, TLAPS

(***************************************************************************)
(* Finite sets of numbers have a largest and a first element.               *)
(***************************************************************************)

LEMMA Minimal ==
  ASSUME NEW S, IsFiniteSet(S), NEW T, T \subseteq SUBSET S, T # {}
  PROVE  \E x \in T : \A y \in T : ~ (y \subseteq x /\ y # x)
<1>1. IsWellFoundedOn(StrictSubsetOrdering(S), FiniteSubsetsOf(S))
  BY FS_StrictSubsetOrderingWellFounded
<1>2. T \subseteq FiniteSubsetsOf(S)
  BY FS_FiniteSubsetsOfFinite
<1>3. PICK x \in T : \A y \in T : ~ (<<y, x>> \in StrictSubsetOrdering(S))
  BY <1>1, <1>2, WFMin
<1>. QED BY <1>3 DEF StrictSubsetOrdering

LEMMA MostIsMost ==
  ASSUME NEW N, IsFiniteSet(N), N # {}, N \subseteq Nat
  PROVE  Most(N) \in N /\ \A n \in N : n <= Most(N)
<1>. DEFINE above(n) == {m \in N : m > n}
            T == {above(n) : n \in N}
<1>0. N \subseteq Int
  OBVIOUS
<1>1. PICK x \in T : \A y \in T : ~ (y \subseteq x /\ y # x)
  <2>1. T \subseteq SUBSET N /\ T # {}  OBVIOUS
  <2>2. IsFiniteSet(N)  OBVIOUS
  <2>. HIDE DEF T
  <2>. QED BY ONLY <2>1, <2>2, Minimal
<1>2. PICK n \in N : x = above(n)
  BY <1>1
<1>3. ASSUME NEW m \in N, m > n PROVE FALSE
  <2>1. above(m) \in T  OBVIOUS
  <2>2. above(m) \subseteq above(n)
    <3>1. m \in Int /\ n \in Int /\ m > n  BY <1>0, <1>3
    <3>2. ASSUME NEW k \in N, k > m PROVE k > n
      <4>1. k \in Int  BY <1>0
      <4>. QED BY <3>1, <3>2, <4>1
    <3>. QED BY <3>2
  <2>3. m \in above(n) /\ m \notin above(m)  BY <1>3
  <2>4. above(m) # above(n)  BY <2>3
  <2>. HIDE DEF T, above
  <2>. QED BY <1>1, <1>2, <2>1, <2>2, <2>4
<1>4. \A m \in N : m <= n
  BY <1>3
<1>. QED BY <1>4 DEF Most

LEMMA FilesAreFinite == IsFiniteSet(Files)
BY LearningAssumption, FS_Interval DEF Files

LEMMA FirstIsOne ==
  ASSUME NEW S, S \subseteq Files, S # {}
  PROVE  First(S) \in S
<1>. DEFINE upto(n) == 1 .. n
            T == {upto(n) : n \in S}
<1>1. S \subseteq Nat
  BY LearningAssumption DEF Files
<1>2. PICK x \in T : \A y \in T : ~ (y \subseteq x /\ y # x)
  <2>1. \A n \in S : upto(n) \subseteq Files  BY LearningAssumption DEF Files
  <2>2. T \subseteq SUBSET Files /\ T # {}  BY <2>1
  <2>. HIDE DEF T
  <2>. QED BY <2>2, Minimal, FilesAreFinite
<1>3. PICK n \in S : x = upto(n)
  BY <1>2
<1>4. ASSUME NEW m \in S, m < n PROVE FALSE
  <2>1. upto(m) \in T  OBVIOUS
  <2>2. upto(m) \subseteq upto(n)  BY <1>1, <1>4
  <2>3. n \in upto(n) /\ n \notin upto(m)  BY <1>1, <1>4 DEF Files
  <2>4. upto(m) # upto(n)  BY <2>3
  <2>. HIDE DEF T, upto
  <2>. QED BY <1>2, <1>3, <2>1, <2>2, <2>4
<1>5. \A m \in S : n <= m
  BY <1>1, <1>4
<1>. QED BY <1>5 DEF First

LEMMA Limits ==
  /\ MaxLearnings \in Nat /\ MaxSaves \in Nat /\ MaxFaults \in Nat
  /\ \A b \in Bounds : b.learnings <= MaxLearnings /\ b.saves <= MaxSaves /\ b.faults <= MaxFaults
<1>. DEFINE L == {b.learnings : b \in Bounds}
            S == {b.saves : b \in Bounds}
            F == {b.faults : b \in Bounds}
<1>1. /\ L \subseteq Nat /\ S \subseteq Nat /\ F \subseteq Nat
      /\ L # {} /\ S # {} /\ F # {}
  BY LearningAssumption
<1>2. IsFiniteSet(L) /\ IsFiniteSet(S) /\ IsFiniteSet(F)
  <2>1. IsFiniteSet(Bounds)  BY LearningAssumption
  <2>2. [b \in Bounds |-> b.learnings] \in Surjection(Bounds, L)  BY DEF Surjection
  <2>3. [b \in Bounds |-> b.saves] \in Surjection(Bounds, S)  BY DEF Surjection
  <2>4. [b \in Bounds |-> b.faults] \in Surjection(Bounds, F)  BY DEF Surjection
  <2>. HIDE DEF L, S, F
  <2>. QED BY <2>1, <2>2, <2>3, <2>4, FS_Surjection
<1>3. \A b \in Bounds : b.learnings \in L /\ b.saves \in S /\ b.faults \in F
  OBVIOUS
<1>4. MaxLearnings = Most(L) /\ MaxSaves = Most(S) /\ MaxFaults = Most(F)
  BY DEF MaxLearnings, MaxSaves, MaxFaults
<1>. HIDE DEF L, S, F
<1>5. Most(L) \in L /\ \A n \in L : n <= Most(L)  BY <1>1, <1>2, MostIsMost
<1>6. Most(S) \in S /\ \A n \in S : n <= Most(S)  BY <1>1, <1>2, MostIsMost
<1>7. Most(F) \in F /\ \A n \in F : n <= Most(F)  BY <1>1, <1>2, MostIsMost
<1>. QED BY <1>1, <1>3, <1>4, <1>5, <1>6, <1>7

Contents == 0 .. (MaxLearnings + MaxSaves)
Edits == [Files -> Contents \cup {None}]
RuleFile == [version : Versions, text : Texts]
Run == [started : Nat, answered : BOOLEAN]

Charges == [ledger : {"none", "estimate", "cost", "zero"}, tries : 0 .. MaxAttempts,
            unbilled : BOOLEAN, billed : BOOLEAN]
Calls == [call : {"none", "run", "accept", "save"},
          pc : {"idle", "reserve", "post", "read", "settle", "answered", "failed", "stage",
                "apply", "write", "fill", "mark"},
          todo : SUBSET Files, text : Nat, edit : Edits, charge : Charges]

Asking == {"reserve", "post", "read", "settle", "answered", "failed"}
Applying == {"apply", "write", "fill"}

(* Where a call is, by its kind; what it has still to write is among its edits, and the version *)
(* it is about to write exists.                                                                *)
Stages ==
  /\ op \in Calls /\ holder \in Clients \cup {None}
  /\ holder = None => op = Idle
  /\ op.call = "none" => holder = None
  /\ op.call = "run" => op.pc \in Asking \cup {"stage"}
  /\ op.call = "accept" => op.pc \in Applying \cup {"mark"}
  /\ op.call = "save" => op.pc \in Applying
  /\ op.pc \in {"write", "fill"} => op.todo # {} /\ op.text \in Versions
  /\ op.pc \in {"idle"} \cup Asking => op.todo = {}
  /\ op.pc = "mark" => op.todo = {} /\ staged = Nothing
  /\ op.pc = "reserve" => op.charge = NoCharge
  /\ op.pc = "post" => op.charge.tries < MaxAttempts
  /\ \A f \in op.todo : op.edit[f] # None
  /\ op.call = "run" => learnings > 0

Counts ==
  /\ bound \in Bounds
  /\ learnings \in 0 .. bound.learnings /\ saves \in 0 .. bound.saves
  /\ faults \in 0 .. bound.faults

FilesTyped ==
  /\ live \in [Files -> RuleFile \cup {None}]
  /\ archive \in [Files -> [Versions -> Texts \cup {None}]]
  /\ staged \in Edits
  /\ seen \in [Clients -> Edits]
  /\ past \subseteq Files \X Versions \X Contents

(* A file that is rewritten has been moved away, then it is empty. *)
HalfWritten ==
  /\ op.pc = "write" => live[First(op.todo)] = None
  /\ op.pc = "fill" => live[First(op.todo)] = [version |-> 1, text |-> Torn]

LabelsTyped ==
  /\ clock \in Nat /\ marker \in -1 .. clock
  /\ runs \in Seq(Run)

Steps == {"none", "launched", "constructed", "asked", "served"}
Readings == [Files -> Texts \cup {None}]
Children ==
  [pc : Steps, paths : SUBSET Files, launched : Readings, digest : Readings, made : Readings]
ChildTyped ==
  /\ child \in Children /\ apart \in BOOLEAN
  /\ \A d \in DOMAIN cache : cache[d] \in Readings

(* The version a file has, also while it is rewritten, and the edits that are still to raise it, *)
(* stay within the calls that were made: so no version number runs out.                          *)
Rewritten(f) == op.pc \in {"write", "fill"} /\ f = First(op.todo)
Height(f) ==
  IF Rewritten(f) THEN op.text - 1 ELSE IF live[f] = None THEN 0 ELSE live[f].version
Waiting(f) == IF op.call = "accept" THEN f \in op.todo ELSE staged[f] # None \/ op.call = "run"
Owed(f) ==
  (IF Waiting(f) THEN 1 ELSE 0) + (IF op.call = "save" /\ f \in op.todo THEN 1 ELSE 0)
Fits(f) == Height(f) + Owed(f) <= 1 + learnings + saves + faults
VersionsSuffice == \A f \in Files : Fits(f)

TypeInv ==
  /\ Stages /\ Counts /\ FilesTyped /\ HalfWritten /\ LabelsTyped /\ ChildTyped /\ VersionsSuffice

-------------------------------------------------------------------------------
(* The completion. *)
ChargeInv ==
  /\ op.pc = "post" => op.charge.ledger = "estimate"
  /\ op.pc = "read" => ~op.charge.unbilled /\ op.charge.ledger = "estimate"
  /\ op.pc = "settle" => /\ op.charge.ledger \in {"estimate", "cost"}
                         /\ op.charge.unbilled => op.charge.ledger = "estimate"
  /\ op.pc \in {"settle", "answered", "failed"} => ~(op.charge.billed /\ op.charge.unbilled)
  /\ op.pc \in {"answered", "failed"} =>
       /\ ~op.charge.unbilled => op.charge.ledger \in {"estimate", "cost"}
       /\ op.charge.unbilled => op.charge.ledger = "zero"

(* The labels that are learned lie behind the marker, those a learning run works with before it. *)
LabelInv ==
  /\ \A r \in DOMAIN runs : runs[r].started <= clock
  /\ basis \subseteq DOMAIN runs /\ learned \subseteq DOMAIN runs
  /\ faults = 0 => /\ \A r \in learned : runs[r].started <= marker
                   /\ op.call = "run" => \A r \in basis : runs[r].started > marker

(* Every version of a file is below its height, or the live one; the archive has the others. *)
HistoryInv ==
  faults = 0 =>
    /\ \A f \in Files :
         ~Rewritten(f) => live[f] # None /\ <<f, live[f].version, live[f].text>> \in past
    /\ \A p \in past :
         IF Rewritten(p[1]) THEN p[2] < op.text /\ archive[p[1]][p[2]] = p[3]
         ELSE \/ live[p[1]] = [version |-> p[2], text |-> p[3]]
              \/ p[2] < live[p[1]].version /\ archive[p[1]][p[2]] = p[3]

(* The edits of the n-th learning run, and the files that have had them. *)
EditOf(n) == [f \in Files |-> IF f \in offered[n] THEN n ELSE None]
Applied(n) == {f \in Files : \E p \in past : p[1] = f /\ p[3] = n}
Learnt == 1 .. MaxLearnings

Offers(edit) == \E n \in Learnt : n <= learnings /\ edit = EditOf(n) /\ Applied(n) = {}

(* No text comes into force before it is offered, or is offered before it is asked for. *)
OffersAreNew ==
  /\ offered \in [Learnt -> SUBSET Files]
  /\ \A p \in past : p[3] \in Learnt => p[3] <= learnings
  /\ \A n \in Learnt : n > learnings => offered[n] = {}
  /\ op.pc \in Asking => offered[learnings] = {}
  /\ op.call = "run" => Applied(learnings) = {}

(* What is staged is what one learning run offered, was shown, and no file has it yet. *)
StagingIsWhole ==
  /\ op.pc = "stage" => /\ op.edit = EditOf(learnings) /\ op.todo \subseteq offered[learnings]
                        /\ staged = [f \in Files |-> IF f \in op.todo THEN None ELSE op.edit[f]]
  /\ op.pc # "stage" /\ op.call # "accept" =>
       /\ staged = Nothing \/ Offers(staged)
       /\ staged # Nothing => \E c \in Clients : seen[c] = staged
  /\ op.call = "accept" /\ op.pc # "mark" => staged = op.edit

(* An accept brings the edits of one learning run into force, one file after the other. *)
WholeSoFar ==
  /\ op.call = "save" => \A f \in Files : op.edit[f] \notin Learnt
  /\ IF op.call = "accept" /\ op.edit # Nothing
       THEN \E n \in Learnt :
              /\ n <= learnings /\ op.edit = EditOf(n) /\ op.todo \subseteq offered[n]
              /\ Applied(n) = offered[n] \ op.todo
              /\ \A m \in Learnt \ {n} : Applied(m) \in {{}, offered[m]}
       ELSE /\ op.call = "accept" => op.todo = {}
            /\ \A m \in Learnt : Applied(m) \in {{}, offered[m]}

ProposalInv == faults = 0 => OffersAreNew /\ StagingIsWhole /\ WholeSoFar

(* Beside the file that is being written, only interruptions leave damage. *)
DamageInv ==
  Cardinality({f \in Damaged : ~Rewritten(f)}) <= faults

(* No rule is edited beside a run: then a child reads what was in force when it was launched.    *)
RulesInv ==
  apart =>
    /\ \A d \in DOMAIN cache : cache[d] = d
    /\ child.pc # "none" => ~Editing
    /\ child.pc = "launched" => child.launched = Read(child.paths)
    /\ child.pc \in {"constructed", "asked", "served"} =>
         child.launched = Read(child.paths) /\ child.digest = child.launched
    /\ child.pc \in {"asked", "served"} => child.made = child.launched

-------------------------------------------------------------------------------
(* Types: every conjunct of TypeInv is kept by every step. *)

LEMMA NoneIsOther ==
  /\ None \notin Clients /\ None \notin Contents /\ None \notin Texts /\ None \notin RuleFile
  /\ 0 \in Contents /\ 0 \in Texts /\ Torn \in Texts /\ Contents \subseteq Texts
  /\ 1 \in Versions /\ Versions \subseteq Nat
<1>1. Contents \subseteq Int /\ Texts \subseteq Int /\ Versions \subseteq Int
  BY Limits DEF Contents, Texts, Versions, Torn
<1>2. RuleFile \subseteq [version : Int, text : Int]
  BY <1>1 DEF RuleFile
<1>3. /\ 0 \in Contents /\ 0 \in Texts /\ Torn \in Texts /\ Contents \subseteq Texts
      /\ 1 \in Versions /\ Versions \subseteq Nat
  BY Limits DEF Contents, Texts, Torn, Versions
<1>. QED BY <1>1, <1>2, <1>3, LearningAssumption

LEMMA InitTyped == Init => TypeInv
<1>. SUFFICES ASSUME Init PROVE TypeInv
  OBVIOUS
<1>. USE NoneIsOther, Limits DEF Init
<1>1. Nothing \in Edits
  BY DEF Nothing, Edits
<1>2. Idle \in Calls
  BY <1>1, LearningAssumption DEF Idle, Calls, NoCharge, Charges
<1>3. Stages
  BY <1>2 DEF Stages, Idle, Asking, Applying
<1>4. Counts
  BY LearningAssumption DEF Counts
<1>5. FilesTyped
  <2>1. live \in [Files -> RuleFile \cup {None}]  BY DEF RuleFile
  <2>2. archive \in [Files -> [Versions -> Texts \cup {None}]]  OBVIOUS
  <2>3. past \subseteq Files \X Versions \X Contents  OBVIOUS
  <2>. QED BY <1>1, <2>1, <2>2, <2>3 DEF FilesTyped
<1>6. LabelsTyped
  BY DEF LabelsTyped
<1>7. ChildTyped
  BY <1>1 DEF ChildTyped, NoChild, Steps, Children, Readings, Nothing
<1>8. VersionsSuffice
  <2>. SUFFICES ASSUME NEW f \in Files PROVE Height(f) + Owed(f) <= 1 + learnings + saves + faults
    BY DEF VersionsSuffice, Fits
  <2>1. Height(f) = 1
    <3>1. live[f] = [version |-> 1, text |-> 0] /\ live[f] \in RuleFile
      BY DEF RuleFile
    <3>2. ~Rewritten(f)
      BY DEF Rewritten, Idle
    <3>. QED BY <3>1, <3>2 DEF Height
  <2>2. Owed(f) = 0
    BY DEF Owed, Waiting, Idle, Nothing
  <2>. QED BY <2>1, <2>2
<1>9. HalfWritten
  BY DEF HalfWritten, Idle
<1>. QED BY <1>3, <1>4, <1>5, <1>6, <1>7, <1>8, <1>9 DEF TypeInv

(* The actions that leave the call that is under way alone. *)
Beside ==
  \/ \E c \in Clients : View(c)
  \/ Launch \/ Construct \/ Hit \/ Ask \/ Store \/ Finish \/ Tick
  \/ \E r \in DOMAIN runs, answers \in BOOLEAN : SubmitQuality(r, answers)
  \/ UNCHANGED vars

LEMMA BesideLeaves ==
  Beside => UNCHANGED <<fileVars, op, holder, staged, marker, learnings, saves, faults, bound,
                        offered, basis, learned>>
BY DEF Beside, View, Launch, Construct, Hit, Ask, Store, Finish, Tick, SubmitQuality, vars,
   fileVars,
       countVars, ghostVars, labelVars, childVars

LEMMA CountsStep == TypeInv /\ [Next]_vars => Counts'
<1>. SUFFICES ASSUME TypeInv, [Next]_vars PROVE Counts'
  OBVIOUS
<1>. USE LearningAssumption DEF TypeInv, Counts, countVars
<1>0. bound.learnings \in Nat /\ bound.saves \in Nat /\ bound.faults \in Nat
  OBVIOUS
<1>1. CASE Beside
  BY <1>1, BesideLeaves
<1>2. ASSUME NEW c \in Clients, Gather(c) \/ Accept(c) \/ Reject(c) \/ Save(c) PROVE Counts'
  <2>1. CASE Gather(c)  BY <1>0, <2>1 DEF Gather
  <2>2. CASE Accept(c)  BY <2>2 DEF Accept
  <2>3. CASE Reject(c)  BY <2>3 DEF Reject
  <2>4. CASE Save(c)    BY <1>0, <2>4 DEF Save
  <2>. QED BY <1>2, <2>1, <2>2, <2>3, <2>4
<1>3. CASE Reserve \/ Post \/ ReadBody \/ SettleUnbilled
  BY <1>3 DEF Reserve, Post, ReadBody, SettleUnbilled, Completing
<1>4. CASE Optimize \/ Stage \/ Staged \/ LearningError
  BY <1>4 DEF Optimize, Stage, Staged, LearningError
<1>5. CASE Archive \/ Open \/ Fill \/ Saved \/ Discard \/ Mark
  BY <1>5 DEF Archive, Open, Fill, Saved, Discard, Mark
<1>6. CASE Interrupt
  BY <1>0, <1>6 DEF Interrupt
<1>. QED BY <1>1, <1>2, <1>3, <1>4, <1>5, <1>6 DEF Next, Beside

LEMMA ReadIsReading == TypeInv => \A paths : Read(paths) \in Readings
BY DEF TypeInv, FilesTyped, Read, Readings, RuleFile

LEMMA ChildStep == TypeInv /\ [Next]_vars => ChildTyped'
<1>. SUFFICES ASSUME TypeInv, [Next]_vars PROVE ChildTyped'
  OBVIOUS
<1>0. NoChild \in Children
  BY NoneIsOther DEF NoChild, Children, Steps, Nothing, Readings
<1>. USE ReadIsReading DEF TypeInv, ChildTyped, childVars, ghostVars
<1>1. CASE UNCHANGED <<child, cache, apart>>
  BY <1>1
<1>2. CASE \E c \in Clients : Accept(c) \/ Save(c)
  BY <1>2 DEF Accept, Save
<1>3. CASE Launch
  <2>1. Existing \subseteq Files  BY DEF Existing
  <2>2. child' \in Children
    BY <1>0, <1>3, <2>1 DEF Launch, Children, Steps
  <2>. QED BY <1>3, <2>2 DEF Launch
<1>4. CASE Construct
  <2>1. child' \in Children
    BY <1>4 DEF Construct, Children, Steps
  <2>. QED BY <1>4, <2>1 DEF Construct
<1>5. CASE Hit
  <2>1. child' \in Children
    BY <1>5 DEF Hit, Children, Steps
  <2>. QED BY <1>5, <2>1 DEF Hit
<1>6. CASE Ask
  <2>1. child' \in Children
    BY <1>6 DEF Ask, Children, Steps
  <2>. QED BY <1>6, <2>1 DEF Ask
<1>7. CASE Store
  <2>1. child' \in Children
    BY <1>7 DEF Store, Children, Steps
  <2>2. \A d \in DOMAIN cache' : cache'[d] \in Readings
    BY <1>7 DEF Store, Children
  <2>. QED BY <1>7, <2>1, <2>2 DEF Store
<1>8. CASE Finish
  BY <1>0, <1>8 DEF Finish
<1>. QED
  BY <1>1, <1>2, <1>3, <1>4, <1>5, <1>6, <1>7, <1>8 DEF Next, Gather, View, Reject, Reserve, Post,
     ReadBody,
     SettleUnbilled, Completing, Optimize, Stage, Staged, LearningError, Archive, Open, Fill,
     Saved, Discard,
     Mark, SubmitQuality, Tick, Interrupt, vars

LEMMA LabelsStep == TypeInv /\ [Next]_vars => LabelsTyped'
<1>. SUFFICES ASSUME TypeInv, [Next]_vars PROVE LabelsTyped'
  OBVIOUS
<1>. USE DEF TypeInv, LabelsTyped, labelVars
<1>1. CASE UNCHANGED <<clock, marker, runs>>
  BY <1>1
<1>2. CASE Mark
  BY <1>2 DEF Mark
<1>3. CASE Launch
  BY <1>3 DEF Launch, Run
<1>4. ASSUME NEW r \in DOMAIN runs, NEW answers \in BOOLEAN, SubmitQuality(r, answers)
      PROVE  LabelsTyped'
  <2>1. runs[r] \in Run
    OBVIOUS
  <2>2. [runs[r] EXCEPT !.answered = answers] \in Run
    BY <2>1 DEF Run
  <2>3. runs' = [runs EXCEPT ![r] = [runs[r] EXCEPT !.answered = answers]]
    BY <1>4 DEF SubmitQuality
  <2>4. runs' \in Seq(Run)
    BY <2>2, <2>3
  <2>. QED BY <1>4, <2>4 DEF SubmitQuality
<1>5. CASE Tick
  BY <1>5 DEF Tick
<1>6. CASE Interrupt
  BY <1>6 DEF Interrupt
<1>. QED
  BY <1>1, <1>2, <1>3, <1>4, <1>5, <1>6 DEF Next, Gather, View, Accept, Reject, Save, Reserve,
     Post, ReadBody,
     SettleUnbilled, Completing, Optimize, Stage, Staged, LearningError, Archive, Open, Fill,
     Saved, Discard,
     Construct, Hit, Ask, Store, Finish, vars

LEMMA IdleIsCall == Idle \in Calls /\ Nothing \in Edits /\ NoCharge \in Charges
BY NoneIsOther, LearningAssumption DEF Idle, Calls, NoCharge, Charges, Nothing, Edits

LEMMA TextsFit ==
  ASSUME TypeInv
  PROVE  /\ learnings \in Contents
         /\ saves < bound.saves => MaxLearnings + saves + 1 \in Contents
         /\ learnings + saves + faults <= MaxLearnings + MaxSaves + MaxFaults
         /\ learnings \in Nat /\ saves \in Nat /\ faults \in Nat
<1>1. /\ bound.learnings \in Nat /\ bound.learnings <= MaxLearnings
      /\ bound.saves \in Nat /\ bound.saves <= MaxSaves
      /\ bound.faults \in Nat /\ bound.faults <= MaxFaults
  BY LearningAssumption, Limits DEF TypeInv, Counts
<1>. QED BY <1>1, Limits DEF TypeInv, Counts, Contents

(* What is written next, and the version it gets, are there. *)
LEMMA NextFile ==
  ASSUME TypeInv, op.todo # {}
  PROVE  /\ First(op.todo) \in op.todo /\ First(op.todo) \in Files
         /\ op.edit[First(op.todo)] \in Contents
<1>1. op.todo \subseteq Files
  BY DEF TypeInv, Stages, Calls
<1>2. First(op.todo) \in op.todo
  BY <1>1, FirstIsOne
<1>3. op.edit \in Edits /\ \A f \in op.todo : op.edit[f] # None
  BY DEF TypeInv, Stages, Calls
<1>. QED BY <1>1, <1>2, <1>3 DEF Edits

LEMMA VersionIsThere ==
  ASSUME TypeInv, op.pc = "apply", op.todo # {}, live[First(op.todo)] # None
  PROVE  /\ live[First(op.todo)] \in RuleFile
         /\ live[First(op.todo)].version + 1 \in Versions
<1>. DEFINE f == First(op.todo)
<1>1. f \in op.todo /\ f \in Files
  BY NextFile
<1>. HIDE DEF f
<1>2. live[f] \in RuleFile /\ live[f].version \in Nat
  BY <1>1, NoneIsOther DEF f, TypeInv, FilesTyped, RuleFile
<1>3. Height(f) = live[f].version
  BY DEF f, Height, Rewritten
<1>4. Owed(f) >= 1
  <2>1. op.call \in {"accept", "save"}
    BY DEF TypeInv, Stages, Calls, Idle, Asking
  <2>. QED BY <1>1, <2>1 DEF Owed, Waiting
<1>5. Height(f) + Owed(f) <= 1 + learnings + saves + faults
  BY <1>1 DEF TypeInv, VersionsSuffice, Fits
<1>6. Owed(f) \in Nat
  BY DEF Owed
<1>7. live[f].version + 1 \in Versions
  BY <1>2, <1>3, <1>4, <1>5, <1>6, TextsFit, Limits DEF Versions
<1>. QED BY <1>2, <1>7 DEF f

LEMMA StagesStep == TypeInv /\ [Next]_vars => Stages'
<1>. SUFFICES ASSUME TypeInv, [Next]_vars PROVE Stages'
  OBVIOUS
<1>. USE IdleIsCall DEF TypeInv, Stages, Asking, Applying
<1>i. op \in Calls /\ holder \in Clients \cup {None}
  OBVIOUS
<1>0. ASSUME op' = Idle, holder' = None PROVE Stages'
  BY <1>0 DEF Idle
<1>1. CASE Beside
  BY <1>1, BesideLeaves
<1>2. ASSUME NEW c \in Clients, Gather(c) PROVE Stages'
  <2>1. op' = [Idle EXCEPT !.call = "run", !.pc = "reserve"] /\ holder' = c /\ staged' = staged
    BY <1>2 DEF Gather, Enter
  <2>2. op' \in Calls
    BY <2>1 DEF Calls, Idle
  <2>3. learnings' > 0
    BY <1>2, TextsFit DEF Gather
  <2>. QED BY <2>1, <2>2, <2>3, NoneIsOther, LearningAssumption DEF Idle
<1>3. ASSUME NEW c \in Clients, Accept(c) PROVE Stages'
  <2>1. op' = [Idle EXCEPT !.call = "accept", !.pc = "apply", !.edit = staged,
                           !.todo = {f \in Files : staged[f] # None}] /\ holder' = c
                           /\ staged' = staged
    BY <1>3 DEF Accept, Enter
  <2>2. op' \in Calls
    BY <2>1 DEF Calls, Idle, FilesTyped
  <2>. QED BY <2>1, <2>2, NoneIsOther DEF Idle
<1>4. ASSUME NEW c \in Clients, Reject(c) PROVE Stages'
  BY <1>4 DEF Reject, countVars
<1>5. ASSUME NEW c \in Clients, Save(c) PROVE Stages'
  <2>1. PICK f \in Existing :
          op' = [Idle EXCEPT !.call = "save", !.pc = "apply", !.todo = {f},
                             !.edit = [Nothing EXCEPT ![f] = MaxLearnings + saves + 1]]
    BY <1>5 DEF Save, Enter
  <2>2. f \in Files /\ MaxLearnings + saves + 1 \in Contents
    BY <1>5, TextsFit DEF Save, Existing
  <2>3. [Nothing EXCEPT ![f] = MaxLearnings + saves + 1] \in Edits
    BY <2>2 DEF Edits
  <2>4. op' \in Calls
    BY <2>1, <2>2, <2>3 DEF Calls, Idle
  <2>5. \A g \in op'.todo : op'.edit[g] # None
    BY <2>1, <2>2, NoneIsOther DEF Idle, Nothing
  <2>6. holder' = c
    BY <1>5 DEF Save, Enter
  <2>. QED BY <2>1, <2>4, <2>5, <2>6, NoneIsOther DEF Idle
<1>6. CASE Reserve
  <2>1. op' \in Calls
    BY <1>6 DEF Reserve, Calls, Charges
  <2>2. op'.charge.tries < MaxAttempts
    BY <1>6, LearningAssumption DEF Reserve, Calls, Charges, NoCharge
  <2>. QED BY <1>6, <2>1, <2>2 DEF Reserve, Completing, Calls, countVars, Idle
<1>7. CASE Post
  <2>1. PICK reply \in {"ok", "busy", "refused", "lost"}, billed \in BOOLEAN :
          op' = [op EXCEPT
            !.pc = CASE reply = "ok" -> "read"
                     [] reply = "busy" /\ op.charge.tries + 1 < MaxAttempts -> "post"
                     [] OTHER -> "settle",
            !.charge.tries = @ + 1,
            !.charge.unbilled = reply \in {"busy", "refused"},
            !.charge.billed = billed]
    BY <1>7 DEF Post
  <2>2. op.pc = "post" /\ op.charge.tries + 1 \in 0 .. MaxAttempts
    BY <1>7, LearningAssumption DEF Post, Calls, Charges
  <2>3. op'.pc \in {"read", "post", "settle"}
    BY <2>1 DEF Calls
  <2>4. op'.charge = [op.charge EXCEPT !.tries = @ + 1, !.unbilled = reply \in {"busy", "refused"},
                                       !.billed = billed]
    BY <2>1 DEF Calls, Charges
  <2>5. op'.charge \in Charges
    <3>1. op.charge \in Charges  BY DEF Calls
    <3>. DEFINE c(unbilled) == [op.charge EXCEPT !.tries = @ + 1, !.unbilled = unbilled,
                                                 !.billed = billed]
    <3>2. \A unbilled \in BOOLEAN : c(unbilled) \in Charges
      BY <2>2, <3>1 DEF Charges
    <3>3. op'.charge = c(TRUE) \/ op'.charge = c(FALSE)
      <4>1. CASE reply \in {"busy", "refused"}  BY <2>4, <4>1
      <4>2. CASE reply \notin {"busy", "refused"}
        <5>1. (reply \in {"busy", "refused"}) = FALSE  BY <4>2
        <5>. QED BY <2>4, <5>1
      <4>. QED BY <4>1, <4>2
    <3>. QED BY <3>2, <3>3
  <2>6. op' = [op EXCEPT !.pc = op'.pc, !.charge = op'.charge]
    BY <2>1 DEF Calls
  <2>7. op' \in Calls
    BY <2>3, <2>5, <2>6 DEF Calls
  <2>8. op'.pc = "post" => op'.charge.tries < MaxAttempts
    <3>1. op'.pc = "post" => op.charge.tries + 1 < MaxAttempts
      BY <2>1 DEF Calls
    <3>. QED BY <3>1, <2>4 DEF Calls, Charges
  <2>. HIDE DEF Calls
  <2>9. op'.call = op.call /\ op'.todo = op.todo /\ op'.edit = op.edit
    BY <2>6 DEF Calls
  <2>. QED BY <1>7, <2>2, <2>3, <2>7, <2>8, <2>9 DEF Completing, countVars, Post, Idle
<1>8. CASE ReadBody
  <2>1. PICK cost, content \in BOOLEAN :
          op' = [op EXCEPT !.pc = IF content THEN "answered" ELSE "settle",
                           !.charge.ledger = IF cost THEN "cost" ELSE @]
    BY <1>8 DEF ReadBody
  <2>2. op' \in Calls
    BY <2>1 DEF Calls, Charges
  <2>. QED BY <1>8, <2>1, <2>2 DEF ReadBody, Completing, Calls, countVars, Idle
<1>9. CASE SettleUnbilled
  <2>1. op' \in Calls
    BY <1>9 DEF SettleUnbilled, Calls, Charges
  <2>. QED BY <1>9, <2>1 DEF SettleUnbilled, Completing, Calls, countVars, Idle
<1>10. CASE Optimize
  <2>1. PICK S \in SUBSET (Files \cup {Outside}) :
          LET edit == [f \in Files |-> IF f \in S THEN learnings ELSE None] IN
          IF ~Parsed(S) THEN op' = [op EXCEPT !.pc = "failed"]
          ELSE op' = [op EXCEPT !.pc = "stage", !.todo = S, !.edit = edit, !.charge = NoCharge]
    BY <1>10 DEF Optimize
  <2>2. CASE ~Parsed(S)
    BY <1>10, <2>1, <2>2 DEF Optimize, Calls, countVars, Idle
  <2>3. CASE Parsed(S)
    <3>1. S \subseteq Files  BY <2>3 DEF Parsed
    <3>2. [f \in Files |-> IF f \in S THEN learnings ELSE None] \in Edits
      BY TextsFit DEF Edits
    <3>3. op' = [op EXCEPT !.pc = "stage", !.todo = S, !.charge = NoCharge,
                           !.edit = [f \in Files |-> IF f \in S THEN learnings ELSE None]]
      BY <2>1, <2>3
    <3>4. op' \in Calls
      BY <3>1, <3>2, <3>3 DEF Calls
    <3>5. \A f \in op'.todo : op'.edit[f] # None
      BY <3>1, <3>3, TextsFit, NoneIsOther DEF Calls
    <3>6. op'.call = op.call /\ op.call = "run" /\ op'.pc = "stage"
      BY <1>10, <3>3 DEF Optimize, Calls, Idle
    <3>. QED BY <1>10, <3>4, <3>5, <3>6 DEF Optimize, countVars, Idle
  <2>. QED BY <2>2, <2>3
<1>11. CASE Stage
  <2>1. PICK f \in op.todo : op' = [op EXCEPT !.todo = @ \ {f}]
    BY <1>11 DEF Stage
  <2>2. op' \in Calls
    BY <2>1 DEF Calls
  <2>. QED BY <1>11, <2>1, <2>2 DEF Stage, Calls, countVars, Idle
<1>12. CASE Staged \/ LearningError \/ Saved \/ Interrupt
  BY <1>0, <1>12 DEF Staged, LearningError, Saved, Interrupt, Leave
<1>13. CASE Archive
  <2>1. op.pc = "apply" /\ op.todo # {}
    BY <1>13 DEF Archive
  <2>2. PICK v \in Versions : op' = [op EXCEPT !.pc = "write", !.text = v]
    BY <1>13, <2>1, VersionIsThere, NoneIsOther DEF Archive
  <2>3. op' \in Calls
    BY <2>2, NoneIsOther DEF Calls
  <2>. QED BY <1>13, <2>1, <2>2, <2>3 DEF Archive, Calls, countVars, Idle
<1>14. CASE Open
  <2>1. op' \in Calls
    BY <1>14 DEF Open, Calls
  <2>. QED BY <1>14, <2>1 DEF Open, Calls, countVars, Idle
<1>15. CASE Fill
  <2>1. op' = [op EXCEPT !.pc = "apply", !.todo = @ \ {First(op.todo)}]
    BY <1>15 DEF Fill
  <2>2. op' \in Calls
    BY <2>1 DEF Calls
  <2>. QED BY <1>15, <2>1, <2>2 DEF Fill, Calls, countVars, Idle
<1>16. CASE Discard
  <2>1. op' \in Calls
    BY <1>16 DEF Discard, Calls
  <2>. QED BY <1>16, <2>1 DEF Discard, Calls, countVars, Idle
<1>17. CASE Mark
  BY <1>0, <1>17 DEF Mark, Leave
<1>. QED
  BY <1>1, <1>2, <1>3, <1>4, <1>5, <1>6, <1>7, <1>8, <1>9, <1>10, <1>11, <1>12, <1>13, <1>14, <1>15,
     <1>16, <1>17 DEF Next, Beside

LEMMA FilesStep == TypeInv /\ [Next]_vars => FilesTyped'
<1>. SUFFICES ASSUME TypeInv, [Next]_vars PROVE FilesTyped'
  OBVIOUS
<1>. USE IdleIsCall DEF TypeInv, FilesTyped, fileVars
<1>1. CASE UNCHANGED <<fileVars, staged, seen>>
  BY <1>1
<1>2. ASSUME NEW c \in Clients, View(c) \/ Reject(c) PROVE FilesTyped'
  <2>1. CASE View(c)    BY <2>1 DEF View
  <2>2. CASE Reject(c)  BY <2>2 DEF Reject
  <2>. QED BY <1>2, <2>1, <2>2
<1>3. CASE Optimize \/ LearningError \/ Discard
  BY <1>3 DEF Optimize, LearningError, Discard
<1>4. CASE Stage
  <2>1. PICK f \in op.todo : staged' = [staged EXCEPT ![f] = op.edit[f]]
    BY <1>4 DEF Stage
  <2>2. op.edit \in Edits /\ f \in Files
    BY DEF Stages, Calls
  <2>3. staged' \in Edits
    BY <2>1, <2>2 DEF Edits
  <2>. QED BY <1>4, <2>3 DEF Stage
<1>5. CASE Staged \/ Mark
  BY <1>5 DEF Staged, Mark, Stages, Calls
<1>6. CASE Archive
  <2>. DEFINE f == First(op.todo)
  <2>0. op.pc = "apply" /\ op.todo # {}
    BY <1>6 DEF Archive
  <2>1. f \in Files
    BY <2>0, NextFile
  <2>2. CASE live[f] = None
    BY <1>6, <2>2 DEF Archive
  <2>3. CASE live[f] # None
    <3>1. live[f] \in RuleFile
      BY <2>0, <2>3, VersionIsThere
    <3>2. live[f].version \in Versions /\ live[f].text \in Texts
      BY <3>1 DEF RuleFile
    <3>3. /\ archive' =
               [archive EXCEPT ![f] = [archive[f] EXCEPT ![live[f].version] = live[f].text]]
          /\ live' = [live EXCEPT ![f] = None]
          /\ UNCHANGED <<staged, seen, past>>
      BY <1>6, <2>3 DEF Archive
    <3>. HIDE DEF f
    <3>4. [archive[f] EXCEPT ![live[f].version] = live[f].text] \in [Versions -> Texts \cup {None}]
      BY <2>1, <3>2
    <3>5. archive' \in [Files -> [Versions -> Texts \cup {None}]]
      BY <2>1, <3>3, <3>4
    <3>6. live' \in [Files -> RuleFile \cup {None}]
      BY <2>1, <3>3
    <3>. QED BY <3>3, <3>5, <3>6
  <2>. QED BY <2>2, <2>3
<1>7. CASE Open
  <2>1. First(op.todo) \in Files
    BY <1>7, NextFile DEF Open, Stages
  <2>2. [version |-> 1, text |-> Torn] \in RuleFile
    BY NoneIsOther DEF RuleFile
  <2>3. live' \in [Files -> RuleFile \cup {None}]
    BY <1>7, <2>1, <2>2 DEF Open
  <2>. QED BY <1>7, <2>3 DEF Open
<1>8. CASE Fill
  <2>. DEFINE f == First(op.todo)
  <2>1. f \in Files /\ op.edit[f] \in Contents /\ op.text \in Versions
    BY <1>8, NextFile DEF Fill, Stages
  <2>2. [version |-> op.text, text |-> op.edit[f]] \in RuleFile
    BY <2>1, NoneIsOther DEF RuleFile
  <2>3. /\ live' = [live EXCEPT ![f] = [version |-> op.text, text |-> op.edit[f]]]
        /\ past' = past \cup {<<f, op.text, op.edit[f]>>}
        /\ UNCHANGED <<archive, staged, seen>>
    BY <1>8 DEF Fill
  <2>. HIDE DEF f
  <2>. QED BY <2>1, <2>2, <2>3
<1>. QED
  BY <1>1, <1>2, <1>3, <1>4, <1>5, <1>6, <1>7, <1>8 DEF Next, Gather, Accept, Save, Reserve, Post,
     ReadBody,
     SettleUnbilled, Completing, Saved, Launch, Construct, Hit, Ask, Store, Finish, SubmitQuality,
     Tick,
     Interrupt, vars

LEMMA HalfWrittenStep == TypeInv /\ [Next]_vars => HalfWritten'
<1>. SUFFICES ASSUME TypeInv, [Next]_vars PROVE HalfWritten'
  OBVIOUS
<1>s. Stages /\ HalfWritten /\ FilesTyped
  BY DEF TypeInv
<1>1. CASE UNCHANGED <<live, op>>
  BY <1>1, <1>s DEF HalfWritten
<1>2. CASE op'.pc \notin {"write", "fill"}
  BY <1>2 DEF HalfWritten
<1>3. CASE Archive
  <2>1. op'.pc = "write" /\ op'.todo = op.todo
    BY <1>3, <1>s DEF Archive, Stages, Calls
  <2>2. First(op.todo) \in Files
    BY <1>3, NextFile DEF Archive
  <2>3. live'[First(op.todo)] = None
    BY <1>3, <1>s, <2>2 DEF Archive, FilesTyped
  <2>. QED BY <2>1, <2>3 DEF HalfWritten
<1>4. CASE Open
  <2>1. op'.pc = "fill" /\ op'.todo = op.todo
    BY <1>4, <1>s DEF Open, Stages, Calls
  <2>2. First(op.todo) \in Files
    BY <1>4, <1>s, NextFile DEF Open, Stages
  <2>3. live'[First(op.todo)] = [version |-> 1, text |-> Torn]
    BY <1>4, <1>s, <2>2 DEF Open, FilesTyped
  <2>. QED BY <2>1, <2>3 DEF HalfWritten
<1>5. CASE Beside
  BY <1>1, <1>5, BesideLeaves DEF fileVars
<1>6. ASSUME NEW c \in Clients, Gather(c) \/ Accept(c) \/ Reject(c) \/ Save(c) PROVE HalfWritten'
  BY <1>1, <1>2, <1>6 DEF Gather, Accept, Reject, Save, Enter, Idle, fileVars
<1>7. CASE Reserve \/ ReadBody \/ SettleUnbilled
  BY <1>2, <1>7, <1>s DEF Reserve, ReadBody, SettleUnbilled, Stages, Calls
<1>8. CASE Post
  BY <1>2, <1>8, <1>s DEF Post, Stages, Calls
<1>9. CASE Optimize \/ Stage
  BY <1>2, <1>9, <1>s DEF Optimize, Stage, Stages, Calls
<1>10. CASE Staged \/ LearningError \/ Saved \/ Mark \/ Interrupt
  BY <1>2, <1>10 DEF Staged, LearningError, Saved, Mark, Interrupt, Leave, Idle
<1>11. CASE Fill \/ Discard
  BY <1>2, <1>11, <1>s DEF Fill, Discard, Stages, Calls
<1>. QED
  BY <1>3, <1>4, <1>5, <1>6, <1>7, <1>8, <1>9, <1>10, <1>11 DEF Next, Beside

LEMMA HeightIsNat ==
  ASSUME TypeInv, NEW f \in Files
  PROVE  /\ Height(f) \in Nat /\ Owed(f) \in Nat
         /\ live[f] # None => live[f].version \in Nat \ {0}
         /\ Fits(f)
<1>1. live[f] # None => live[f].version \in Nat \ {0}
  BY NoneIsOther DEF TypeInv, FilesTyped, RuleFile, Versions
<1>2. Rewritten(f) => op.text - 1 \in Nat
  BY Limits DEF Rewritten, TypeInv, Stages, Versions
<1>. QED BY <1>1, <1>2 DEF TypeInv, VersionsSuffice, Height, Owed

LEMMA VersionsStep == TypeInv /\ [Next]_vars => VersionsSuffice'
<1>. SUFFICES ASSUME TypeInv, [Next]_vars, NEW f \in Files
              PROVE  Fits(f)'
  BY DEF VersionsSuffice
<1>. USE HeightIsNat, TextsFit, NoneIsOther DEF Fits
<1>s. Stages
  BY DEF TypeInv
<1>0. ASSUME UNCHANGED <<live, op, staged, learnings, saves, faults>> PROVE Fits(f)'
  <2>1. Height(f)' = Height(f) /\ Owed(f)' = Owed(f)
    BY <1>0 DEF Height, Owed, Waiting, Rewritten
  <2>. QED BY <1>0, <2>1
(* The call neither rewrites a file nor becomes one that does. *)
<1>. DEFINE plain == IF live[f] = None THEN 0 ELSE live[f].version
<1>p. op.pc \notin {"write", "fill"} => Height(f) = plain
  BY DEF Height, Rewritten
<1>q. op'.pc \notin {"write", "fill"} => Height(f)' = plain'
  BY DEF Height, Rewritten
<1>1. CASE Beside
  BY <1>0, <1>1, BesideLeaves DEF fileVars
<1>2. ASSUME NEW c \in Clients, Gather(c) PROVE Fits(f)'
  <2>1. op = Idle /\ op' = [Idle EXCEPT !.call = "run", !.pc = "reserve"]
    BY <1>2, <1>s DEF Gather, Enter, Stages
  <2>2. learnings' = learnings + 1 /\ UNCHANGED <<live, staged, saves, faults>>
    BY <1>2 DEF Gather, fileVars
  <2>3. Height(f)' = Height(f)
    BY <1>p, <1>q, <2>1, <2>2 DEF Idle
  <2>4. Owed(f)' <= 1
    BY <2>1 DEF Owed, Waiting, Idle
  <2>5. Owed(f)' \in Nat
    BY DEF Owed
  <2>. QED BY <2>2, <2>3, <2>4, <2>5
<1>3. ASSUME NEW c \in Clients, Accept(c) PROVE Fits(f)'
  <2>1. op = Idle /\ op' = [Idle EXCEPT !.call = "accept", !.pc = "apply", !.edit = staged,
                                        !.todo = {g \in Files : staged[g] # None}]
    BY <1>3, <1>s DEF Accept, Enter, Stages
  <2>2. UNCHANGED <<live, staged, learnings, saves, faults>>
    BY <1>3 DEF Accept, fileVars, countVars
  <2>3. Height(f)' = Height(f)
    BY <1>p, <1>q, <2>1, <2>2 DEF Idle
  <2>4. Owed(f)' = Owed(f)
    BY <2>1, <2>2 DEF Owed, Waiting, Idle
  <2>. QED BY <2>2, <2>3, <2>4
<1>4. ASSUME NEW c \in Clients, Reject(c) PROVE Fits(f)'
  <2>1. op = Idle /\ op' = op /\ staged' = Nothing /\ UNCHANGED <<live, learnings, saves, faults>>
    BY <1>4, <1>s DEF Reject, Stages, fileVars, countVars
  <2>2. Height(f)' = Height(f)
    BY <1>p, <1>q, <2>1 DEF Idle
  <2>3. Owed(f)' = 0
    BY <2>1 DEF Owed, Waiting, Idle, Nothing
  <2>. QED BY <2>1, <2>2, <2>3
<1>5. ASSUME NEW c \in Clients, Save(c) PROVE Fits(f)'
  <2>1. /\ op = Idle /\ op'.call = "save" /\ op'.pc = "apply"
        /\ saves' = saves + 1 /\ UNCHANGED <<live, staged, learnings, faults>>
    BY <1>5, <1>s DEF Save, Enter, Stages, Idle, fileVars
  <2>2. Height(f)' = Height(f)
    BY <1>p, <1>q, <2>1 DEF Idle
  <2>3. Owed(f)' <= Owed(f) + 1 /\ Owed(f)' \in Nat
    BY <2>1 DEF Owed, Waiting, Idle
  <2>. QED BY <2>1, <2>2, <2>3
<1>6. CASE Reserve \/ Post \/ ReadBody \/ SettleUnbilled
  <2>1. /\ op.pc \in Asking /\ op'.pc \in Asking
        /\ op.call = "run" /\ op'.call = "run"
        /\ UNCHANGED <<live, staged, learnings, saves, faults>>
    <3>1. op.pc \in Asking /\ UNCHANGED <<live, staged, learnings, saves, faults>>
      BY <1>6 DEF Reserve, Post, ReadBody, SettleUnbilled, Completing, fileVars, countVars, Asking
    <3>2. op.call = "run"
      BY <1>s, <3>1 DEF Stages, Asking, Applying, Calls, Idle
    <3>3. op'.call = "run"
      BY <1>6, <1>s, <3>2 DEF Stages, Calls, Reserve, Post, ReadBody, SettleUnbilled
    <3>4. op'.pc \in Asking
      <4>1. CASE Reserve  BY <1>s, <4>1 DEF Stages, Calls, Reserve, Asking
      <4>2. CASE Post     BY <1>s, <4>2 DEF Stages, Calls, Post, Asking
      <4>3. CASE ReadBody BY <1>s, <4>3 DEF Stages, Calls, ReadBody, Asking
      <4>4. CASE SettleUnbilled  BY <1>s, <4>4 DEF Stages, Calls, SettleUnbilled, Asking
      <4>. QED BY <1>6, <4>1, <4>2, <4>3, <4>4
    <3>. QED BY <3>1, <3>2, <3>3, <3>4
  <2>2. Height(f)' = Height(f)
    BY <1>p, <1>q, <2>1 DEF Asking
  <2>3. Owed(f)' = Owed(f)
    BY <2>1 DEF Owed, Waiting
  <2>. QED BY <2>1, <2>2, <2>3
<1>7. CASE Optimize \/ Stage
  <2>1. /\ op.call = "run" /\ op'.call = "run"
        /\ op.pc \notin {"write", "fill"} /\ op'.pc \notin {"write", "fill"}
        /\ UNCHANGED <<live, learnings, saves, faults>>
    <3>1. op.pc \in {"answered", "stage"} /\ op'.pc \in {"failed", "stage"} /\ op'.call = op.call
      <4>1. CASE Optimize  BY <1>s, <4>1 DEF Stages, Calls, Optimize
      <4>2. CASE Stage     BY <1>s, <4>2 DEF Stages, Calls, Stage
      <4>. QED BY <1>7, <4>1, <4>2
    <3>2. op.call = "run"
      BY <1>s, <3>1 DEF Stages, Asking, Applying, Calls, Idle
    <3>3. UNCHANGED <<live, learnings, saves, faults>>
      BY <1>7 DEF Optimize, Stage, fileVars, countVars
    <3>. QED BY <3>1, <3>2, <3>3
  <2>2. Height(f)' = Height(f)
    BY <1>p, <1>q, <2>1
  <2>3. Owed(f)' = Owed(f)
    BY <2>1 DEF Owed, Waiting
  <2>. QED BY <2>1, <2>2, <2>3
<1>8. CASE Staged \/ LearningError
  <2>1. /\ op.call = "run" /\ op.pc \notin {"write", "fill"}
        /\ op' = Idle /\ UNCHANGED <<live, learnings, saves, faults>>
    <3>1. op.pc \in {"reserve", "failed", "stage"} /\ op' = Idle
          /\ UNCHANGED <<live, learnings, saves, faults>>
      BY <1>8 DEF Staged, LearningError, Leave, fileVars, countVars
    <3>. QED BY <1>s, <3>1 DEF Stages, Asking, Applying, Calls, Idle
  <2>2. Height(f)' = Height(f)
    BY <1>p, <1>q, <2>1 DEF Idle
  <2>3. Owed(f)' <= Owed(f) /\ Owed(f)' \in Nat
    BY <2>1 DEF Owed, Waiting, Idle
  <2>. QED BY <2>1, <2>2, <2>3
<1>9. CASE Archive
  <2>1. /\ op.pc = "apply" /\ op.todo # {} /\ op'.pc = "write" /\ op'.todo = op.todo
        /\ op'.call = op.call /\ UNCHANGED <<staged, learnings, saves, faults>>
    BY <1>9, <1>s DEF Archive, Stages, Calls, countVars
  <2>2. Owed(f)' = Owed(f)
    BY <2>1 DEF Owed, Waiting
  <2>3. Height(f)' = Height(f)
    <3>1. Height(f) = plain
      BY <1>p, <2>1
    <3>2. CASE f = First(op.todo)
      <4>1. Height(f)' = op'.text - 1
        BY <2>1, <3>2 DEF Height, Rewritten
      <4>2. op'.text = IF live[f] = None THEN 1 ELSE live[f].version + 1
        BY <1>9, <1>s, <3>2 DEF Archive, Stages, Calls
      <4>. QED BY <3>1, <4>1, <4>2
    <3>3. CASE f # First(op.todo)
      <4>1. live'[f] = live[f]
        BY <1>9, <3>3 DEF Archive, TypeInv, FilesTyped
      <4>2. ~Rewritten(f)'
        BY <2>1, <3>3 DEF Rewritten
      <4>. QED BY <3>1, <4>1, <4>2 DEF Height
    <3>. QED BY <3>2, <3>3
  <2>. QED BY <2>1, <2>2, <2>3
<1>10. CASE Open
  <2>1. /\ op.pc = "write" /\ op'.pc = "fill" /\ op'.todo = op.todo /\ op'.text = op.text
        /\ op'.call = op.call /\ UNCHANGED <<staged, learnings, saves, faults>>
    BY <1>10, <1>s DEF Open, Stages, Calls, countVars
  <2>2. Owed(f)' = Owed(f)
    BY <2>1 DEF Owed, Waiting
  <2>3. Rewritten(f)' = Rewritten(f)
    BY <2>1 DEF Rewritten
  <2>4. ~Rewritten(f) => live'[f] = live[f]
    BY <1>10, <2>1 DEF Open, Rewritten, TypeInv, FilesTyped
  <2>5. Height(f)' = Height(f)
    BY <2>1, <2>3, <2>4 DEF Height
  <2>. QED BY <2>1, <2>2, <2>5
<1>11. CASE Fill
  <2>. DEFINE g == First(op.todo)
  <2>1. /\ op.pc = "fill" /\ op'.pc = "apply" /\ op'.todo = op.todo \ {g}
        /\ op'.call = op.call /\ UNCHANGED <<staged, learnings, saves, faults>>
    BY <1>11, <1>s DEF Fill, Stages, Calls, countVars
  <2>2. g \in op.todo /\ g \in Files /\ op.text \in Versions
    BY <1>s, <2>1, NextFile DEF Stages
  <2>3. live' = [live EXCEPT ![g] = [version |-> op.text, text |-> op.edit[g]]]
    BY <1>11 DEF Fill
  <2>4. op.call \in {"accept", "save"}
    BY <1>s, <2>1 DEF Stages, Asking, Calls, Idle
  <2>5. CASE f = g
    <3>1. Height(f) = op.text - 1
      BY <2>1, <2>5 DEF Height, Rewritten
    <3>2. live'[f] = [version |-> op.text, text |-> op.edit[g]] /\ live'[f] \in RuleFile
      BY <1>11, <1>s, <2>2, <2>3, <2>5, NextFile DEF TypeInv, FilesTyped, Stages, RuleFile
    <3>3. Height(f)' = op.text
      BY <1>q, <2>1, <3>2
    <3>4. Owed(f)' + 1 = Owed(f)
      BY <2>1, <2>2, <2>4, <2>5 DEF Owed, Waiting
    <3>5. Owed(f)' \in Nat /\ op.text \in Nat
      <4>1. Owed(f)' \in Nat  BY DEF Owed
      <4>2. op.text \in Nat  BY <2>2
      <4>. QED BY <4>1, <4>2
    <3>. QED BY <2>1, <3>1, <3>3, <3>4, <3>5
  <2>6. CASE f # g
    <3>1. live'[f] = live[f]
      BY <2>2, <2>3, <2>6 DEF TypeInv, FilesTyped
    <3>2. Height(f)' = Height(f)
      BY <1>q, <2>1, <2>6, <3>1 DEF Height, Rewritten
    <3>3. Owed(f)' = Owed(f)
      BY <2>1, <2>6 DEF Owed, Waiting
    <3>. QED BY <2>1, <3>2, <3>3
  <2>. HIDE DEF g
  <2>. QED BY <2>5, <2>6
<1>12. CASE Saved \/ Discard \/ Mark
  <2>1. /\ op.todo = {} /\ op.pc \notin {"write", "fill"} /\ op'.pc \notin {"write", "fill"}
        /\ op'.call # "run" /\ op'.todo = {}
        /\ UNCHANGED <<live, learnings, saves, faults>>
    BY <1>12, <1>s DEF Saved, Discard, Mark, Leave, Stages, Calls, Idle, fileVars, countVars
  <2>2. Height(f)' = Height(f)
    BY <1>p, <1>q, <2>1
  <2>3. Owed(f)' <= Owed(f)
    <3>1. CASE Saved
      BY <1>s, <2>1, <3>1 DEF Saved, Leave, Owed, Waiting, Idle
    <3>2. CASE Discard
      BY <1>s, <2>1, <3>2 DEF Discard, Owed, Waiting, Nothing, Stages, Calls
    <3>3. CASE Mark
      <4>1. staged' = Nothing
        BY <1>s, <3>3 DEF Mark, Stages
      <4>. QED BY <2>1, <3>3, <4>1 DEF Mark, Leave, Idle, Owed, Waiting, Nothing
    <3>. QED BY <1>12, <3>1, <3>2, <3>3
  <2>4. Owed(f)' \in Nat
    BY DEF Owed
  <2>. QED BY <2>1, <2>2, <2>3, <2>4
<1>13. CASE Interrupt
  <2>1. op' = Idle /\ faults' = faults + 1 /\ UNCHANGED <<live, staged, learnings, saves>>
    BY <1>13 DEF Interrupt, Leave, fileVars
  <2>2. Height(f)' = plain
    BY <1>q, <2>1 DEF Idle
  <2>3. Owed(f)' = IF staged[f] # None THEN 1 ELSE 0
    BY <2>1 DEF Owed, Waiting, Idle
  <2>4. CASE ~Rewritten(f)
    <3>1. Height(f) = plain  BY <2>4 DEF Height
    <3>. QED BY <2>1, <2>2, <2>3, <3>1
  <2>5. CASE Rewritten(f)
    <3>1. op.pc \in {"write", "fill"} /\ f = First(op.todo) /\ op.todo # {}
      BY <1>s, <2>5 DEF Rewritten, Stages
    <3>2. f \in op.todo
      BY <3>1, NextFile
    <3>3. op.call \in {"accept", "save"}
      BY <1>s, <3>1 DEF Stages, Asking, Calls, Idle
    <3>4. Owed(f) >= Owed(f)' /\ Owed(f) >= 1
      BY <2>3, <3>2, <3>3 DEF Owed, Waiting
    <3>5. plain <= 1
      BY <3>1 DEF TypeInv, HalfWritten
    <3>. QED BY <2>1, <2>2, <2>3, <3>4, <3>5
  <2>. QED BY <2>4, <2>5
<1>. QED
  BY <1>1, <1>2, <1>3, <1>4, <1>5, <1>6, <1>7, <1>8, <1>9, <1>10, <1>11, <1>12, <1>13 DEF Next,
     Beside
LEMMA TypesAreKept == Spec => []TypeInv
<1>1. Init => TypeInv
  BY InitTyped
<1>2. TypeInv /\ [Next]_vars => TypeInv'
  BY StagesStep, CountsStep, FilesStep, HalfWrittenStep, LabelsStep, ChildStep,
     VersionsStep DEF TypeInv
<1>. QED BY <1>1, <1>2, PTL DEF Spec

LEMMA TypeOKHolds == TypeInv => TypeOK
<1>. SUFFICES ASSUME TypeInv PROVE TypeOK
  OBVIOUS
<1>1. /\ live \in [Files -> [version : Versions, text : Texts] \cup {None}]
      /\ archive \in [Files -> [Versions -> Texts \cup {None}]]
  BY DEF TypeInv, FilesTyped, RuleFile
<1>2. Edits \subseteq [Files -> Texts \cup {None}]
  BY NoneIsOther DEF Edits
<1>3. staged \in [Files -> Texts \cup {None}] /\ seen \in [Clients -> [Files -> Texts \cup {None}]]
  BY <1>2 DEF TypeInv, FilesTyped
<1>4. op \in Calls /\ holder \in Clients \cup {None} /\ (holder = None <=> op = Idle)
  BY NoneIsOther DEF TypeInv, Stages, Idle
<1>5. op.todo \subseteq Files /\ op.edit \in [Files -> Texts \cup {None}]
      /\ op.charge.tries \in 0 .. MaxAttempts
  BY <1>2, <1>4 DEF Calls, Charges
<1>6. marker \in -1 .. clock /\ clock \in Nat
  BY DEF TypeInv, LabelsTyped
<1>7. child.paths \subseteq Files /\ apart \in BOOLEAN
  BY DEF TypeInv, ChildTyped, Children
<1>. QED BY <1>1, <1>3, <1>4, <1>5, <1>6, <1>7 DEF TypeOK

-------------------------------------------------------------------------------
(* Completions, labels and rules. *)

LEMMA ChargeStep == TypeInv /\ ChargeInv /\ [Next]_vars => ChargeInv'
<1>. SUFFICES ASSUME TypeInv, ChargeInv, [Next]_vars PROVE ChargeInv'
  OBVIOUS
<1>s. Stages /\ op \in Calls
  BY DEF TypeInv, Stages
<1>0. CASE UNCHANGED op
  BY <1>0 DEF ChargeInv
<1>1. CASE op'.pc \notin {"post", "read", "settle", "answered", "failed"}
  BY <1>1 DEF ChargeInv
<1>2. CASE Reserve
  BY <1>2, <1>s DEF Reserve, ChargeInv, Calls, Charges
<1>3. CASE Post
  <2>1. PICK reply \in {"ok", "busy", "refused", "lost"}, billed \in BOOLEAN :
          /\ billed => reply \in {"ok", "lost"}
          /\ op' = [op EXCEPT
            !.pc = CASE reply = "ok" -> "read"
                     [] reply = "busy" /\ op.charge.tries + 1 < MaxAttempts -> "post"
                     [] OTHER -> "settle",
            !.charge.tries = @ + 1,
            !.charge.unbilled = reply \in {"busy", "refused"},
            !.charge.billed = billed]
    BY <1>3 DEF Post
  <2>2. op.charge.ledger = "estimate"
    BY <1>3 DEF Post, ChargeInv
  <2>3. /\ op'.charge.ledger = "estimate" /\ op'.charge.billed = billed
        /\ op'.charge.unbilled = (reply \in {"busy", "refused"})
    BY <1>s, <2>1, <2>2 DEF Calls, Charges
  <2>4. /\ op'.pc \in {"read", "post", "settle"}
        /\ op'.pc = "read" => reply = "ok"
    BY <1>s, <2>1 DEF Calls
  <2>. QED BY <2>1, <2>3, <2>4 DEF ChargeInv
<1>4. CASE ReadBody
  <2>1. PICK cost, content \in BOOLEAN :
          op' = [op EXCEPT !.pc = IF content THEN "answered" ELSE "settle",
                           !.charge.ledger = IF cost THEN "cost" ELSE @]
    BY <1>4 DEF ReadBody
  <2>2. ~op.charge.unbilled /\ op.charge.ledger = "estimate"
    BY <1>4 DEF ReadBody, ChargeInv
  <2>3. /\ op'.charge.unbilled = op.charge.unbilled
        /\ op'.charge.ledger \in {"estimate", "cost"}
        /\ op'.pc \in {"answered", "settle"}
    BY <1>s, <2>1, <2>2 DEF Calls, Charges
  <2>. QED BY <2>2, <2>3 DEF ChargeInv
<1>5. CASE SettleUnbilled
  <2>1. op' = [op EXCEPT !.pc = "failed",
                         !.charge.ledger = IF op.charge.unbilled THEN "zero" ELSE @]
    BY <1>5 DEF SettleUnbilled
  <2>2. /\ op.charge.ledger \in {"estimate", "cost"}
        /\ ~(op.charge.billed /\ op.charge.unbilled)
    BY <1>5 DEF SettleUnbilled, ChargeInv
  <2>3. /\ op'.charge.unbilled = op.charge.unbilled /\ op'.charge.billed = op.charge.billed
        /\ op'.charge.ledger = IF op.charge.unbilled THEN "zero" ELSE op.charge.ledger
        /\ op'.pc = "failed"
    BY <1>s, <2>1 DEF Calls, Charges
  <2>. QED BY <2>2, <2>3 DEF ChargeInv
<1>6. CASE Optimize
  <2>1. op.pc = "answered" /\ (op' = [op EXCEPT !.pc = "failed"] \/ op'.pc = "stage")
    BY <1>6, <1>s DEF Optimize, Calls
  <2>2. CASE op' = [op EXCEPT !.pc = "failed"]
    BY <1>s, <2>1, <2>2 DEF ChargeInv, Calls
  <2>. QED BY <1>1, <2>1, <2>2
<1>7. CASE Beside
  BY <1>0, <1>7, BesideLeaves
<1>8. ASSUME NEW c \in Clients, Gather(c) \/ Accept(c) \/ Reject(c) \/ Save(c) PROVE ChargeInv'
  BY <1>0, <1>1, <1>8 DEF Gather, Accept, Reject, Save, Enter, Idle
<1>9. CASE Stage \/ Archive \/ Open \/ Fill \/ Discard
  BY <1>1, <1>9, <1>s DEF Stage, Archive, Open, Fill, Discard, Calls
<1>10. CASE Staged \/ LearningError \/ Saved \/ Mark \/ Interrupt
  BY <1>1, <1>10 DEF Staged, LearningError, Saved, Mark, Interrupt, Leave, Idle
<1>. QED
  BY <1>2, <1>3, <1>4, <1>5, <1>6, <1>7, <1>8, <1>9, <1>10 DEF Next, Beside

LEMMA CompletionsHold == Spec => []CompletionsAreCounted
<1>1. Init => ChargeInv
  BY DEF Init, ChargeInv, Idle
<1>2. TypeInv /\ ChargeInv => CompletionsAreCounted
  BY DEF TypeInv, Stages, Calls, Charges, ChargeInv, CompletionsAreCounted
<1>. QED BY <1>1, <1>2, TypesAreKept, ChargeStep, PTL DEF Spec

-------------------------------------------------------------------------------
LEMMA RunsAreTyped ==
  ASSUME TypeInv
  PROVE  /\ runs \in Seq(Run) /\ clock \in Nat /\ marker \in Int /\ marker <= clock
         /\ \A r \in DOMAIN runs : runs[r] \in Run /\ runs[r].started \in Nat
<1>1. runs \in Seq(Run) /\ clock \in Nat /\ marker \in Int /\ marker <= clock
  BY DEF TypeInv, LabelsTyped
<1>2. \A r \in DOMAIN runs : runs[r] \in Run
  BY <1>1
<1>3. \A x \in Run : x.started \in Nat
  BY DEF Run
<1>. QED BY <1>1, <1>2, <1>3

LEMMA LabelStep == TypeInv /\ LabelInv /\ [Next]_vars => LabelInv'
<1>. SUFFICES ASSUME TypeInv, LabelInv, [Next]_vars PROVE LabelInv'
  OBVIOUS
<1>s. /\ Stages /\ op \in Calls /\ learnings \in Nat /\ faults \in Nat
      /\ runs \in Seq(Run) /\ clock \in Nat /\ marker \in Int /\ marker <= clock
      /\ \A r \in DOMAIN runs : runs[r] \in Run /\ runs[r].started \in Nat
  BY TextsFit, RunsAreTyped DEF TypeInv, Stages
<1>0. CASE UNCHANGED <<runs, clock, basis, learned, marker>> /\ (faults' = 0 => faults = 0)
           /\ (op'.call = "run" => op.call = "run")
  BY <1>0 DEF LabelInv
<1>1. ASSUME NEW c \in Clients, Gather(c) PROVE LabelInv'
  <2>1. basis' = Labels(marker) /\ UNCHANGED <<runs, clock, marker, learned, faults>>
    BY <1>1 DEF Gather, labelVars
  <2>2. basis' \subseteq DOMAIN runs /\ \A r \in basis' : runs[r].started > marker
    BY <2>1 DEF Labels
  <2>. QED BY <2>1, <2>2 DEF LabelInv
<1>2. ASSUME NEW c \in Clients, View(c) \/ Accept(c) \/ Reject(c) \/ Save(c) PROVE LabelInv'
  BY <1>0, <1>2 DEF View, Accept, Reject, Save, Enter, Idle, labelVars, countVars, ghostVars
<1>3. CASE Reserve \/ Post \/ ReadBody \/ SettleUnbilled
  BY <1>0, <1>3, <1>s DEF Reserve, Post, ReadBody, SettleUnbilled, Completing, Calls, labelVars,
     countVars, ghostVars
<1>4. CASE Optimize \/ Stage
  BY <1>0, <1>4, <1>s DEF Optimize, Stage, Calls, labelVars, countVars, ghostVars
<1>5. CASE Staged \/ LearningError \/ Saved
  BY <1>0, <1>5 DEF Staged, LearningError, Saved, Leave, Idle, labelVars, countVars, ghostVars
<1>6. CASE Archive \/ Open \/ Fill \/ Discard
  BY <1>0, <1>6, <1>s DEF Archive, Open, Fill, Discard, Calls, labelVars, countVars, ghostVars
<1>7. CASE Mark
  <2>1. /\ UNCHANGED <<runs, clock, basis, faults>> /\ op' = Idle
        /\ \/ UNCHANGED <<marker, learned>>
           \/ marker' = clock /\ learned' = learned \cup basis
    BY <1>7 DEF Mark, Leave, labelVars, countVars
  <2>. QED BY <1>s, <2>1 DEF LabelInv, Idle
<1>8. CASE Launch
  <2>1. runs' = Append(runs, [started |-> clock, answered |-> FALSE])
        /\ UNCHANGED <<clock, basis, learned, marker, op, faults>>
    BY <1>8 DEF Launch, countVars
  <2>2. /\ DOMAIN runs \subseteq DOMAIN runs'
        /\ \A r \in DOMAIN runs : runs'[r] = runs[r]
        /\ \A r \in DOMAIN runs' : r \in DOMAIN runs \/ runs'[r].started = clock
    BY <1>s, <2>1
  <2>3. \A r \in DOMAIN runs' : runs'[r].started <= clock
    BY <1>s, <2>1, <2>2 DEF LabelInv
  <2>. QED BY <2>1, <2>2, <2>3 DEF LabelInv
<1>9. ASSUME NEW r \in DOMAIN runs, NEW answers \in BOOLEAN, SubmitQuality(r, answers)
             PROVE LabelInv'
  <2>1. runs' = [runs EXCEPT ![r].answered = answers]
        /\ UNCHANGED <<clock, basis, learned, marker, op, faults>>
    BY <1>9 DEF SubmitQuality, countVars, ghostVars
  <2>2. DOMAIN runs' = DOMAIN runs /\ \A q \in DOMAIN runs : runs'[q].started = runs[q].started
    BY <1>s, <2>1 DEF Run
  <2>. QED BY <2>1, <2>2 DEF LabelInv
<1>10. CASE Construct \/ Hit \/ Ask \/ Store \/ Finish
  BY <1>0, <1>10 DEF Construct, Hit, Ask, Store, Finish, labelVars, countVars, ghostVars
<1>11. CASE Tick
  <2>1. clock' = clock + 1 /\ UNCHANGED <<runs, basis, learned, marker, op, faults>>
    BY <1>11 DEF Tick, countVars, ghostVars
  <2>. QED BY <1>s, <2>1 DEF LabelInv
<1>12. CASE Interrupt
  <2>1. faults' = faults + 1 /\ UNCHANGED <<runs, clock, basis, learned>>
    BY <1>12 DEF Interrupt, labelVars, ghostVars
  <2>. QED BY <1>s, <2>1 DEF LabelInv
<1>13. CASE UNCHANGED vars
  BY <1>0, <1>13 DEF vars, labelVars, countVars, ghostVars
<1>. QED
  BY <1>1, <1>2, <1>3, <1>4, <1>5, <1>6, <1>7, <1>8, <1>9, <1>10, <1>11, <1>12, <1>13 DEF Next

LEMMA LabelsHold == Spec => []NothingIsLearnedTwice
<1>1. Init => LabelInv
  BY DEF Init, LabelInv, Idle
<1>2. TypeInv /\ LabelInv => NothingIsLearnedTwice
  <2>. SUFFICES ASSUME TypeInv, LabelInv, faults = 0
                PROVE  (op.call = "run" => basis \cap learned = {}) /\ LabelCount \cap learned = {}
    BY DEF NothingIsLearnedTwice
  <2>1. /\ marker \in Int
        /\ \A r \in DOMAIN runs : runs[r].started \in Nat
    BY RunsAreTyped
  <2>2. \A r \in learned : r \in DOMAIN runs /\ ~(runs[r].started > marker)
    BY <2>1 DEF LabelInv
  <2>3. op.call = "run" => \A r \in basis : runs[r].started > marker
    BY DEF LabelInv
  <2>4. \A r \in LabelCount : runs[r].started > marker
    BY DEF LabelCount, Labels
  <2>. QED BY <2>2, <2>3, <2>4
<1>. QED BY <1>1, <1>2, TypesAreKept, LabelStep, PTL DEF Spec

-------------------------------------------------------------------------------
LEMMA RulesStep == TypeInv /\ RulesInv /\ [Next]_vars => RulesInv'
<1>. SUFFICES ASSUME TypeInv, RulesInv, [Next]_vars, apart' PROVE RulesInv'
  BY DEF RulesInv
<1>s. /\ Stages /\ op \in Calls /\ child \in Children /\ apart \in BOOLEAN
  BY DEF TypeInv, Stages, ChildTyped
<1>0. ASSUME UNCHANGED <<live, child, cache>>, apart, Editing' => Editing PROVE RulesInv'
  BY <1>0 DEF RulesInv, Read
<1>1. CASE Archive \/ Open \/ Fill
  <2>0. op.pc \in {"apply", "write", "fill"} /\ UNCHANGED <<child, cache, apart>>
    BY <1>1 DEF Archive, Open, Fill, childVars, ghostVars
  <2>1. Editing
    BY <2>0, <1>s DEF Editing, Stages, Calls, Asking, Idle
  <2>2. child.pc = "none"
    BY <2>0, <2>1 DEF RulesInv
  <2>. QED BY <2>0, <2>2 DEF RulesInv
<1>2. ASSUME NEW c \in Clients, Accept(c) \/ Save(c) PROVE RulesInv'
  <2>1. apart /\ child.pc = "none" /\ UNCHANGED <<child, cache>>
    BY <1>2 DEF Accept, Save, childVars
  <2>. QED BY <2>1 DEF RulesInv
<1>3. ASSUME NEW c \in Clients, Gather(c) \/ View(c) \/ Reject(c) PROVE RulesInv'
  BY <1>0, <1>3 DEF Gather, View, Reject, Enter, Idle, Editing, fileVars, childVars, ghostVars
<1>4. CASE Reserve \/ Post \/ ReadBody \/ SettleUnbilled \/ Optimize \/ Stage \/ Discard
  <2>1. UNCHANGED <<live, child, cache, apart>>
    BY <1>4 DEF Reserve, Post, ReadBody, SettleUnbilled, Completing, Optimize, Stage, Discard,
       fileVars,
       childVars, ghostVars
  <2>2. op'.call = op.call
    BY <1>4, <1>s DEF Reserve, Post, ReadBody, SettleUnbilled, Optimize, Stage, Discard, Calls
  <2>. QED BY <1>0, <2>1, <2>2 DEF Editing
<1>5. CASE Staged \/ LearningError \/ Saved \/ Mark \/ Interrupt
  <2>1. UNCHANGED <<live, child, cache, apart>>
    BY <1>5 DEF Staged, LearningError, Saved, Mark, Interrupt, fileVars, childVars, ghostVars
  <2>2. op' = Idle
    BY <1>5 DEF Staged, LearningError, Saved, Mark, Interrupt, Leave
  <2>3. ~Editing'
    BY <2>2 DEF Idle, Editing
  <2>. QED BY <1>0, <2>1, <2>3
<1>6. CASE Launch
  <2>1. /\ apart /\ ~Editing /\ UNCHANGED <<live, op, cache>>
        /\ child'.pc = "launched" /\ child'.launched = Read(child'.paths)
    BY <1>6 DEF Launch, NoChild, fileVars
  <2>. QED BY <2>1 DEF RulesInv, Read, Editing
<1>7. CASE Construct
  <2>1. /\ apart /\ UNCHANGED <<live, op, cache>> /\ child.pc = "launched"
        /\ child'.pc = "constructed" /\ child'.launched = child.launched
        /\ child'.paths = child.paths
        /\ child'.digest = Read(child.paths)
    BY <1>7, <1>s DEF Construct, Children, fileVars, ghostVars
  <2>. QED BY <2>1 DEF RulesInv, Read, Editing
<1>8. CASE Hit
  <2>1. /\ apart /\ UNCHANGED <<live, op, cache>> /\ child.pc = "constructed"
        /\ child'.pc = "served" /\ child'.launched = child.launched /\ child'.paths = child.paths
        /\ child'.digest = child.digest /\ child.digest \in DOMAIN cache
        /\ child'.made = cache[child.digest]
    BY <1>8, <1>s DEF Hit, StepKey, Children, fileVars, ghostVars
  <2>. QED BY <2>1 DEF RulesInv, Read, Editing
<1>9. CASE Ask
  <2>1. /\ apart /\ UNCHANGED <<live, op, cache>> /\ child.pc = "constructed"
        /\ child'.pc = "asked" /\ child'.launched = child.launched /\ child'.paths = child.paths
        /\ child'.digest = child.digest /\ child'.made = Read(child.paths)
    BY <1>9, <1>s DEF Ask, Children, fileVars, ghostVars
  <2>. QED BY <2>1 DEF RulesInv, Read, Editing
<1>10. CASE Store
  <2>1. /\ apart /\ UNCHANGED <<live, op>> /\ child.pc = "asked"
        /\ child' = [child EXCEPT !.pc = "served"]
        /\ cache' = [d \in DOMAIN cache \cup {child.digest} |->
                       IF d = child.digest THEN child.made ELSE cache[d]]
    BY <1>10 DEF Store, StepKey, fileVars, ghostVars
  <2>2. /\ child'.pc = "served" /\ child'.launched = child.launched /\ child'.paths = child.paths
        /\ child'.digest = child.digest /\ child'.made = child.made
    BY <1>s, <2>1 DEF Children
  <2>3. child.digest = child.launched /\ child.made = child.launched /\ ~Editing
        /\ child.launched = Read(child.paths) /\ \A d \in DOMAIN cache : cache[d] = d
    BY <2>1 DEF RulesInv
  <2>4. \A d \in DOMAIN cache' : cache'[d] = d
    BY <2>1, <2>3
  <2>. QED BY <2>1, <2>2, <2>3, <2>4 DEF RulesInv, Read, Editing
<1>11. CASE Finish
  <2>1. /\ apart /\ UNCHANGED <<live, op, cache>> /\ child'.pc = "none"
    BY <1>11 DEF Finish, NoChild, fileVars, ghostVars
  <2>. QED BY <2>1 DEF RulesInv
<1>12. CASE \/ Tick \/ UNCHANGED vars
            \/ \E r \in DOMAIN runs, answers \in BOOLEAN : SubmitQuality(r, answers)
  BY <1>0, <1>12 DEF Tick, SubmitQuality, vars, fileVars, childVars, ghostVars, Editing
<1>. QED
  BY <1>1, <1>2, <1>3, <1>4, <1>5, <1>6, <1>7, <1>8, <1>9, <1>10, <1>11, <1>12 DEF Next

(* As long as no rule was edited beside an active run, what a step of a run uses, cached or     *)
(* new, was made under the rules in force at its launch, however many runs and edits there are.  *)
THEOREM RulesAreFollowed == Spec => []ResultsFollowTheRules
<1>1. Init => RulesInv
  BY DEF Init, RulesInv, NoChild
<1>2. RulesInv => ResultsFollowTheRules
  BY DEF RulesInv, ResultsFollowTheRules
<1>. QED BY <1>1, <1>2, TypesAreKept, RulesStep, PTL DEF Spec

-------------------------------------------------------------------------------
(* Damage. *)

(* What the steps that rewrite no file leave as it was. *)
LEMMA Elsewhere ==
  ASSUME TypeInv, [Next]_vars, ~Archive, ~Open, ~Fill, ~Interrupt
  PROVE  /\ UNCHANGED <<live, archive, past, faults>>
         /\ op' = op \/ (op.pc \notin {"write", "fill"} /\ op'.pc \notin {"write", "fill"})
<1>s. Stages /\ op \in Calls
  BY DEF TypeInv, Stages
<1>1. CASE Beside
  BY <1>1, BesideLeaves DEF fileVars
<1>2. ASSUME NEW c \in Clients, Gather(c) \/ Accept(c) \/ Save(c)
      PROVE  /\ UNCHANGED <<live, archive, past, faults>>
             /\ op = Idle /\ op'.pc \notin {"write", "fill"}
  <2>1. CASE Gather(c)  BY <1>s, <2>1 DEF Gather, Enter, Idle, fileVars, Stages
  <2>2. CASE Accept(c)  BY <1>s, <2>2 DEF Accept, Enter, Idle, fileVars, countVars, Stages
  <2>3. CASE Save(c)    BY <1>s, <2>3 DEF Save, Enter, Idle, fileVars, Stages
  <2>. QED BY <1>2, <2>1, <2>2, <2>3
<1>3. CASE \E c \in Clients : Reject(c)
  BY <1>3 DEF Reject, fileVars, countVars
<1>4. CASE Reserve \/ Post \/ ReadBody \/ SettleUnbilled
  <2>1. op'.pc \notin {"write", "fill"}
    <3>1. CASE Reserve        BY <1>s, <3>1 DEF Reserve, Calls
    <3>2. CASE Post           BY <1>s, <3>2 DEF Post, Calls
    <3>3. CASE ReadBody       BY <1>s, <3>3 DEF ReadBody, Calls
    <3>4. CASE SettleUnbilled BY <1>s, <3>4 DEF SettleUnbilled, Calls
    <3>. QED BY <1>4, <3>1, <3>2, <3>3, <3>4
  <2>2. op.pc \notin {"write", "fill"} /\ UNCHANGED <<live, archive, past, faults>>
    BY <1>4 DEF Reserve, Post, ReadBody, SettleUnbilled, Completing, fileVars, countVars
  <2>. QED BY <2>1, <2>2
<1>5. CASE Optimize \/ Stage \/ Discard
  <2>1. op'.pc \notin {"write", "fill"} /\ op.pc \notin {"write", "fill"}
    BY <1>5, <1>s DEF Optimize, Stage, Discard, Calls
  <2>2. UNCHANGED <<live, archive, past, faults>>
    BY <1>5 DEF Optimize, Stage, Discard, fileVars, countVars
  <2>. QED BY <2>1, <2>2
<1>6. CASE Staged \/ LearningError \/ Saved \/ Mark
  BY <1>6 DEF Staged, LearningError, Saved, Mark, Leave, Idle, fileVars, countVars
<1>. QED BY <1>1, <1>2, <1>3, <1>4, <1>5, <1>6 DEF Next, Beside, Idle

LEMMA RewritingElsewhere ==
  ASSUME TypeInv, [Next]_vars, ~Archive, ~Open, ~Fill, ~Interrupt, NEW f
  PROVE  Rewritten(f)' = Rewritten(f)
BY Elsewhere DEF Rewritten

(* What the steps that rewrite one do to it. *)
LEMMA Rewriting ==
  ASSUME TypeInv, Archive \/ Open \/ Fill
  PROVE  LET f == First(op.todo) IN
    /\ f \in Files /\ f \in op.todo
    /\ \A g \in Files \ {f} : live'[g] = live[g]
    /\ \A g : Rewritten(g) => g = f
    /\ \A g : Rewritten(g)' <=> g = f /\ ~Fill
    /\ faults' = faults /\ op'.edit = op.edit /\ op'.call = op.call
    /\ Archive => /\ ~Rewritten(f) /\ live'[f] = None /\ past' = past /\ op'.todo = op.todo
    /\ Open => /\ Rewritten(f) /\ op'.text = op.text /\ live'[f] # None
               /\ archive' = archive /\ past' = past /\ op'.todo = op.todo
    /\ Fill => /\ Rewritten(f) /\ live'[f] = [version |-> op.text, text |-> op.edit[f]]
               /\ archive' = archive /\ past' = past \cup {<<f, op.text, op.edit[f]>>}
               /\ op'.todo = op.todo \ {f}
<1>. DEFINE f == First(op.todo)
<1>s. Stages /\ op \in Calls /\ live \in [Files -> RuleFile \cup {None}]
  BY DEF TypeInv, Stages, FilesTyped
<1>0. op.todo # {}
  BY <1>s DEF Archive, Open, Fill, Stages
<1>1. f \in Files /\ f \in op.todo
  BY <1>0, NextFile
<1>. HIDE DEF f
<1>2. CASE Archive
  <2>1. /\ op.pc = "apply" /\ op'.pc = "write" /\ op'.todo = op.todo /\ op'.edit = op.edit
        /\ op'.call = op.call
        /\ faults' = faults /\ past' = past
    BY <1>2, <1>s DEF Archive, Calls, countVars
  <2>2. live' = [live EXCEPT ![f] = None]
    <3>1. CASE live[f] = None   BY <1>s, <1>1, <1>2, <3>1 DEF Archive, f
    <3>2. CASE live[f] # None   BY <1>2, <3>2 DEF Archive, f
    <3>. QED BY <3>1, <3>2
  <2>3. ~Archive \/ (~Open /\ ~Fill)
    BY <2>1 DEF Open, Fill
  <2>. QED BY <1>s, <1>1, <1>2, <2>1, <2>2, <2>3 DEF Rewritten, f
<1>3. CASE Open
  <2>1. /\ op.pc = "write" /\ op'.pc = "fill" /\ op'.todo = op.todo /\ op'.edit = op.edit
        /\ op'.call = op.call
        /\ op'.text = op.text /\ faults' = faults /\ past' = past /\ archive' = archive
    BY <1>3, <1>s DEF Open, Calls, countVars
  <2>2. live' = [live EXCEPT ![f] = [version |-> 1, text |-> Torn]]
    BY <1>3 DEF Open, f
  <2>3. [version |-> 1, text |-> Torn] # None
    BY NoneIsOther DEF RuleFile
  <2>4. ~Archive /\ ~Fill
    BY <2>1 DEF Archive, Fill
  <2>. QED BY <1>s, <1>1, <1>3, <2>1, <2>2, <2>3, <2>4 DEF Rewritten, f
<1>4. CASE Fill
  <2>1. /\ op.pc = "fill" /\ op'.pc = "apply" /\ op'.todo = op.todo \ {f} /\ op'.edit = op.edit
        /\ op'.call = op.call
        /\ faults' = faults /\ archive' = archive /\ past' = past \cup {<<f, op.text, op.edit[f]>>}
    BY <1>4, <1>s DEF Fill, Calls, countVars, f
  <2>2. live' = [live EXCEPT ![f] = [version |-> op.text, text |-> op.edit[f]]]
    BY <1>4 DEF Fill, f
  <2>3. ~Archive /\ ~Open
    BY <2>1 DEF Archive, Open
  <2>. QED BY <1>s, <1>1, <1>4, <2>1, <2>2, <2>3 DEF Rewritten, f
<1>. QED BY <1>2, <1>3, <1>4 DEF f

-------------------------------------------------------------------------------

LEMMA DamageStep == TypeInv /\ DamageInv /\ [Next]_vars => DamageInv'
<1>. SUFFICES ASSUME TypeInv, DamageInv, [Next]_vars PROVE DamageInv'
  OBVIOUS
<1>. DEFINE D == {f \in Damaged : ~Rewritten(f)}
<1>1. IsFiniteSet(D) /\ Cardinality(D) \in Nat /\ Cardinality(D) <= faults /\ faults \in Nat
  <2>1. D \subseteq Files  BY DEF Damaged
  <2>. QED BY <2>1, FilesAreFinite, FS_Subset, FS_CardinalityType, TextsFit DEF DamageInv
<1>2. ASSUME D' \subseteq D, faults' = faults PROVE DamageInv'
  <2>1. Cardinality(D') <= Cardinality(D) /\ Cardinality(D') \in Nat
    <3>. HIDE DEF D
    <3>. QED BY <1>1, <1>2, FS_Subset, FS_CardinalityType
  <2>. QED BY <1>1, <1>2, <2>1 DEF DamageInv
<1>3. CASE ~Archive /\ ~Open /\ ~Fill /\ ~Interrupt
  <2>1. live' = live /\ faults' = faults
    BY <1>3, Elsewhere
  <2>2. \A f : Rewritten(f)' = Rewritten(f)
    BY <1>3, RewritingElsewhere
  <2>3. Damaged' = Damaged
    BY <2>1 DEF Damaged
  <2>4. D' \subseteq D
    BY <2>2, <2>3
  <2>. QED BY <1>2, <2>1, <2>4
<1>4. CASE Archive \/ Open \/ Fill
  <2>0. PICK f \in Files : f = First(op.todo)
    BY <1>4, Rewriting
  <2>1. /\ faults' = faults
        /\ \A g \in Files \ {f} : live'[g] = live[g] /\ ~Rewritten(g)
        /\ Rewritten(f)' \/ live'[f] = [version |-> op.text, text |-> op.edit[f]]
    BY <1>4, <2>0, Rewriting
  <2>2. op.edit[f] # Torn /\ [version |-> op.text, text |-> op.edit[f]] # None
    <3>1. op.edit[f] \in Contents  BY <1>4, <2>0, NextFile DEF Archive, Open, Fill, TypeInv, Stages
    <3>2. op.text \in Int  BY DEF TypeInv, Stages, Calls
    <3>3. Contents \subseteq Int /\ Torn \notin Contents  BY Limits DEF Contents, Torn
    <3>4. [version |-> op.text, text |-> op.edit[f]] \in [version : Int, text : Int]
      <4>1. op.edit[f] \in Int  BY <3>1, <3>3
      <4>. QED BY <3>2, <4>1
    <3>5. op.edit[f] # Torn
      BY <3>1, <3>3
    <3>. QED BY <3>4, <3>5, LearningAssumption
  <2>3. ASSUME NEW g \in D' PROVE g \in D
    <3>1. g \in Files /\ ~Rewritten(g)' /\ (live'[g] = None \/ live'[g].text = Torn)
      BY DEF Damaged
    <3>2. ASSUME g = f PROVE FALSE
      <4>1. ~Rewritten(f)' /\ (live'[f] = None \/ live'[f].text = Torn)
        BY <3>1, <3>2
      <4>2. live'[f] = [version |-> op.text, text |-> op.edit[f]]
        BY <2>1, <4>1
      <4>. QED BY <2>2, <4>1, <4>2
    <3>. QED BY <2>1, <3>1, <3>2 DEF Damaged
  <2>4. D' \subseteq D
    BY <2>3
  <2>. QED BY <1>2, <2>1, <2>4
<1>5. CASE Interrupt
  <2>0. PICK f : f = First(op.todo)
    OBVIOUS
  <2>1. faults' = faults + 1 /\ live' = live
    BY <1>5 DEF Interrupt, fileVars
  <2>2. D' \subseteq D \cup {f}
    BY <2>0, <2>1 DEF Damaged, Rewritten
  <2>3. IsFiniteSet(D \cup {f}) /\ Cardinality(D \cup {f}) <= Cardinality(D) + 1
        /\ Cardinality(D \cup {f}) \in Nat
    <3>. HIDE DEF D
    <3>. QED BY <1>1, FS_AddElement
  <2>4. Cardinality(D') <= Cardinality(D \cup {f}) /\ Cardinality(D') \in Nat
    <3>. HIDE DEF D
    <3>. QED BY <2>2, <2>3, FS_Subset, FS_CardinalityType
  <2>. QED BY <1>1, <2>1, <2>3, <2>4 DEF DamageInv
<1>. QED BY <1>3, <1>4, <1>5

(* However often calls are interrupted, each leaves at most the file it was writing damaged. *)
THEOREM DamageStaysLocal == Spec => []DamageIsLocal
<1>1. Init => DamageInv
  <2>. SUFFICES ASSUME Init PROVE DamageInv
    OBVIOUS
  <2>1. \A f \in Files : live[f] = [version |-> 1, text |-> 0] /\ live[f] \in RuleFile
    BY NoneIsOther DEF Init, RuleFile
  <2>2. {f \in Damaged : ~Rewritten(f)} = {}
    BY <2>1, NoneIsOther DEF Damaged, Torn
  <2>3. faults = 0
    BY DEF Init
  <2>. QED BY <2>2, <2>3, FS_EmptySet DEF DamageInv
<1>2. TypeInv /\ DamageInv => DamageIsLocal
  <2>. SUFFICES ASSUME TypeInv, DamageInv, holder = None PROVE Cardinality(Damaged) <= faults
    BY DEF DamageIsLocal
  <2>1. \A f : ~Rewritten(f)
    BY DEF TypeInv, Stages, Rewritten, Idle
  <2>2. {f \in Damaged : ~Rewritten(f)} = Damaged
    BY <2>1
  <2>. QED BY <2>2 DEF DamageInv
<1>. QED BY <1>1, <1>2, TypesAreKept, DamageStep, PTL DEF Spec

-------------------------------------------------------------------------------
(* History. *)

LiveInPast(f) == ~Rewritten(f) => live[f] # None /\ <<f, live[f].version, live[f].text>> \in past
Kept(p) ==
  IF Rewritten(p[1]) THEN p[2] < op.text /\ archive[p[1]][p[2]] = p[3]
  ELSE \/ live[p[1]] = [version |-> p[2], text |-> p[3]]
       \/ p[2] < live[p[1]].version /\ archive[p[1]][p[2]] = p[3]

LEMMA HistoryParts ==
  HistoryInv <=> (faults = 0 => (\A f \in Files : LiveInPast(f)) /\ (\A p \in past : Kept(p)))
BY DEF HistoryInv, LiveInPast, Kept

LEMMA PastIsTyped ==
  ASSUME TypeInv, NEW p \in past
  PROVE  /\ p[1] \in Files /\ p[2] \in Versions /\ p[3] \in Contents
         /\ p[2] \in Nat /\ p = <<p[1], p[2], p[3]>>
<1>1. p \in Files \X Versions \X Contents
  BY DEF TypeInv, FilesTyped
<1>2. p[1] \in Files /\ p[2] \in Versions /\ p[3] \in Contents /\ p = <<p[1], p[2], p[3]>>
  BY <1>1
<1>. QED BY <1>2, NoneIsOther

LEMMA HistoryStep == TypeInv /\ HistoryInv /\ [Next]_vars => HistoryInv'
<1>. SUFFICES ASSUME TypeInv, HistoryInv, [Next]_vars, faults' = 0
              PROVE  (\A f \in Files : LiveInPast(f)') /\ (\A p \in past' : Kept(p)')
  BY DEF HistoryInv, LiveInPast, Kept
<1>1. CASE Interrupt
  BY <1>1, TextsFit DEF Interrupt
<1>2. CASE ~Archive /\ ~Open /\ ~Fill /\ ~Interrupt
  <2>1. UNCHANGED <<live, archive, past, faults>>
        /\ (op' = op \/ (op.pc \notin {"write", "fill"} /\ op'.pc \notin {"write", "fill"}))
    BY <1>2, Elsewhere
  <2>2. \A f : Rewritten(f)' = Rewritten(f) /\ (Rewritten(f) => op' = op)
    BY <2>1 DEF Rewritten
  <2>3. (\A f \in Files : LiveInPast(f)) /\ (\A p \in past : Kept(p))
    BY <2>1, HistoryParts
  <2>4. ASSUME NEW f \in Files PROVE LiveInPast(f)'
    BY <2>1, <2>2, <2>3 DEF LiveInPast
  <2>5. ASSUME NEW p \in past' PROVE Kept(p)'
    <3>1. Kept(p)
      BY <2>1, <2>3
    <3>2. CASE Rewritten(p[1])
      BY <2>1, <2>2, <3>1, <3>2 DEF Kept
    <3>3. CASE ~Rewritten(p[1])
      BY <2>1, <2>2, <3>1, <3>3 DEF Kept
    <3>. QED BY <3>2, <3>3
  <2>. QED BY <2>4, <2>5
<1>3. CASE Archive \/ Open \/ Fill
  <2>0. PICK f \in Files : f = First(op.todo)
    BY <1>3, Rewriting
  <2>1. /\ \A g \in Files \ {f} : live'[g] = live[g] /\ ~Rewritten(g) /\ ~Rewritten(g)'
        /\ Rewritten(f)' <=> ~Fill
        /\ faults' = faults
    BY <1>3, <2>0, Rewriting
  <2>2. (\A g \in Files : LiveInPast(g)) /\ (\A p \in past : Kept(p))
    BY <2>1, HistoryParts
  <2>3. past \subseteq past'
    BY <1>3, <2>0, Rewriting
  <2>4. ASSUME NEW g \in Files, g # f PROVE LiveInPast(g)'
    BY <2>1, <2>2, <2>3, <2>4 DEF LiveInPast
  <2>5. CASE Archive
    <3>1. ~Rewritten(f) /\ Rewritten(f)' /\ past' = past /\ op.pc = "apply" /\ op.todo # {}
      BY <2>0, <2>1, <2>5, Rewriting DEF Archive, Fill
    <3>2. live[f] # None /\ <<f, live[f].version, live[f].text>> \in past
      BY <2>2, <3>1 DEF LiveInPast
    <3>3. live[f].version \in Versions /\ live[f].version \in Nat
      BY <3>2, PastIsTyped
    <3>4. archive' = [archive EXCEPT ![f][live[f].version] = live[f].text]
          /\ op'.text = live[f].version + 1
      BY <2>0, <2>5, <3>2 DEF Archive, TypeInv, Stages, Calls
    <3>5. /\ archive'[f][live[f].version] = live[f].text
          /\ \A v \in Versions \ {live[f].version} : archive'[f][v] = archive[f][v]
          /\ \A g \in Files \ {f} : archive'[g] = archive[g]
      BY <3>3, <3>4 DEF TypeInv, FilesTyped
    <3>6. ASSUME NEW p \in past PROVE Kept(p)'
      <4>0. /\ p[1] \in Files /\ p[2] \in Versions /\ p[2] \in Nat
        BY PastIsTyped
      <4>1. CASE p[1] = f
        <5>1. \/ live[f] = [version |-> p[2], text |-> p[3]]
              \/ p[2] < live[f].version /\ archive[f][p[2]] = p[3]
          BY <2>2, <3>1, <4>1 DEF Kept
        <5>2. p[2] < op'.text /\ archive'[f][p[2]] = p[3]
          BY <3>3, <3>4, <3>5, <4>0, <5>1
        <5>. QED BY <3>1, <4>1, <5>2 DEF Kept
      <4>2. CASE p[1] # f
        <5>1. Kept(p)
          BY <2>2
        <5>2. /\ ~Rewritten(p[1]) /\ ~Rewritten(p[1])' /\ live'[p[1]] = live[p[1]]
              /\ archive'[p[1]] = archive[p[1]]
          <6>1. PICK g \in Files \ {f} : g = p[1]
            BY <4>0, <4>2
          <6>2. ~Rewritten(g) /\ ~Rewritten(g)' /\ live'[g] = live[g] /\ archive'[g] = archive[g]
            BY <2>1, <3>5
          <6>. QED BY <6>1, <6>2 DEF Rewritten
        <5>. QED BY <5>1, <5>2 DEF Kept
      <4>. QED BY <4>1, <4>2
    <3>7. LiveInPast(f)'
      BY <3>1 DEF LiveInPast
    <3>. QED BY <2>4, <3>1, <3>6, <3>7
  <2>6. CASE Open
    <3>1. /\ Rewritten(f) /\ Rewritten(f)' /\ past' = past /\ archive' = archive
          /\ op'.text = op.text
      <4>1. ~Fill  BY <2>6 DEF Open, Fill
      <4>. QED BY <2>0, <2>1, <2>6, <4>1, Rewriting
    <3>2. LiveInPast(f)'
      BY <3>1 DEF LiveInPast
    <3>3. ASSUME NEW p \in past PROVE Kept(p)'
      <4>0. p[1] \in Files /\ Kept(p)
        BY PastIsTyped, <2>2
      <4>1. CASE p[1] = f
        BY <3>1, <4>0, <4>1 DEF Kept
      <4>2. CASE p[1] # f
        BY <2>1, <3>1, <4>0, <4>2 DEF Kept
      <4>. QED BY <4>1, <4>2
    <3>. QED BY <2>4, <3>1, <3>2, <3>3
  <2>7. CASE Fill
    <3>1. /\ Rewritten(f) /\ ~Rewritten(f)' /\ archive' = archive
          /\ live'[f] = [version |-> op.text, text |-> op.edit[f]]
          /\ past' = past \cup {<<f, op.text, op.edit[f]>>}
      BY <2>0, <2>1, <2>7, Rewriting
    <3>2. live'[f] # None
      <4>1. live' \in [Files -> RuleFile \cup {None}] /\ op.edit[f] \in Contents
            /\ op.text \in Versions
        BY <2>0, <2>7, FilesStep, NextFile DEF FilesTyped, TypeInv, Fill, Stages
      <4>2. [version |-> op.text, text |-> op.edit[f]] \in RuleFile
        BY <4>1, NoneIsOther DEF RuleFile
      <4>. QED BY <3>1, <4>2, NoneIsOther
    <3>3. LiveInPast(f)'
      BY <3>1, <3>2 DEF LiveInPast
    <3>4. ASSUME NEW p \in past PROVE Kept(p)'
      <4>0. p[1] \in Files /\ Kept(p)
        BY PastIsTyped, <2>2
      <4>1. CASE p[1] = f
        <5>1. p[2] < op.text /\ archive[f][p[2]] = p[3]
          BY <3>1, <4>0, <4>1 DEF Kept
        <5>2. p[2] < live'[f].version /\ archive'[f][p[2]] = p[3]
          BY <3>1, <5>1
        <5>. QED BY <3>1, <4>1, <5>2 DEF Kept
      <4>2. CASE p[1] # f
        BY <2>1, <3>1, <4>0, <4>2 DEF Kept
      <4>. QED BY <4>1, <4>2
    <3>5. ASSUME NEW p, p = <<f, op.text, op.edit[f]>> PROVE Kept(p)'
      <4>1. p[1] = f /\ live'[f] = [version |-> p[2], text |-> p[3]]
        BY <3>1, <3>5
      <4>. QED BY <3>1, <4>1 DEF Kept
    <3>. QED BY <2>4, <3>1, <3>3, <3>4, <3>5
  <2>. QED BY <1>3, <2>5, <2>6, <2>7
<1>. QED BY <1>1, <1>2, <1>3

LEMMA HistoryHolds == Spec => []HistoryIsKept
<1>1. Init => HistoryInv
  <2>. SUFFICES ASSUME Init PROVE HistoryInv
    OBVIOUS
  <2>1. \A f \in Files : live[f] = [version |-> 1, text |-> 0] /\ live[f] \in RuleFile
    BY NoneIsOther DEF Init, RuleFile
  <2>2. past = {<<f, 1, 0>> : f \in Files} /\ \A f : ~Rewritten(f)
    BY DEF Init, Rewritten, Idle
  <2>. QED BY <2>1, <2>2, NoneIsOther DEF HistoryInv
<1>2. TypeInv /\ HistoryInv => HistoryIsKept
  <2>. SUFFICES ASSUME TypeInv, HistoryInv, faults = 0, NEW p \in past
                PROVE  \/ live[p[1]] = [version |-> p[2], text |-> p[3]]
                       \/ archive[p[1]][p[2]] = p[3]
    BY DEF HistoryIsKept
  <2>1. Kept(p)
    BY HistoryParts
  <2>. QED BY <2>1 DEF Kept
<1>. QED BY <1>1, <1>2, TypesAreKept, HistoryStep, PTL DEF Spec

(* The state of a workflow's learning is typed; every version stays findable, no label is        *)
(* learned twice and what is paid is counted, for any tabs, files, histories and attempts.        *)
THEOREM LearningIsSound == Spec => []LearningInv
<1>1. TypeInv /\ HistoryIsKept /\ NothingIsLearnedTwice /\ CompletionsAreCounted => LearningInv
  BY TypeOKHolds DEF LearningInv
<1>. QED BY <1>1, TypesAreKept, HistoryHolds, LabelsHold, CompletionsHold, PTL

-------------------------------------------------------------------------------
(* Proposals. *)

Proposals == OffersAreNew /\ StagingIsWhole /\ WholeSoFar

LEMMA EditOfIs ==
  ASSUME TypeInv, NEW n \in Learnt, NEW f \in Files
  PROVE  /\ n # None /\ n \in Int
         /\ EditOf(n)[f] = IF f \in offered[n] THEN n ELSE None
BY Limits, LearningAssumption DEF EditOf, Learnt

LEMMA AppliedSame == past' = past => \A n : Applied(n)' = Applied(n)
BY DEF Applied

LEMMA EditSame == offered' = offered => \A n : EditOf(n)' = EditOf(n)
BY DEF EditOf

(* A step that leaves the offers, what is staged and what is past alone. *)
LEMMA OffersSame ==
  ASSUME UNCHANGED <<offered, past, staged, learnings>>, Offers(staged)
  PROVE  Offers(staged)'
BY AppliedSame, EditSame DEF Offers

LEMMA ProposalStep == TypeInv /\ ProposalInv /\ [Next]_vars => ProposalInv'
<1>. SUFFICES ASSUME TypeInv, ProposalInv, [Next]_vars, faults' = 0
              PROVE  Proposals'
  BY DEF ProposalInv, Proposals
<1>s. /\ Stages /\ op \in Calls /\ staged \in Edits /\ learnings \in Nat
      /\ holder \in Clients \cup {None} /\ past \subseteq Files \X Versions \X Contents
  BY TextsFit DEF TypeInv, Stages, FilesTyped
<1>1. CASE Interrupt
  BY <1>1, TextsFit DEF Interrupt
<1>t. faults' = faults \/ Interrupt
  BY DEF Next, Gather, View, Accept, Reject, Save, Reserve, Post, ReadBody, SettleUnbilled,
     Completing,
     Optimize, Stage, Staged, LearningError, Archive, Open, Fill, Saved, Discard, Mark, Launch,
     Construct,
     Hit, Ask, Store, Finish, SubmitQuality, Tick, vars, countVars
<1>. SUFFICES ASSUME ~Interrupt PROVE Proposals'
  BY <1>1
<1>p. OffersAreNew /\ StagingIsWhole /\ WholeSoFar
  BY <1>t DEF ProposalInv
<1>. USE AppliedSame, EditSame
<1>2. CASE Beside
  <2>1. UNCHANGED <<op, staged, past, offered, learnings>>
    BY <1>2, BesideLeaves DEF fileVars
  <2>2. \A c \in Clients : seen[c] = staged => seen'[c] = staged
    <3>1. CASE UNCHANGED seen  BY <3>1
    <3>2. ASSUME NEW c \in Clients, View(c)
                 PROVE \A d \in Clients : seen[d] = staged => seen'[d] = staged
      BY <3>2 DEF View, TypeInv, FilesTyped
    <3>. QED BY <1>2, <3>1, <3>2 DEF Beside, Launch, Construct, Hit, Ask, Store, Finish, Tick,
               SubmitQuality, vars
  <2>3. OffersAreNew'
    BY <1>p, <2>1 DEF OffersAreNew
  <2>4. StagingIsWhole'
    BY <1>p, <2>1, <2>2, OffersSame DEF StagingIsWhole
  <2>5. WholeSoFar'
    BY <1>p, <2>1 DEF WholeSoFar
  <2>. QED BY <2>3, <2>4, <2>5 DEF Proposals
<1>3. ASSUME NEW c \in Clients, Gather(c) PROVE Proposals'
  <2>1. /\ op = Idle /\ op'.call = "run" /\ op'.pc = "reserve"
        /\ learnings' = learnings + 1 /\ UNCHANGED <<staged, seen, past, offered>>
    BY <1>3, <1>s DEF Gather, Enter, Stages, Idle, fileVars
  <2>2. learnings' \in Learnt
    BY <1>s, <2>1, CountsStep, Limits, LearningAssumption DEF Counts, Learnt
  <2>3. Applied(learnings') = {}
    <3>1. \A p \in past : p[3] # learnings'
      BY <1>p, <1>s, <2>1, <2>2 DEF OffersAreNew
    <3>. QED BY <3>1 DEF Applied
  <2>4. offered[learnings'] = {}
    BY <1>p, <1>s, <2>1, <2>2 DEF OffersAreNew
  <2>5. OffersAreNew'
    <3>1. \A n \in Learnt : n \in Int  BY DEF Learnt
    <3>2. \A n \in Learnt : n <= learnings => n <= learnings'
      BY <1>s, <2>1, <3>1
    <3>3. \A n \in Learnt : n > learnings' => n > learnings
      BY <1>s, <2>1, <3>1
    <3>4. Applied(learnings)' = {}
      BY <2>1, <2>3 DEF Applied
    <3>. QED BY <1>p, <2>1, <2>4, <3>2, <3>3, <3>4 DEF OffersAreNew
  <2>6. StagingIsWhole'
    <3>1. Offers(staged) => Offers(staged)'
      BY <1>s, <2>1 DEF Offers, Learnt
    <3>. QED BY <1>p, <2>1, <3>1 DEF StagingIsWhole, Idle
  <2>7. WholeSoFar'
    BY <1>p, <2>1 DEF WholeSoFar, Idle
  <2>. QED BY <2>5, <2>6, <2>7 DEF Proposals
<1>4. ASSUME NEW c \in Clients, Accept(c) PROVE Proposals'
  <2>1. /\ op = Idle /\ op'.call = "accept" /\ op'.pc = "apply" /\ op'.edit = staged
        /\ op'.todo = {f \in Files : staged[f] # None}
        /\ UNCHANGED <<learnings, staged, seen, past, offered>>
    BY <1>4, <1>s DEF Accept, Enter, Stages, Idle, fileVars, countVars
  <2>2. OffersAreNew'
    BY <1>p, <2>1 DEF OffersAreNew, Asking
  <2>3. StagingIsWhole'
    BY <1>p, <2>1 DEF StagingIsWhole
  <2>4. \A m \in Learnt : Applied(m) \in {{}, offered[m]}
    BY <1>p, <2>1 DEF WholeSoFar, Idle
  <2>5. CASE staged = Nothing
    <3>1. op'.todo = {}
      BY <2>1, <2>5 DEF Nothing
    <3>. QED BY <2>1, <2>2, <2>3, <2>4, <2>5, <3>1 DEF Proposals, WholeSoFar
  <2>6. CASE staged # Nothing
    <3>1. PICK n \in Learnt : n <= learnings /\ staged = EditOf(n) /\ Applied(n) = {}
      BY <1>p, <2>1, <2>6 DEF StagingIsWhole, Offers, Idle
    <3>2. offered[n] \subseteq Files
      BY <1>p DEF OffersAreNew
    <3>3. op'.todo = offered[n]
      BY <2>1, <3>1, <3>2, EditOfIs
    <3>4. WholeSoFar'
      BY <2>1, <2>4, <2>6, <3>1, <3>3 DEF WholeSoFar
    <3>. QED BY <2>2, <2>3, <3>4 DEF Proposals
  <2>. QED BY <2>5, <2>6
<1>5. ASSUME NEW c \in Clients, Reject(c) PROVE Proposals'
  <2>1. /\ op = Idle /\ op' = op /\ staged' = Nothing /\ UNCHANGED <<learnings, past, offered>>
    BY <1>5, <1>s DEF Reject, Stages, fileVars, countVars, ghostVars
  <2>. QED BY <1>p, <2>1 DEF Proposals, OffersAreNew, StagingIsWhole, WholeSoFar, Idle
<1>6. ASSUME NEW c \in Clients, Save(c) PROVE Proposals'
  <2>1. PICK f \in Files :
          /\ op = Idle /\ op'.call = "save" /\ op'.pc = "apply"
          /\ op'.edit = [Nothing EXCEPT ![f] = MaxLearnings + saves + 1]
          /\ UNCHANGED <<learnings, staged, seen, past, offered>>
    BY <1>6, <1>s DEF Save, Enter, Stages, Idle, Existing, fileVars
  <2>2. \A g \in Files : op'.edit[g] \notin Learnt
    <3>1. MaxLearnings + saves + 1 \notin Learnt
      BY Limits, TextsFit DEF Learnt
    <3>2. None \notin Learnt
      BY Limits, LearningAssumption DEF Learnt
    <3>. QED BY <2>1, <3>1, <3>2 DEF Nothing
  <2>3. OffersAreNew'
    BY <1>p, <2>1 DEF OffersAreNew, Asking
  <2>4. StagingIsWhole'
    BY <1>p, <2>1, OffersSame DEF StagingIsWhole, Idle
  <2>5. WholeSoFar'
    BY <1>p, <2>1, <2>2 DEF WholeSoFar, Idle
  <2>. QED BY <2>3, <2>4, <2>5 DEF Proposals
<1>7. CASE Reserve \/ Post \/ ReadBody \/ SettleUnbilled
  <2>1. op.pc \in Asking \ {"answered"} /\ UNCHANGED <<learnings, staged, seen, past, offered>>
    BY <1>7 DEF Reserve, Post, ReadBody, SettleUnbilled, Completing, Asking, fileVars, countVars,
       ghostVars
  <2>2. op.call = "run"
    BY <1>s, <2>1 DEF Stages, Asking, Applying, Calls, Idle
  <2>3. op'.call = "run" /\ op'.pc \in Asking
    <3>1. CASE Reserve        BY <1>s, <2>2, <3>1 DEF Reserve, Calls, Asking
    <3>2. CASE Post           BY <1>s, <2>2, <3>2 DEF Post, Calls, Asking
    <3>3. CASE ReadBody       BY <1>s, <2>2, <3>3 DEF ReadBody, Calls, Asking
    <3>4. CASE SettleUnbilled BY <1>s, <2>2, <3>4 DEF SettleUnbilled, Calls, Asking
    <3>. QED BY <1>7, <3>1, <3>2, <3>3, <3>4
  <2>4. OffersAreNew'
    BY <1>p, <2>1, <2>2, <2>3 DEF OffersAreNew
  <2>5. StagingIsWhole'
    BY <1>p, <2>1, <2>2, <2>3, OffersSame DEF StagingIsWhole, Asking
  <2>6. WholeSoFar'
    BY <1>p, <2>1, <2>2, <2>3 DEF WholeSoFar
  <2>. QED BY <2>4, <2>5, <2>6 DEF Proposals
<1>8. CASE Optimize
  <2>1. PICK S \in SUBSET (Files \cup {Outside}) :
          LET edit == [f \in Files |-> IF f \in S THEN learnings ELSE None] IN
          IF ~Parsed(S)
            THEN op' = [op EXCEPT !.pc = "failed"] /\ UNCHANGED <<offered, staged>>
            ELSE /\ op' = [op EXCEPT !.pc = "stage", !.todo = S, !.edit = edit, !.charge = NoCharge]
                 /\ offered' = [offered EXCEPT ![learnings] = S]
                 /\ staged' = Nothing
    BY <1>8 DEF Optimize
  <2>2. op.pc = "answered" /\ UNCHANGED <<learnings, seen, past>>
    BY <1>8 DEF Optimize, fileVars, countVars
  <2>3. op.call = "run"
    BY <1>s, <2>2 DEF Stages, Asking, Applying, Calls, Idle
  <2>4. CASE ~Parsed(S)
    <3>1. op'.pc = "failed" /\ op'.call = "run" /\ UNCHANGED <<offered, staged>>
      BY <1>s, <2>1, <2>3, <2>4 DEF Calls
    <3>2. OffersAreNew'
      BY <1>p, <2>2, <2>3, <3>1 DEF OffersAreNew, Asking
    <3>3. StagingIsWhole'
      BY <1>p, <2>2, <2>3, <3>1, OffersSame DEF StagingIsWhole, Asking
    <3>4. WholeSoFar'
      BY <1>p, <2>2, <2>3, <3>1 DEF WholeSoFar
    <3>. QED BY <3>2, <3>3, <3>4 DEF Proposals
  <2>5. CASE Parsed(S)
    <3>1. /\ op' = [op EXCEPT !.pc = "stage", !.todo = S, !.charge = NoCharge,
                              !.edit = [f \in Files |-> IF f \in S THEN learnings ELSE None]]
          /\ offered' = [offered EXCEPT ![learnings] = S] /\ staged' = Nothing
      BY <2>1, <2>5
    <3>2. /\ op'.pc = "stage" /\ op'.call = "run" /\ op'.todo = S
          /\ op'.edit = [f \in Files |-> IF f \in S THEN learnings ELSE None]
      BY <1>s, <2>3, <3>1 DEF Calls
    <3>3. learnings \in Learnt /\ S \subseteq Files
      <4>1. learnings > 0  BY <1>s, <2>3 DEF Stages
      <4>2. learnings <= MaxLearnings
        BY Limits, LearningAssumption DEF TypeInv, Counts
      <4>. QED BY <1>s, <2>5, <4>1, <4>2, Limits DEF Learnt, Parsed
    <3>4. /\ offered \in [Learnt -> SUBSET Files] /\ offered[learnings] = {}
          /\ Applied(learnings) = {}
      BY <1>p, <2>2, <2>3 DEF OffersAreNew, Asking
    <3>5. /\ offered' \in [Learnt -> SUBSET Files] /\ offered'[learnings] = S
          /\ \A m \in Learnt \ {learnings} : offered'[m] = offered[m]
      BY <3>1, <3>3, <3>4
    <3>6. OffersAreNew'
      <4>1. \A n \in Learnt : n > learnings => n # learnings
        BY DEF Learnt
      <4>2. \A n \in Learnt : n > learnings => offered'[n] = {}
        BY <1>p, <3>5, <4>1 DEF OffersAreNew
      <4>3. Applied(learnings)' = {}
        BY <2>2, <3>4 DEF Applied
      <4>. QED BY <1>p, <2>2, <3>2, <3>5, <4>2, <4>3 DEF OffersAreNew, Asking
    <3>7. StagingIsWhole'
      <4>1. op'.edit = EditOf(learnings)'
        BY <2>2, <3>2, <3>5 DEF EditOf
      <4>2. staged' = [f \in Files |-> IF f \in op'.todo THEN None ELSE op'.edit[f]]
        BY <3>1, <3>2 DEF Nothing
      <4>. QED BY <2>2, <3>2, <3>5, <4>1, <4>2 DEF StagingIsWhole
    <3>8. WholeSoFar'
      <4>1. \A m \in Learnt : Applied(m) \in {{}, offered[m]}
        BY <1>p, <2>3 DEF WholeSoFar
      <4>2. \A m \in Learnt : Applied(m)' \in {{}, offered'[m]}
        BY <2>2, <3>4, <3>5, <4>1
      <4>. QED BY <3>2, <4>2 DEF WholeSoFar
    <3>. QED BY <3>6, <3>7, <3>8 DEF Proposals
  <2>. QED BY <2>4, <2>5
<1>9. CASE Stage
  <2>1. PICK f \in op.todo : op' = [op EXCEPT !.todo = @ \ {f}]
        /\ staged' = [staged EXCEPT ![f] = op.edit[f]]
    BY <1>9 DEF Stage
  <2>2. op.pc = "stage" /\ UNCHANGED <<learnings, past, offered>>
    BY <1>9 DEF Stage, fileVars, countVars, ghostVars
  <2>3. op.call = "run"
    BY <1>s, <2>2 DEF Stages, Asking, Applying, Calls, Idle
  <2>4. /\ op'.pc = "stage" /\ op'.call = "run" /\ op'.todo = op.todo \ {f} /\ op'.edit = op.edit
    BY <1>s, <2>1, <2>2, <2>3 DEF Calls
  <2>5. staged' = [g \in Files |-> IF g \in op'.todo THEN None ELSE op'.edit[g]]
    <3>1. staged = [g \in Files |-> IF g \in op.todo THEN None ELSE op.edit[g]]
      BY <1>p, <2>2 DEF StagingIsWhole
    <3>. QED BY <2>1, <2>4, <3>1
  <2>6. OffersAreNew'
    BY <1>p, <2>2, <2>3, <2>4 DEF OffersAreNew, Asking
  <2>7. StagingIsWhole'
    <3>1. op'.edit = EditOf(learnings)' /\ op'.todo \subseteq offered'[learnings']
      BY <1>p, <2>2, <2>4 DEF StagingIsWhole, EditOf
    <3>. QED BY <2>4, <2>5, <3>1 DEF StagingIsWhole
  <2>8. WholeSoFar'
    BY <1>p, <2>2, <2>3, <2>4 DEF WholeSoFar
  <2>. QED BY <2>6, <2>7, <2>8 DEF Proposals
<1>10. CASE Staged
  <2>1. /\ op.pc = "stage" /\ op.todo = {} /\ op' = Idle
        /\ seen' = [seen EXCEPT ![holder] = op.edit]
        /\ UNCHANGED <<learnings, staged, past, offered>>
    BY <1>10 DEF Staged, Leave, fileVars, countVars, ghostVars
  <2>2. op.call = "run" /\ holder \in Clients /\ learnings > 0
    BY <1>s, <2>1 DEF Stages, Asking, Applying, Calls, Idle
  <2>3. staged = op.edit /\ op.edit = EditOf(learnings) /\ Applied(learnings) = {}
    <3>1. staged = [f \in Files |-> IF f \in op.todo THEN None ELSE op.edit[f]]
          /\ op.edit = EditOf(learnings)
      BY <1>p, <2>1 DEF StagingIsWhole
    <3>2. op.edit \in [Files -> Contents \cup {None}]
      BY <1>s DEF Calls, Edits
    <3>3. staged = op.edit
      BY <2>1, <3>1, <3>2
    <3>. QED BY <1>p, <2>2, <3>1, <3>3 DEF OffersAreNew
  <2>4. Offers(staged)
    <3>1. learnings \in Learnt
      BY <1>s, <2>2, Limits, LearningAssumption DEF TypeInv, Counts, Learnt
    <3>. QED BY <1>s, <2>3, <3>1 DEF Offers
  <2>5. seen'[holder] = staged
    BY <2>1, <2>2, <2>3 DEF TypeInv, FilesTyped
  <2>6. op'.pc = "idle" /\ op'.call = "none"
    BY <2>1 DEF Idle
  <2>7. OffersAreNew'
    BY <1>p, <2>1, <2>6 DEF OffersAreNew, Asking
  <2>8. StagingIsWhole'
    BY <2>1, <2>2, <2>4, <2>5, <2>6, OffersSame DEF StagingIsWhole
  <2>9. WholeSoFar'
    BY <1>p, <2>1, <2>2, <2>6 DEF WholeSoFar
  <2>. QED BY <2>7, <2>8, <2>9 DEF Proposals
<1>11. CASE LearningError
  <2>1. /\ op.pc \in {"reserve", "failed", "stage"} /\ op' = Idle /\ staged' = Nothing
        /\ UNCHANGED <<learnings, past, offered>>
    BY <1>11 DEF LearningError, Leave, fileVars, countVars, ghostVars
  <2>2. op.call = "run" /\ op'.pc = "idle" /\ op'.call = "none"
    BY <1>s, <2>1 DEF Stages, Asking, Applying, Calls, Idle
  <2>3. OffersAreNew'
    BY <1>p, <2>1, <2>2 DEF OffersAreNew, Asking
  <2>4. StagingIsWhole'
    BY <2>1, <2>2 DEF StagingIsWhole
  <2>5. WholeSoFar'
    BY <1>p, <2>1, <2>2 DEF WholeSoFar
  <2>. QED BY <2>3, <2>4, <2>5 DEF Proposals
<1>12. CASE Archive \/ Open
  <2>1. /\ op.pc \in {"apply", "write"} /\ op'.pc \in {"write", "fill"} /\ op'.todo = op.todo
        /\ op'.edit = op.edit /\ op'.call = op.call
        /\ UNCHANGED <<learnings, staged, seen, past, offered>>
    BY <1>12, <1>s DEF Archive, Open, Calls, countVars, ghostVars
  <2>2. op.call \in {"accept", "save"}
    BY <1>s, <2>1 DEF Stages, Asking, Calls, Idle
  <2>3. OffersAreNew'
    BY <1>p, <2>1, <2>2 DEF OffersAreNew, Asking
  <2>4. StagingIsWhole'
    BY <1>p, <2>1, <2>2, OffersSame DEF StagingIsWhole
  <2>5. WholeSoFar'
    BY <1>p, <2>1, <2>2 DEF WholeSoFar
  <2>. QED BY <2>3, <2>4, <2>5 DEF Proposals
<1>13. CASE Fill
  <2>1. PICK f \in op.todo :
          /\ f \in Files /\ past' = past \cup {<<f, op.text, op.edit[f]>>}
          /\ op'.todo = op.todo \ {f} /\ op'.edit = op.edit /\ op'.call = op.call
    BY <1>13, Rewriting
  <2>2. /\ op.pc = "fill" /\ op'.pc = "apply" /\ UNCHANGED <<learnings, staged, seen, offered>>
    BY <1>13, <1>s DEF Fill, Calls, countVars, ghostVars
  <2>3. op.call \in {"accept", "save"}
    BY <1>s, <2>2 DEF Stages, Asking, Calls, Idle
  <2>4. \A m : Applied(m)' = IF m = op.edit[f] THEN Applied(m) \cup {f} ELSE Applied(m)
    <3>1. PICK q : q = <<f, op.text, op.edit[f]>>
      OBVIOUS
    <3>2. q[1] = f /\ q[3] = op.edit[f] /\ past' = past \cup {q}
      BY <2>1, <3>1
    <3>3. ASSUME NEW m, m = op.edit[f] PROVE Applied(m)' = Applied(m) \cup {f}
      BY <2>1, <3>2, <3>3 DEF Applied
    <3>4. ASSUME NEW m, m # op.edit[f] PROVE Applied(m)' = Applied(m)
      BY <3>2, <3>4 DEF Applied
    <3>. QED BY <3>3, <3>4
  <2>5. CASE op.call = "save"
    <3>1. op.edit[f] \notin Learnt
      BY <1>p, <2>1, <2>5 DEF WholeSoFar
    <3>2. \A m \in Learnt : Applied(m)' = Applied(m)
      BY <2>4, <3>1
    <3>3. OffersAreNew'
      BY <1>p, <2>1, <2>2, <2>5, <3>1 DEF OffersAreNew, Asking
    <3>4. Offers(staged) => Offers(staged)'
      BY <2>2, <3>2 DEF Offers
    <3>5. StagingIsWhole'
      BY <1>p, <2>1, <2>2, <2>5, <3>4 DEF StagingIsWhole
    <3>6. WholeSoFar'
      BY <1>p, <2>1, <2>2, <2>5, <3>2 DEF WholeSoFar
    <3>. QED BY <3>3, <3>5, <3>6 DEF Proposals
  <2>6. CASE op.call = "accept"
    <3>1. op.edit # Nothing
      BY <1>s, <2>1 DEF Stages, Nothing
    <3>2. PICK n \in Learnt :
            /\ n <= learnings /\ op.edit = EditOf(n) /\ op.todo \subseteq offered[n]
            /\ Applied(n) = offered[n] \ op.todo
            /\ \A m \in Learnt \ {n} : Applied(m) \in {{}, offered[m]}
      BY <1>p, <2>6, <3>1 DEF WholeSoFar
    <3>3. op.edit[f] = n
      BY <2>1, <3>2, EditOfIs
    <3>4. Applied(n)' = offered[n] \ op'.todo
      BY <2>1, <2>4, <3>2, <3>3
    <3>5. \A m \in Learnt \ {n} : Applied(m)' \in {{}, offered[m]}
      BY <2>4, <3>2, <3>3
    <3>6. OffersAreNew'
      <4>1. \A p \in past' : p[3] \in Learnt => p[3] <= learnings
        BY <1>p, <2>1, <3>2, <3>3 DEF OffersAreNew
      <4>. QED BY <1>p, <2>1, <2>2, <2>6, <4>1 DEF OffersAreNew, Asking
    <3>7. StagingIsWhole'
      BY <1>p, <2>1, <2>2, <2>6 DEF StagingIsWhole
    <3>8. WholeSoFar'
      <4>1. op'.edit = EditOf(n)' /\ op'.todo \subseteq offered'[n]
        BY <2>1, <2>2, <3>2
      <4>. QED BY <2>1, <2>2, <2>6, <3>1, <3>2, <3>4, <3>5, <4>1 DEF WholeSoFar
    <3>. QED BY <3>6, <3>7, <3>8 DEF Proposals
  <2>. QED BY <2>3, <2>5, <2>6
<1>14. CASE Saved
  <2>1. /\ op.call = "save" /\ op.pc = "apply" /\ op'.call = "none" /\ op'.pc = "idle"
        /\ UNCHANGED <<learnings, staged, seen, past, offered>>
    BY <1>14 DEF Saved, Leave, Idle, fileVars, countVars, ghostVars
  <2>2. OffersAreNew'
    BY <1>p, <2>1 DEF OffersAreNew, Asking
  <2>3. StagingIsWhole'
    BY <1>p, <2>1, OffersSame DEF StagingIsWhole
  <2>4. WholeSoFar'
    BY <1>p, <2>1 DEF WholeSoFar
  <2>. QED BY <2>2, <2>3, <2>4 DEF Proposals
<1>15. CASE Discard
  <2>1. /\ op.call = "accept" /\ op.pc = "apply" /\ op.todo = {}
        /\ op'.call = "accept" /\ op'.pc = "mark" /\ op'.edit = op.edit /\ op'.todo = {}
        /\ UNCHANGED <<learnings, past, offered>>
    BY <1>15, <1>s DEF Discard, Calls, fileVars, countVars, ghostVars
  <2>2. OffersAreNew'
    BY <1>p, <2>1 DEF OffersAreNew, Asking
  <2>3. StagingIsWhole'
    BY <2>1 DEF StagingIsWhole
  <2>4. WholeSoFar'
    BY <1>p, <2>1 DEF WholeSoFar
  <2>. QED BY <2>2, <2>3, <2>4 DEF Proposals
<1>16. CASE Mark
  <2>1. /\ op.pc = "mark" /\ op.todo = {} /\ staged = Nothing
        /\ op'.call = "none" /\ op'.pc = "idle"
        /\ UNCHANGED <<learnings, staged, past, offered>>
    BY <1>16, <1>s DEF Mark, Leave, Idle, Stages, fileVars, countVars
  <2>2. op.call = "accept"
    BY <1>s, <2>1 DEF Stages, Asking, Applying, Calls, Idle
  <2>3. \A m \in Learnt : Applied(m) \in {{}, offered[m]}
    <3>1. CASE op.edit = Nothing
      BY <1>p, <3>1 DEF WholeSoFar
    <3>2. CASE op.edit # Nothing
      <4>1. PICK n \in Learnt : /\ Applied(n) = offered[n] \ op.todo
                                /\ \A m \in Learnt \ {n} : Applied(m) \in {{}, offered[m]}
        BY <1>p, <2>2, <3>2 DEF WholeSoFar
      <4>2. Applied(n) = offered[n]
        BY <2>1, <4>1
      <4>. QED BY <4>1, <4>2
    <3>. QED BY <3>1, <3>2
  <2>4. OffersAreNew'
    BY <1>p, <2>1 DEF OffersAreNew, Asking
  <2>5. StagingIsWhole'
    BY <2>1 DEF StagingIsWhole
  <2>6. WholeSoFar'
    BY <2>1, <2>3 DEF WholeSoFar
  <2>. QED BY <2>4, <2>5, <2>6 DEF Proposals
<1>. QED
  BY <1>2, <1>3, <1>4, <1>5, <1>6, <1>7, <1>8, <1>9, <1>10, <1>11, <1>12, <1>13, <1>14, <1>15, <1>16
  DEF Next, Beside

LEMMA ProposalInit == Init => ProposalInv
<1>. SUFFICES ASSUME Init PROVE Proposals
  BY DEF ProposalInv, Proposals
<1>1. past = {<<f, 1, 0>> : f \in Files} /\ op = Idle /\ staged = Nothing /\ learnings = 0
      /\ offered = [n \in Learnt |-> {}]
  BY DEF Init, Learnt
<1>2. \A p \in past : p[3] \notin Learnt
  BY <1>1 DEF Learnt
<1>3. \A n \in Learnt : Applied(n) = {}
  BY <1>2 DEF Applied
<1>. QED BY <1>1, <1>2, <1>3 DEF Proposals, OffersAreNew, StagingIsWhole, WholeSoFar, Idle, Asking

(* Proposals come into force as the learning run made them, all its edits or none, whatever tabs *)
(* do between its staging and the accept, unless a call was interrupted.                        *)
THEOREM ProposalsAreWhole == Spec => []WholeProposals
<1>1. TypeInv /\ ProposalInv => WholeProposals
  <2>. SUFFICES ASSUME TypeInv, ProposalInv, holder = None, faults = 0, NEW n \in Learnt
                PROVE  Applied(n) \in {{}, offered[n]}
    BY DEF WholeProposals, Applied, Learnt
  <2>. QED BY DEF TypeInv, Stages, Idle, ProposalInv, WholeSoFar
<1>. QED BY <1>1, ProposalInit, TypesAreKept, ProposalStep, PTL DEF Spec

(* What an accept applies is, to the last edit, what one of the tabs was shown.                  *)
THEOREM ProposalsAreReviewed == Spec => OnlyReviewedIsApplied
<1>1. TypeInv /\ ProposalInv /\ [Next]_vars =>
        [holder = None /\ op'.call = "accept" /\ op'.edit # Nothing /\ faults = 0 =>
           \E c \in Clients : seen[c] = op'.edit]_vars
  <2>. SUFFICES ASSUME TypeInv, ProposalInv, Next, holder = None, op'.call = "accept",
                       op'.edit # Nothing, faults = 0
                PROVE  \E c \in Clients : seen[c] = op'.edit
    OBVIOUS
  <2>1. op = Idle /\ op \in Calls
    BY DEF TypeInv, Stages
  <2>2. op' # op
    BY <2>1 DEF Idle
  <2>3. PICK c \in Clients : Accept(c)
    <3>1. ~Beside
      BY <2>2, BesideLeaves
    <3>2. \A c \in Clients : ~Gather(c) /\ ~Save(c) /\ ~Reject(c)
      BY <2>1, <2>2 DEF Gather, Save, Reject, Enter, Idle
    <3>. QED BY <2>1, <3>1, <3>2 DEF Next, Beside, Idle, Reserve, Post, ReadBody, SettleUnbilled,
    Optimize,
               Stage, Staged, LearningError, Archive, Open, Fill, Saved, Discard, Mark, Interrupt
  <2>4. op'.edit = staged
    BY <2>3 DEF Accept, Enter, Idle
  <2>. QED BY <2>1, <2>4 DEF ProposalInv, StagingIsWhole, Idle
<1>. QED BY <1>1, ProposalInit, TypesAreKept, ProposalStep, PTL DEF Spec, OnlyReviewedIsApplied
===============================================================================
