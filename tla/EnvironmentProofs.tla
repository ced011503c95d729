------------------------- MODULE EnvironmentProofs -------------------------
(***************************************************************************)
(* What is proved of the steps around a run: of Environment, for any       *)
(* number of edits, failures and deaths of the app, its types and what a   *)
(* run starts with; of NewsRuns, which extends it, the history of subjects *)
(* and the plans of the videos; and of Scheduler, which starts runs by     *)
(* itself, that a slot of a schedule is offered once and in its window.    *)
(***************************************************************************)
EXTENDS NewsRuns, Scheduler, FiniteSetTheorems, SequenceTheorems, TLAPS

-------------------------------------------------------------------------------
(***************************************************************************)
(* The environment of a workflow.                                          *)
(***************************************************************************)
USE EnvironmentAssumption DEF Requirements, EnvironmentAssumption

LEMMA InitType == Init => TypeOK
<1> SUFFICES ASSUME Init PROVE TypeOK
  OBVIOUS
<1>1. requirements \in 0 .. edits /\ edits \in 0 .. MaxEdits /\ faults \in 0 .. MaxFaults
  BY DEF Init
<1>2. pc \in Building \cup {"idle", "ready"} /\ (current = None <=> pc = "idle")
  BY DEF Init, Building
<1>3. python \in BOOLEAN /\ sdk \in BOOLEAN /\ content = None /\ marker = None
  BY DEF Init
<1>4. reading = None /\ pc # "install" /\ current = None /\ detached = {}
      /\ reverted = FALSE /\ strayed = FALSE
  BY DEF Init
<1>5. QED
  BY <1>1, <1>2, <1>3, <1>4 DEF TypeOK

LEMMA NextType == TypeOK /\ [Next]_vars => TypeOK'
<1> SUFFICES ASSUME TypeOK, [Next]_vars PROVE TypeOK'
  OBVIOUS
<1> USE DEF TypeOK, Building, venvVars, callVars, pastVars, Go, Fault
<1>1. CASE Ensure BY <1>1 DEF Ensure
<1>2. CASE Blocked BY <1>2 DEF Blocked
<1>3. CASE Find BY <1>3 DEF Find
<1>4. CASE Removed BY <1>4 DEF Removed
<1>5. CASE CreateVenv BY <1>5 DEF CreateVenv
<1>6. CASE InstallSdk BY <1>6 DEF InstallSdk
<1>7. CASE Read BY <1>7 DEF Read
<1>8. CASE Install BY <1>8 DEF Install
<1>9. CASE Mark BY <1>9 DEF Mark
<1>10. CASE RunEnds BY <1>10 DEF RunEnds
<1>11. ASSUME NEW part \in Parts, Remove(part) PROVE TypeOK'
  BY <1>11 DEF Remove
<1>12. CASE Fail BY <1>12 DEF Fail
<1>13. CASE Die BY <1>13 DEF Die
<1>14. ASSUME NEW v \in Requirements, Edit(v) PROVE TypeOK'
  BY <1>14 DEF Edit
<1>15. ASSUME NEW v \in Requirements, InstallDetached(v) PROVE TypeOK'
  BY <1>15 DEF InstallDetached
<1>16. CASE UNCHANGED vars BY <1>16 DEF vars
<1>17. QED
  BY <1>1, <1>2, <1>3, <1>4, <1>5, <1>6, <1>7, <1>8, <1>9, <1>10, <1>11, <1>12, <1>13, <1>14,
     <1>15, <1>16 DEF Next

\* Every variable stays in its range, and a pip runs only while requirements are installed.
THEOREM TypeCorrect == Spec => []TypeOK
  BY InitType, NextType, PTL DEF Spec

(***************************************************************************)
(* What is left of an environment that is taken apart is marked older than *)
(* the requirements, and one that is being built is not marked at all.     *)
(***************************************************************************)
Whole == python /\ sdk /\ content # None

Forward == requirements = edits /\ (current # None => current <= requirements)

Unmarked == pc \in {"create", "sdk", "read", "install", "mark"} => marker = None

Outdated == pc \in {"find", "remove"} /\ marker # None => marker < current

Vouched == marker # None => marker <= requirements /\ (Whole \/ marker < requirements)

Grown ==
  /\ pc \in {"sdk", "read", "install", "mark"} => python
  /\ pc \in {"read", "install", "mark"} => sdk
  /\ pc = "mark" => content # None

Sound == Forward /\ Unmarked /\ Outdated /\ Vouched /\ Grown

BuiltInv == ~reverted => Sound

LEMMA InitBuilt == Init => BuiltInv
  BY DEF Init, BuiltInv, Sound, Forward, Unmarked, Outdated, Vouched, Grown

\* What happened stays in the history.
LEMMA HistoryStays ==
  ASSUME TypeOK, [Next]_vars
  PROVE  (reverted => reverted') /\ (strayed => strayed')
<1> USE DEF TypeOK, pastVars
<1>1. CASE Ensure BY <1>1 DEF Ensure
<1>2. CASE Blocked BY <1>2 DEF Blocked
<1>3. CASE Find BY <1>3 DEF Find
<1>4. CASE Removed BY <1>4 DEF Removed
<1>5. CASE CreateVenv BY <1>5 DEF CreateVenv
<1>6. CASE InstallSdk BY <1>6 DEF InstallSdk
<1>7. CASE Read BY <1>7 DEF Read
<1>8. CASE Install BY <1>8 DEF Install
<1>9. CASE Mark BY <1>9 DEF Mark
<1>10. CASE RunEnds BY <1>10 DEF RunEnds
<1>11. ASSUME NEW part \in Parts, Remove(part)
       PROVE  (reverted => reverted') /\ (strayed => strayed')
  BY <1>11 DEF Remove
<1>12. CASE Fail BY <1>12 DEF Fail
<1>13. CASE Die BY <1>13 DEF Die
<1>14. ASSUME NEW v \in Requirements, Edit(v)
       PROVE  (reverted => reverted') /\ (strayed => strayed')
  BY <1>14 DEF Edit
<1>15. ASSUME NEW v \in Requirements, InstallDetached(v)
       PROVE  (reverted => reverted') /\ (strayed => strayed')
  BY <1>15 DEF InstallDetached
<1>16. CASE UNCHANGED vars BY <1>16 DEF vars
<1>17. QED
  BY <1>1, <1>2, <1>3, <1>4, <1>5, <1>6, <1>7, <1>8, <1>9, <1>10, <1>11, <1>12, <1>13, <1>14,
     <1>15, <1>16 DEF Next

LEMMA NextBuilt ==
  ASSUME TypeOK, BuiltInv, [Next]_vars
  PROVE  BuiltInv'
<1> SUFFICES ASSUME ~reverted' PROVE Sound'
  BY DEF BuiltInv
<1>0. ~reverted /\ Sound
  BY HistoryStays DEF BuiltInv
<1> USE <1>0 DEF TypeOK, Sound, Forward, Unmarked, Outdated, Vouched, Grown, Whole,
            venvVars, callVars, Go, Exists
<1>1. CASE Ensure BY <1>1 DEF Ensure
<1>2. CASE Blocked BY <1>2 DEF Blocked
<1>3. CASE Find BY <1>3 DEF Find
<1>4. CASE Removed BY <1>4 DEF Removed
<1>5. CASE CreateVenv BY <1>5 DEF CreateVenv
<1>6. CASE InstallSdk BY <1>6 DEF InstallSdk
<1>7. CASE Read BY <1>7 DEF Read
<1>8. CASE Install BY <1>8 DEF Install
<1>9. CASE Mark BY <1>9 DEF Mark
<1>10. CASE RunEnds BY <1>10 DEF RunEnds
<1>11. ASSUME NEW part \in Parts, Remove(part) PROVE Sound'
  BY <1>11 DEF Remove
<1>12. CASE Fail BY <1>12 DEF Fail, Fault
<1>13. CASE Die BY <1>13 DEF Die, Fault
<1>14. ASSUME NEW v \in Requirements, Edit(v) PROVE Sound'
  <2>1. /\ edits' = edits + 1 /\ requirements' = v /\ v <= edits' /\ ~(v < edits')
        /\ UNCHANGED <<venvVars, callVars>>
    BY <1>14 DEF Edit
  <2>2. requirements' = edits' /\ requirements < requirements'
    BY <2>1
  <2>3. QED
    BY <2>1, <2>2
<1>15. ASSUME NEW v \in Requirements, InstallDetached(v) PROVE Sound'
  BY <1>15 DEF InstallDetached
<1>16. CASE UNCHANGED vars BY <1>16 DEF vars
<1>17. QED
  BY <1>1, <1>2, <1>3, <1>4, <1>5, <1>6, <1>7, <1>8, <1>9, <1>10, <1>11, <1>12, <1>13, <1>14,
     <1>15, <1>16 DEF Next

LEMMA OnlyTwoStepsStart ==
  ASSUME [Next]_vars, Starts
  PROVE  Ensure \/ Mark
<1> USE DEF Starts, Go
<1>1. ~(Blocked \/ Find \/ Removed \/ CreateVenv \/ InstallSdk \/ Read \/ Install \/ RunEnds)
  BY DEF Blocked, Find, Removed, CreateVenv, InstallSdk, Read, Install, RunEnds
<1>2. ~(Fail \/ Die)
  BY DEF Fail, Die
<1>3. ~\E part \in Parts : Remove(part)
  BY DEF Remove
<1>4. ~\E v \in Requirements : Edit(v) \/ InstallDetached(v)
  BY DEF Edit, InstallDetached, callVars
<1>5. ~UNCHANGED vars
  BY DEF vars, callVars
<1>6. QED
  BY <1>1, <1>2, <1>3, <1>4, <1>5 DEF Next

LEMMA StartsBuilt ==
  ASSUME TypeOK, BuiltInv, [Next]_vars, Starts, ~reverted
  PROVE  python' /\ sdk' /\ content' # None
<1>1. CASE Ensure
  <2>1. marker = requirements /\ UNCHANGED <<python, sdk, content>>
    BY <1>1 DEF Ensure, Go, Starts, venvVars
  <2>2. Whole
    BY <2>1 DEF TypeOK, BuiltInv, Sound, Vouched
  <2>3. QED
    BY <2>1, <2>2 DEF Whole
<1>2. CASE Mark
  BY <1>2 DEF Mark, Go, BuiltInv, Sound, Grown
<1>3. QED
  BY <1>1, <1>2, OnlyTwoStepsStart

\* A run starts in an environment that was built to the end, whatever failed, died or was edited
\* meanwhile, as long as requirements that were replaced do not come back.
THEOREM BuiltUnlessReverted == Spec => ReadyIsBuilt
<1>1. TypeOK /\ BuiltInv /\ [Next]_vars => BuiltInv'
  BY NextBuilt
<1>2. TypeOK /\ BuiltInv /\ [Next]_vars
        => (Starts /\ ~reverted => python' /\ sdk' /\ content' # None)
  BY StartsBuilt
<1>3. UNCHANGED vars => ~Starts
  BY DEF Starts, vars, callVars
<1>4. QED
  BY <1>1, <1>2, <1>3, InitType, NextType, InitBuilt, PTL DEF Spec, ReadyIsBuilt
(***************************************************************************)
(* What is installed is never older than the marker says, as long as no    *)
(* pip came to its end after its app had died.                             *)
(***************************************************************************)
NewEnough ==
  /\ marker # None /\ content # None => content >= marker
  /\ reading # None => reading >= current
  /\ pc = "mark" => content >= current

NewEnoughInv == ~reverted /\ ~strayed => NewEnough

LEMMA InitNewEnough == Init => NewEnoughInv
  BY DEF Init, NewEnough, NewEnoughInv

LEMMA NextNewEnough ==
  ASSUME TypeOK, BuiltInv, NewEnoughInv, [Next]_vars
  PROVE  NewEnoughInv'
<1> SUFFICES ASSUME ~reverted', ~strayed' PROVE NewEnough'
  BY DEF NewEnoughInv
<1>0. ~reverted /\ ~strayed /\ Sound /\ NewEnough
  BY HistoryStays DEF BuiltInv, NewEnoughInv
<1> USE <1>0 DEF TypeOK, Sound, Forward, Unmarked, Grown, NewEnough, venvVars, callVars, Go
<1>1. CASE Ensure BY <1>1 DEF Ensure
<1>2. CASE Blocked BY <1>2 DEF Blocked
<1>3. CASE Find BY <1>3 DEF Find
<1>4. CASE Removed BY <1>4 DEF Removed
<1>5. CASE CreateVenv BY <1>5 DEF CreateVenv
<1>6. CASE InstallSdk BY <1>6 DEF InstallSdk
<1>7. CASE Read BY <1>7 DEF Read
<1>8. CASE Install BY <1>8 DEF Install
<1>9. CASE Mark BY <1>9 DEF Mark
<1>10. CASE RunEnds BY <1>10 DEF RunEnds
<1>11. ASSUME NEW part \in Parts, Remove(part) PROVE NewEnough'
  BY <1>11 DEF Remove
<1>12. CASE Fail BY <1>12 DEF Fail, Fault
<1>13. CASE Die BY <1>13 DEF Die, Fault
<1>14. ASSUME NEW v \in Requirements, Edit(v) PROVE NewEnough'
  BY <1>14 DEF Edit
<1>15. ASSUME NEW v \in Requirements, InstallDetached(v) PROVE NewEnough'
  BY <1>15 DEF InstallDetached
<1>16. CASE UNCHANGED vars BY <1>16 DEF vars
<1>17. QED
  BY <1>1, <1>2, <1>3, <1>4, <1>5, <1>6, <1>7, <1>8, <1>9, <1>10, <1>11, <1>12, <1>13, <1>14,
     <1>15, <1>16 DEF Next

LEMMA StartsCurrent ==
  ASSUME TypeOK, BuiltInv, NewEnoughInv, [Next]_vars, Starts, ~reverted, ~strayed
  PROVE  content' # None /\ content' >= current'
<1>1. content' # None
  BY StartsBuilt
<1>2. CASE Ensure
  <2>1. marker = requirements /\ current' = requirements /\ content' = content
    BY <1>2 DEF Ensure, Go, Starts, venvVars
  <2>2. QED
    BY <1>1, <2>1 DEF TypeOK, NewEnoughInv, NewEnough
<1>3. CASE Mark
  BY <1>1, <1>3 DEF Mark, Go, NewEnoughInv, NewEnough
<1>4. QED
  BY <1>2, <1>3, OnlyTwoStepsStart

\* A run starts with the requirements whose fingerprint was taken, or newer ones, as long as
\* requirements that were replaced do not come back and no pip outlives its app.
THEOREM CurrentUnlessReverted == Spec => ReadyIsCurrent
<1>1. TypeOK /\ BuiltInv /\ [Next]_vars => BuiltInv'
  BY NextBuilt
<1>2. TypeOK /\ BuiltInv /\ NewEnoughInv /\ [Next]_vars => NewEnoughInv'
  BY NextNewEnough
<1>3. TypeOK /\ BuiltInv /\ NewEnoughInv /\ [Next]_vars
        => (Starts /\ ~reverted /\ ~strayed => content' # None /\ content' >= current')
  BY StartsCurrent
<1>4. UNCHANGED vars => ~Starts
  BY DEF Starts, vars, callVars
<1>5. QED
  BY <1>1, <1>2, <1>3, <1>4, InitType, NextType, InitBuilt, InitNewEnough, PTL
  DEF Spec, ReadyIsCurrent

HIDE EnvironmentAssumption DEF Requirements, EnvironmentAssumption

-------------------------------------------------------------------------------
(***************************************************************************)
(* The elements that are picked from a list.                               *)
(***************************************************************************)
Rank(I, i) == Cardinality({j \in I : j <= i})
At(I, k) == CHOOSE i \in I : Rank(I, i) = k

LEMMA PickedIs ==
  ASSUME NEW s, NEW I
  PROVE  Picked(s, I) = [k \in 1 .. Cardinality(I) |-> s[At(I, k)]]
BY DEF Picked, At, Rank

\* Every rank is that of one position, and positions and ranks go up together.
LEMMA Ranks ==
  ASSUME NEW n \in Nat, NEW I \in SUBSET (1 .. n)
  PROVE  /\ Cardinality(I) \in 0 .. n
         /\ \A k \in 1 .. Cardinality(I) : At(I, k) \in I /\ Rank(I, At(I, k)) = k
         /\ \A i \in I : Rank(I, i) \in 1 .. Cardinality(I) /\ At(I, Rank(I, i)) = i
         /\ \A k, l \in 1 .. Cardinality(I) : k < l <=> At(I, k) < At(I, l)
<1>. DEFINE Below(i) == {j \in I : j <= i}
<1>1. IsFiniteSet(I) /\ Cardinality(I) \in 0 .. n
  <2>1. IsFiniteSet(1 .. n) /\ Cardinality(1 .. n) = n
    BY FS_Interval
  <2>2. IsFiniteSet(I) /\ Cardinality(I) <= n
    BY <2>1, FS_Subset
  <2>3. Cardinality(I) \in Nat
    BY <2>2, FS_CardinalityType
  <2>. QED BY <2>2, <2>3
<1>2. \A i \in I : /\ IsFiniteSet(Below(i)) /\ Rank(I, i) = Cardinality(Below(i))
                   /\ Rank(I, i) \in 1 .. Cardinality(I)
  <2>. SUFFICES ASSUME NEW i \in I
                PROVE  /\ IsFiniteSet(Below(i)) /\ Rank(I, i) = Cardinality(Below(i))
                       /\ Rank(I, i) \in 1 .. Cardinality(I)
    OBVIOUS
  <2>1. Below(i) \in SUBSET I
    OBVIOUS
  <2>2. i \in Below(i)
    OBVIOUS
  <2>3. Rank(I, i) = Cardinality(Below(i))
    BY DEF Rank
  <2>. HIDE DEF Below
  <2>4. IsFiniteSet(Below(i)) /\ Cardinality(Below(i)) \in Nat
        /\ Cardinality(Below(i)) <= Cardinality(I)
    BY <1>1, <2>1, FS_Subset, FS_CardinalityType
  <2>5. Cardinality(Below(i)) # 0
    BY <2>2, <2>4, FS_EmptySet
  <2>. QED BY <1>1, <2>3, <2>4, <2>5
<1>3. \A i, j \in I : i < j => Rank(I, i) < Rank(I, j)
  <2>. SUFFICES ASSUME NEW i \in I, NEW j \in I, i < j PROVE Rank(I, i) < Rank(I, j)
    OBVIOUS
  <2>1. Below(i) \in SUBSET Below(j) /\ j \in Below(j) /\ j \notin Below(i)
    <3>1. \A x \in I : x <= i => x <= j
      OBVIOUS
    <3>2. ~(j <= i) /\ j <= j
      OBVIOUS
    <3>. QED BY <3>1, <3>2
  <2>. HIDE DEF Below
  <2>2. /\ Cardinality(Below(i)) <= Cardinality(Below(j))
        /\ Cardinality(Below(i)) # Cardinality(Below(j))
    BY <1>2, <2>1, FS_Subset
  <2>. QED BY <1>1, <1>2, <2>2
<1>4. \A i, j \in I : i = j <=> Rank(I, i) = Rank(I, j)
  <2>. SUFFICES ASSUME NEW i \in I, NEW j \in I, i # j PROVE Rank(I, i) # Rank(I, j)
    OBVIOUS
  <2>1. Rank(I, i) \in Nat /\ Rank(I, j) \in Nat
    <3>1. Rank(I, i) \in 1 .. Cardinality(I) /\ Rank(I, j) \in 1 .. Cardinality(I)
      BY <1>2
    <3>. QED BY <1>1, <3>1
  <2>2. i < j \/ j < i
    OBVIOUS
  <2>3. Rank(I, i) < Rank(I, j) \/ Rank(I, j) < Rank(I, i)
    BY <1>3, <2>2
  <2>. QED BY <2>1, <2>3
<1>5. \A k \in 1 .. Cardinality(I) : \E i \in I : Rank(I, i) = k
  <2>. DEFINE f == [i \in I |-> Rank(I, i)]
              T == 1 .. Cardinality(I)
  <2>1. f \in Injection(I, T)
    BY <1>2, <1>4 DEF Injection, IsInjective
  <2>2. IsFiniteSet(T) /\ Cardinality(T) = Cardinality(I)
    BY <1>1, FS_Interval
  <2>3. f \in Surjection(I, T)
    <3>. HIDE DEF f, T
    <3>. QED BY <2>1, <2>2, FS_Injection
  <2>. QED BY <2>3 DEF Surjection
<1>6. \A k \in 1 .. Cardinality(I) : At(I, k) \in I /\ Rank(I, At(I, k)) = k
  BY <1>5 DEF At
<1>7. \A i \in I : At(I, Rank(I, i)) = i
  BY <1>2, <1>4, <1>6
<1>8. \A k, l \in 1 .. Cardinality(I) : k < l <=> At(I, k) < At(I, l)
  <2>. SUFFICES ASSUME NEW k \in 1 .. Cardinality(I), NEW l \in 1 .. Cardinality(I)
                PROVE  k < l <=> At(I, k) < At(I, l)
    OBVIOUS
  <2>1. /\ At(I, k) \in 1 .. n /\ At(I, l) \in 1 .. n
        /\ At(I, k) < At(I, l) => k < l
        /\ At(I, l) < At(I, k) => l < k
        /\ At(I, l) = At(I, k) => l = k
    BY <1>3, <1>6
  <2>. QED BY <1>1, <2>1
<1>. QED BY <1>1, <1>2, <1>6, <1>7, <1>8

\* What is picked from a list is a list of its elements, in its order.
LEMMA PickedList ==
  ASSUME NEW S, NEW s \in Seq(S), NEW I \in SUBSET DOMAIN s
  PROVE  /\ Picked(s, I) \in Seq(S) /\ Len(Picked(s, I)) = Cardinality(I)
         /\ DOMAIN Picked(s, I) = 1 .. Cardinality(I)
         /\ \A k \in DOMAIN Picked(s, I) : At(I, k) \in I /\ Picked(s, I)[k] = s[At(I, k)]
         /\ \A k, l \in DOMAIN Picked(s, I) : k < l <=> At(I, k) < At(I, l)
         /\ \A i \in I : \E k \in DOMAIN Picked(s, I) : Picked(s, I)[k] = s[i]
<1>1. DOMAIN s = 1 .. Len(s) /\ Len(s) \in Nat
  OBVIOUS
<1>. DEFINE p == Picked(s, I)
<1>2. p = [k \in 1 .. Cardinality(I) |-> s[At(I, k)]]
  BY PickedIs
<1>3. /\ Cardinality(I) \in Nat
      /\ \A k \in 1 .. Cardinality(I) : At(I, k) \in I
      /\ \A k, l \in 1 .. Cardinality(I) : k < l <=> At(I, k) < At(I, l)
      /\ \A i \in I : Rank(I, i) \in 1 .. Cardinality(I) /\ At(I, Rank(I, i)) = i
  BY <1>1, Ranks
<1>4. \A i \in I : s[i] \in S
  BY <1>1, ElementOfSeq
<1>. HIDE DEF p
<1>5. /\ DOMAIN p = 1 .. Cardinality(I)
      /\ \A k \in DOMAIN p : p[k] = s[At(I, k)] /\ p[k] \in S
  BY <1>2, <1>3, <1>4
<1>6. p \in Seq(S) /\ Len(p) = Cardinality(I)
  BY <1>2, <1>3, <1>5
<1>7. \A i \in I : \E k \in DOMAIN p : p[k] = s[i]
  BY <1>3, <1>5
<1>. QED BY <1>3, <1>5, <1>6, <1>7 DEF p

LEMMA WholeList ==
  ASSUME NEW S, NEW s \in Seq(S)
  PROVE  Picked(s, DOMAIN s) = s
<1>. DEFINE n == Len(s)
<1>1. n \in Nat /\ DOMAIN s = 1 .. n
  OBVIOUS
<1>. HIDE DEF n
<1>2. \A i \in 1 .. n : Rank(1 .. n, i) = i
  <2>. TAKE i \in 1 .. n
  <2>1. {j \in 1 .. n : j <= i} = 1 .. i
    BY <1>1
  <2>2. Cardinality(1 .. i) = i
    BY <1>1, FS_Interval
  <2>. QED BY <2>1, <2>2 DEF Rank
<1>3. Cardinality(1 .. n) = n
  BY <1>1, FS_Interval
<1>4. \A i \in 1 .. n : At(1 .. n, i) = i
  BY <1>1, <1>2, <1>3, Ranks
<1>5. Picked(s, 1 .. n) = [k \in 1 .. n |-> s[k]]
  BY <1>3, <1>4, PickedIs
<1>. QED BY <1>1, <1>5 DEF n

LEMMA DistinctList ==
  ASSUME NEW s \in Seq(Titles)
  PROVE  /\ Distinct(s) \in Seq(Titles)
         /\ (\A i, j \in DOMAIN s : s[i] = s[j] => i = j) => Distinct(s) = s
<1>. DEFINE I == First(s, [t \in Titles |-> t])
<1>1. I \in SUBSET DOMAIN s
  BY DEF First
<1>2. Distinct(s) \in Seq(Titles)
  BY <1>1, PickedList DEF Distinct
<1>3. ASSUME \A i, j \in DOMAIN s : s[i] = s[j] => i = j
      PROVE  Distinct(s) = s
  <2>1. \A i \in DOMAIN s : s[i] \in Titles
    BY ElementOfSeq
  <2>. DEFINE f == [t \in Titles |-> t]
  <2>2. \A i \in DOMAIN s : f[s[i]] = s[i]
    BY <2>1
  <2>3. \A i \in DOMAIN s : \A j \in 1 .. i - 1 : j \in DOMAIN s /\ j # i
    BY LenProperties
  <2>4. I = First(s, f)
    OBVIOUS
  <2>. HIDE DEF f, I
  <2>5. ASSUME NEW i \in DOMAIN s, NEW j \in 1 .. i - 1 PROVE f[s[j]] # f[s[i]]
    BY <1>3, <2>2, <2>3
  <2>6. I = DOMAIN s
    BY <2>4, <2>5 DEF First
  <2>. QED BY <2>6, WholeList DEF Distinct, I, f
<1>. QED BY <1>2, <1>3

(***************************************************************************)
(* What prepare chooses.                                                   *)
(***************************************************************************)
Apart(s) == \A i, j \in DOMAIN s : Fold[s[i]] = Fold[s[j]] => i = j

LEMMA AllowlistList ==
  ASSUME NEW s \in Seq(Titles)
  PROVE  AllowlistFilter(s) \in Seq(Titles)
<1>1. {i \in DOMAIN s : s[i] \in Listed} \in SUBSET DOMAIN s
  OBVIOUS
<1>. QED BY <1>1, PickedList DEF AllowlistFilter

LEMMA PoolList ==
  ASSUME NEW dry, NEW n, NEW pool \in Pools(dry, n)
  PROVE  pool \in Seq(Titles)
<1>1. CASE dry
  BY <1>1, NewsAssumption, DistinctList DEF Pools, NewsAssumption
<1>2. CASE ~dry
  <2>1. PICK strict \in UpTo(MaxFound, Titles), broad \in UpTo(MaxFound, Titles) :
          pool = PoolOf(strict, broad, n)
    BY <1>2 DEF Pools
  <2>2. strict \in Seq(Titles) /\ broad \in Seq(Titles)
    BY DEF UpTo
  <2>3. AllowlistFilter(strict) \in Seq(Titles) /\ AllowlistFilter(broad) \in Seq(Titles)
    BY <2>2, AllowlistList
  <2>4. Distinct(AllowlistFilter(strict) \o AllowlistFilter(broad)) \in Seq(Titles)
    BY <2>3, ConcatProperties, DistinctList
  <2>. QED BY <2>1, <2>3, <2>4 DEF PoolOf
<1>. QED BY <1>1, <1>2

LEMMA CanonicalList ==
  ASSUME NEW picked \in Seq(Titles), NEW pool \in Seq(Titles)
  PROVE  Canonical(picked, pool) \in Seq(Titles)
<1>. DEFINE Same(t) == {i \in DOMAIN pool : Fold[pool[i]] = Fold[t]}
            Known == {i \in DOMAIN picked : Fold[picked[i]] \in Folds(pool)}
            spelt(t) == Picked(pool, Same(t))[1]
            known == Picked(picked, Known)
<1>1. /\ known \in Seq(Titles)
      /\ \A k \in DOMAIN known : \E i \in Known : known[k] = picked[i]
  <2>1. Known \in SUBSET DOMAIN picked
    OBVIOUS
  <2>. QED BY <2>1, PickedList
<1>2. \A k \in DOMAIN known : spelt(known[k]) \in Titles
  <2>. SUFFICES ASSUME NEW k \in DOMAIN known PROVE spelt(known[k]) \in Titles
    OBVIOUS
  <2>1. Fold[known[k]] \in Folds(pool)
    BY <1>1
  <2>2. PICK i \in DOMAIN pool : Fold[pool[i]] = Fold[known[k]]
    BY <2>1 DEF Folds, Elements
  <2>. DEFINE I == Same(known[k])
              list == Picked(pool, I)
  <2>3. I \in SUBSET DOMAIN pool /\ i \in I
    BY <2>2
  <2>. HIDE DEF I
  <2>4. list \in Seq(Titles) /\ \E l \in DOMAIN list : list[l] = pool[i]
    BY <2>3, PickedList
  <2>. HIDE DEF list
  <2>5. 1 \in 1 .. Len(list)
    BY <2>4
  <2>6. list[1] \in Titles
    BY <2>4, <2>5, ElementOfSeq
  <2>. QED BY <2>6 DEF list, I
<1>3. Canonical(picked, pool) = [i \in DOMAIN known |-> spelt(known[i])]
  BY DEF Canonical
<1>. HIDE DEF known, spelt
<1>4. DOMAIN known = 1 .. Len(known) /\ Len(known) \in Nat
  BY <1>1
<1>. QED BY <1>2, <1>3, <1>4

\* A fresh title is none of the used ones, and none that came before, in lower case.
LEMMA TakeFreshList ==
  ASSUME NEW titles \in Seq(Titles), NEW usedFolds, NEW n
  PROVE  LET chosen == TakeFresh(titles, usedFolds, n)
         IN /\ chosen \in Seq(Titles) /\ Apart(chosen)
            /\ \A k \in DOMAIN chosen : Fold[chosen[k]] \notin usedFolds
<1>. DEFINE Fresh == {i \in First(titles, Fold) : Fold[titles[i]] \notin usedFolds}
            I == {i \in Fresh : Cardinality({j \in Fresh : j < i}) < n}
            chosen == Picked(titles, I)
<1>1. I \in SUBSET DOMAIN titles /\ DOMAIN titles = 1 .. Len(titles) /\ Len(titles) \in Nat
  BY DEF First
<1>2. \A i \in I : i \in First(titles, Fold) /\ Fold[titles[i]] \notin usedFolds
  OBVIOUS
<1>3. \A i, j \in I : Fold[titles[i]] = Fold[titles[j]] => i = j
  BY <1>1, <1>2 DEF First
<1>4. TakeFresh(titles, usedFolds, n) = chosen
  BY DEF TakeFresh
<1>. HIDE DEF I
<1>5. /\ chosen \in Seq(Titles)
      /\ \A k \in DOMAIN chosen : At(I, k) \in I /\ chosen[k] = titles[At(I, k)]
      /\ \A k, l \in DOMAIN chosen : k < l <=> At(I, k) < At(I, l)
  BY <1>1, PickedList
<1>. HIDE DEF chosen
<1>6. Apart(chosen)
  <2>. SUFFICES ASSUME NEW k \in DOMAIN chosen, NEW l \in DOMAIN chosen,
                       Fold[chosen[k]] = Fold[chosen[l]]
                PROVE  k = l
    BY DEF Apart
  <2>1. At(I, k) = At(I, l) /\ At(I, k) \in 1 .. Len(titles)
    BY <1>1, <1>3, <1>5
  <2>2. ~(k < l) /\ ~(l < k)
    BY <1>1, <1>5, <2>1
  <2>. QED BY <1>5, <2>2
<1>. QED BY <1>2, <1>4, <1>5, <1>6

Marks == {"queued", "planned", "rendered", "done", "failed"}

Runs ==
  [phase : {"research", "put", "videos"}, dry : BOOLEAN, n : 1 .. MaxVideos,
   stored : Seq(Titles), chosen : Seq(Titles), videos : Seq(Marks)]

RunOK(r) ==
  /\ r \in Runs
  /\ Len(r.videos) = IF r.phase = "videos" THEN r.n ELSE 0
  /\ r.phase # "research" => Len(r.chosen) = r.n /\ Apart(r.chosen)
  /\ r.phase = "put" => \A k \in DOMAIN r.chosen : Fold[r.chosen[k]] \notin Folds(r.stored)

LEMMA ChoosingIsOK ==
  ASSUME NEW r, RunOK(r), r.phase = "research", NEW next \in Choosing(r)
  PROVE  RunOK(next) /\ next.phase = "put" /\ next.dry = r.dry /\ next.stored = r.stored
<1>1. PICK c \in Choices : /\ next = [r EXCEPT !.phase = "put", !.chosen = c.chosen]
                           /\ c.dry = r.dry /\ c.n = r.n /\ c.used = Folds(r.stored)
  BY DEF Choosing
<1>. DEFINE Used == {Folds(titles) : titles \in UpTo(Cap, Titles)}
<1>2. PICK dry \in BOOLEAN, n \in 1 .. MaxVideos, taboo \in Used,
           picked \in UpTo(MaxFound, Listed) :
        \E pool \in Pools(dry, n) :
          LET chosen == FinalizeSubjectList(picked, pool, taboo, n)
          IN Len(chosen) = n /\ c = [dry |-> dry, n |-> n, used |-> taboo, chosen |-> chosen]
  BY DEF Choices
<1>3. PICK pool \in Pools(dry, n) :
        LET chosen == FinalizeSubjectList(picked, pool, taboo, n)
        IN Len(chosen) = n /\ c = [dry |-> dry, n |-> n, used |-> taboo, chosen |-> chosen]
  BY <1>2
<1>4. picked \in Seq(Titles) /\ pool \in Seq(Titles)
  <2>1. PICK k \in Nat : picked \in [1 .. k -> Listed]
    <3>1. \E k \in 0 .. MaxFound : picked \in [1 .. k -> Listed]
      BY DEF UpTo
    <3>2. 0 .. MaxFound \subseteq Nat
      BY NewsAssumption DEF NewsAssumption
    <3>. QED BY <3>1, <3>2
  <2>2. picked \in Seq(Titles)
    BY <2>1, NewsAssumption DEF NewsAssumption
  <2>. QED BY <2>2, PoolList
<1>5. Canonical(picked, pool) \o pool \in Seq(Titles)
  BY <1>4, CanonicalList, ConcatProperties
<1>6. /\ c.chosen \in Seq(Titles) /\ Apart(c.chosen) /\ Len(c.chosen) = c.n
      /\ \A k \in DOMAIN c.chosen : Fold[c.chosen[k]] \notin c.used
  BY <1>3, <1>5, TakeFreshList DEF FinalizeSubjectList
<1>. QED BY <1>1, <1>6 DEF RunOK, Runs

(***************************************************************************)
(* The list that is put.                                                   *)
(***************************************************************************)
LEMMA MergedTyped ==
  ASSUME NEW stored \in Seq(Titles), NEW chosen \in Seq(Titles)
  PROVE  Merged(stored, chosen) \in Seq(Titles) /\ Len(Merged(stored, chosen)) <= Cap
<1>. DEFINE m == Distinct(stored \o chosen)
<1>1. m \in Seq(Titles) /\ Len(m) \in Nat /\ Cap \in Nat \ {0}
  <2>1. stored \o chosen \in Seq(Titles)
    BY ConcatProperties
  <2>2. m \in Seq(Titles)
    BY <2>1, DistinctList
  <2>. QED BY <2>2, LenProperties, NewsAssumption DEF NewsAssumption
<1>2. Merged(stored, chosen) = IF Len(m) > Cap THEN SubSeq(m, Len(m) - Cap + 1, Len(m)) ELSE m
  BY DEF Merged
<1>. HIDE DEF m
<1>3. CASE Len(m) > Cap
  <2>1. \A i \in Len(m) - Cap + 1 .. Len(m) : m[i] \in Titles
    BY <1>1, <1>3, ElementOfSeq
  <2>. QED BY <1>1, <1>2, <1>3, <2>1, SubSeqProperties
<1>. QED BY <1>1, <1>2, <1>3

\* When nothing in two lists is there twice, what is put is the end of both.
LEMMA MergedEnd ==
  ASSUME NEW stored \in Seq(Titles), NEW chosen \in Seq(Titles),
         Apart(stored), Apart(chosen),
         \A k \in DOMAIN chosen : Fold[chosen[k]] \notin Folds(stored)
  PROVE  LET both == stored \o chosen
             new == Merged(stored, chosen)
         IN /\ Len(new) = IF Len(both) < Cap THEN Len(both) ELSE Cap
            /\ \A k \in DOMAIN new : new[k] = both[Len(both) - Len(new) + k]
<1>. DEFINE both == stored \o chosen
            new == Merged(stored, chosen)
<1>1. /\ both \in Seq(Titles) /\ Len(both) = Len(stored) + Len(chosen)
      /\ Len(stored) \in Nat /\ Len(chosen) \in Nat /\ Len(both) \in Nat
      /\ DOMAIN stored = 1 .. Len(stored) /\ DOMAIN chosen = 1 .. Len(chosen)
      /\ DOMAIN both = 1 .. Len(both) /\ Cap \in Nat \ {0}
      /\ \A i \in DOMAIN both :
           both[i] = IF i <= Len(stored) THEN stored[i] ELSE chosen[i - Len(stored)]
  BY ConcatProperties, NewsAssumption DEF NewsAssumption
<1>2. \A i \in DOMAIN stored : Fold[stored[i]] \in Folds(stored)
  BY DEF Folds, Elements
<1>. HIDE DEF both
<1>3. \A i, j \in DOMAIN both : both[i] = both[j] => i = j
  <2>. SUFFICES ASSUME NEW i \in DOMAIN both, NEW j \in DOMAIN both, both[i] = both[j]
                PROVE  i = j
    OBVIOUS
  <2>1. CASE i <= Len(stored) /\ j <= Len(stored) BY <1>1, <2>1 DEF Apart
  <2>2. CASE i > Len(stored) /\ j > Len(stored)
    <3>1. i - Len(stored) \in DOMAIN chosen /\ j - Len(stored) \in DOMAIN chosen
          /\ chosen[i - Len(stored)] = chosen[j - Len(stored)]
      BY <1>1, <2>2
    <3>2. i - Len(stored) = j - Len(stored)
      BY <3>1 DEF Apart
    <3>. QED BY <1>1, <3>2
  <2>3. CASE i <= Len(stored) /\ j > Len(stored)
    <3>1. i \in DOMAIN stored /\ j - Len(stored) \in DOMAIN chosen
          /\ stored[i] = chosen[j - Len(stored)]
      BY <1>1, <2>3
    <3>. QED BY <1>2, <3>1
  <2>4. CASE i > Len(stored) /\ j <= Len(stored)
    <3>1. j \in DOMAIN stored /\ i - Len(stored) \in DOMAIN chosen
          /\ stored[j] = chosen[i - Len(stored)]
      BY <1>1, <2>4
    <3>. QED BY <1>2, <3>1
  <2>. QED BY <1>1, <2>1, <2>2, <2>3, <2>4
<1>4. Distinct(both) = both
  BY <1>1, <1>3, DistinctList
<1>5. new = IF Len(both) > Cap THEN SubSeq(both, Len(both) - Cap + 1, Len(both)) ELSE both
  BY <1>4 DEF Merged, both
<1>. HIDE DEF new
<1>6. CASE Len(both) > Cap
  <2>1. \A i \in Len(both) - Cap + 1 .. Len(both) : both[i] \in Titles
    BY <1>1, <1>6, ElementOfSeq
  <2>2. /\ Len(new) = Cap /\ new \in Seq(Titles)
        /\ \A k \in 1 .. Cap : new[k] = both[Len(both) - Cap + 1 + k - 1]
    BY <1>1, <1>5, <1>6, <2>1, SubSeqProperties
  <2>3. /\ Len(new) = Cap /\ ~(Len(both) < Cap) /\ DOMAIN new = 1 .. Cap
        /\ \A k \in 1 .. Cap : Len(both) - Cap + 1 + k - 1 = Len(both) - Len(new) + k
    BY <1>1, <1>6, <2>2
  <2>. QED BY <2>2, <2>3 DEF both, new
<1>7. CASE ~(Len(both) > Cap)
  BY <1>1, <1>5, <1>7 DEF both, new
<1>. QED BY <1>6, <1>7

(***************************************************************************)
(* Types.                                                                  *)
(***************************************************************************)
NewsTyped ==
  /\ used \in Seq(Titles) /\ Len(used) <= Cap /\ taken \in Seq(Titles)
  /\ runs \in 0 .. MaxRuns /\ overtook \in BOOLEAN
  /\ run # None => RunOK(run) /\ pc = "ready"
  /\ \A r \in orphans : RunOK(r) /\ ~r.dry /\ r.phase # "videos"

LEMMA InitNewsTyped == NewsInit => NewsTyped
<1>1. MaxRuns \in Nat /\ Cap \in Nat
  BY NewsAssumption DEF NewsAssumption
<1>2. <<>> \in Seq(Titles) /\ Len(<<>>) = 0
  BY EmptySeq
<1>. SUFFICES ASSUME NewsInit PROVE NewsTyped
  OBVIOUS
<1>3. used = <<>> /\ taken = <<>> /\ runs = 0 /\ overtook = FALSE /\ run = None /\ orphans = {}
  BY DEF NewsInit
<1>4. used \in Seq(Titles) /\ taken \in Seq(Titles)
  BY <1>2, <1>3
<1>5. Len(used) <= Cap
  <2>1. Len(used) = 0
    BY <1>2, <1>3
  <2>. QED BY <1>1, <2>1
<1>6. runs \in 0 .. MaxRuns
  BY <1>1, <1>3
<1>. QED BY <1>3, <1>4, <1>5, <1>6, Zenon DEF NewsTyped

LEMMA ReadyStays == ASSUME EnvironmentStep, pc = "ready" PROVE pc' = "ready"
<1> USE DEF Go, callVars
<1>1. ~(Ensure \/ Blocked \/ Find \/ Removed \/ CreateVenv \/ InstallSdk \/ Read \/ Install \/ Mark)
  BY DEF Ensure, Blocked, Find, Removed, CreateVenv, InstallSdk, Read, Install, Mark
<1>2. ~Fail /\ ~\E part \in Parts : Remove(part)
  BY DEF Fail, Remove
<1>3. \A v \in Requirements : Edit(v) \/ InstallDetached(v) => pc' = pc
  BY DEF Edit, InstallDetached
<1>. QED BY <1>1, <1>2, <1>3 DEF EnvironmentStep

\* A video goes from one mark to another, whichever step it takes.
LEMMA VideoSteps ==
  ASSUME NEW v, Plan(v) \/ Make(v) \/ Finalize(v) \/ VideoFails(v)
  PROVE  \E from, to \in Marks : VideoGoes(v, from, to)
  BY Zenon DEF Plan, Make, Finalize, VideoFails, Marks

LEMMA VideoGoesIs ==
  ASSUME NewsTyped, NEW v, NEW from \in Marks, NEW to \in Marks, VideoGoes(v, from, to)
  PROVE  /\ run # None /\ run.phase = "videos" /\ RunOK(run')
         /\ run'.phase = "videos" /\ run'.chosen = run.chosen /\ run'.dry = run.dry
         /\ UNCHANGED <<vars, used, orphans, runs, taken, overtook>>
<1>1. /\ run # None /\ v \in DOMAIN run.videos /\ run' = [run EXCEPT !.videos[v] = to]
      /\ RunOK(run)
  BY DEF VideoGoes, NewsTyped
<1>2. run.videos \in Seq(Marks) /\ v \in 1 .. Len(run.videos)
  BY <1>1 DEF RunOK, Runs
<1>. DEFINE new == [run.videos EXCEPT ![v] = to]
<1>3. new \in Seq(Marks) /\ Len(new) = Len(run.videos)
  BY <1>2, ExceptSeq
<1>4. run' = [run EXCEPT !.videos = new]
  BY <1>1
<1>. HIDE DEF new
<1>5. Len(run.videos) # 0 /\ run.phase = "videos"
  BY <1>1, <1>2 DEF RunOK
<1>. QED BY <1>1, <1>3, <1>4, <1>5 DEF VideoGoes, RunOK, Runs

LEMMA PutTyped ==
  ASSUME NEW r, RunOK(r), Put(r), NewsTyped
  PROVE  /\ r.phase = "put" /\ used' \in Seq(Titles) /\ Len(used') <= Cap
         /\ taken' \in Seq(Titles)
<1>1. r.stored \in Seq(Titles) /\ r.chosen \in Seq(Titles)
  BY DEF RunOK, Runs
<1>2. CASE r.dry BY <1>2 DEF Put, NewsTyped
<1>3. CASE ~r.dry
  <2>1. used' = Merged(r.stored, r.chosen) /\ taken' = taken \o r.chosen
    BY <1>3 DEF Put
  <2>. QED BY <1>1, <2>1, MergedTyped, ConcatProperties DEF Put, NewsTyped
<1>. QED BY <1>2, <1>3

LEMMA ReturnsIs ==
  ASSUME NewsTyped, PrepareReturns
  PROVE  /\ run # None /\ Put(run) /\ RunOK(run) /\ RunOK(run')
         /\ run'.phase = "videos" /\ run'.chosen = run.chosen /\ run'.dry = run.dry
<1>. DEFINE queued == [v \in 1 .. run.n |-> "queued"]
<1>1. /\ run # None /\ Put(run) /\ RunOK(run)
      /\ run' = [run EXCEPT !.phase = "videos", !.stored = <<>>, !.videos = queued]
  BY DEF PrepareReturns, NewsTyped
<1>2. run.n \in Nat
  BY <1>1, NewsAssumption DEF RunOK, Runs, NewsAssumption
<1>3. queued \in Seq(Marks) /\ Len(queued) = run.n
  BY <1>2 DEF Marks
<1>. HIDE DEF queued
<1>4. <<>> \in Seq(Titles)
  BY EmptySeq
<1>. QED BY <1>1, <1>3, <1>4 DEF RunOK, Runs, Put

LEMMA NextNewsTyped == ASSUME NewsTyped, [NewsNext]_allVars PROVE NewsTyped'
<1> USE DEF NewsTyped
<1>1. CASE EnvironmentStep
  <2>1. UNCHANGED newsVars
    BY <1>1 DEF EnvironmentStep
  <2>2. run' # None => pc' = "ready"
    BY <1>1, <2>1, ReadyStays DEF newsVars
  <2>. QED BY <2>1, <2>2 DEF newsVars
<1>2. CASE Prepare
  <2>1. PICK dry \in BOOLEAN, n \in 1 .. MaxVideos :
          run' = [phase |-> "research", dry |-> dry, n |-> n, stored |-> used,
                  chosen |-> <<>>, videos |-> <<>>]
    BY <1>2 DEF Prepare
  <2>2. <<>> \in Seq(Titles) /\ <<>> \in Seq(Marks) /\ Len(<<>>) = 0
    BY EmptySeq
  <2>3. RunOK(run')
    BY <2>1, <2>2 DEF RunOK, Runs
  <2>4. runs' \in 0 .. MaxRuns
    BY <1>2, NewsAssumption DEF Prepare, NewsAssumption
  <2>. QED BY <1>2, <2>3, <2>4 DEF Prepare, vars, callVars
<1>3. CASE PrepareChooses
  <2>1. RunOK(run) /\ run.phase = "research" /\ run' \in Choosing(run)
    BY <1>3 DEF PrepareChooses
  <2>2. RunOK(run')
    BY <2>1, ChoosingIsOK
  <2>. QED BY <1>3, <2>2 DEF PrepareChooses, vars, callVars
<1>4. CASE PrepareReturns
  <2>1. Put(run) /\ RunOK(run) /\ RunOK(run')
    BY <1>4, ReturnsIs
  <2>. QED BY <1>4, <2>1, PutTyped DEF PrepareReturns, vars, callVars
<1>5. CASE NewsRunEnds
  BY <1>5 DEF NewsRunEnds
<1>6. CASE NewsDie
  BY <1>6 DEF NewsDie
<1>7. ASSUME NEW v, Plan(v) \/ Make(v) \/ Finalize(v) \/ VideoFails(v) PROVE NewsTyped'
  <2>1. PICK from \in Marks, to \in Marks : VideoGoes(v, from, to)
    BY <1>7, VideoSteps
  <2>. HIDE DEF NewsTyped
  <2>2. /\ run # None /\ RunOK(run') /\ UNCHANGED <<vars, used, orphans, runs, taken, overtook>>
    BY <2>1, VideoGoesIs
  <2>. QED BY <2>2 DEF vars, callVars, NewsTyped
<1>8. ASSUME NEW r \in orphans, OrphanChooses(r) PROVE NewsTyped'
  <2>1. PICK next \in Choosing(r) : orphans' = (orphans \ {r}) \cup {next}
    BY <1>8 DEF OrphanChooses
  <2>2. RunOK(next) /\ next.phase = "put" /\ next.dry = r.dry
    BY <1>8, ChoosingIsOK DEF OrphanChooses
  <2>. QED BY <1>8, <2>1, <2>2 DEF OrphanChooses, vars, callVars
<1>9. ASSUME NEW r \in orphans, OrphanPuts(r) PROVE NewsTyped'
  <2>1. RunOK(r) /\ Put(r)
    BY <1>9 DEF OrphanPuts
  <2>. QED BY <1>9, <2>1, PutTyped DEF OrphanPuts, vars, callVars
<1>10. ASSUME NEW r \in orphans, OrphanFails(r) PROVE NewsTyped'
  BY <1>10 DEF OrphanFails, vars, callVars
<1>11. CASE UNCHANGED allVars
  BY <1>11 DEF allVars, newsVars, vars, callVars
<1>. QED
  BY <1>1, <1>2, <1>3, <1>4, <1>5, <1>6, <1>7, <1>8, <1>9, <1>10, <1>11 DEF NewsNext

(***************************************************************************)
(* As long as no dead app's prepare puts its list, the list is the end of  *)
(* the history: as much of it as fits.                                     *)
(***************************************************************************)
ListIsEnd ==
  /\ Len(used) = IF Len(taken) < Cap THEN Len(taken) ELSE Cap
  /\ \A k \in DOMAIN used : used[k] = taken[Len(taken) - Len(used) + k]

HistoryInv ==
  ~overtook =>
    /\ SubjectsAreFresh /\ ListIsEnd
    /\ run # None /\ run.phase # "videos" => run.stored = used
    /\ run # None /\ run.phase = "videos" /\ ~run.dry =>
         Elements(run.chosen) \subseteq Elements(used)

LEMMA InitHistory == NewsInit => HistoryInv
<1>1. Len(<<>>) = 0 /\ DOMAIN <<>> = {} /\ Cap \in Nat \ {0}
  BY EmptySeq, NewsAssumption DEF NewsAssumption
<1>. QED BY <1>1 DEF NewsInit, HistoryInv, SubjectsAreFresh, ListIsEnd

\* The list holds nothing twice: it is shorter than what comes between two uses of a subject.
LEMMA ListIsApart ==
  ASSUME NewsTyped, SubjectsAreFresh, ListIsEnd
  PROVE  Apart(used)
<1>1. /\ used \in Seq(Titles) /\ taken \in Seq(Titles) /\ Cap \in Nat \ {0}
      /\ Len(used) \in Nat /\ Len(taken) \in Nat /\ Len(used) <= Cap /\ Len(used) <= Len(taken)
      /\ DOMAIN used = 1 .. Len(used) /\ DOMAIN taken = 1 .. Len(taken)
  BY NewsAssumption, LenProperties DEF NewsTyped, NewsAssumption, ListIsEnd
<1>2. ASSUME NEW i \in DOMAIN used, NEW j \in DOMAIN used, i < j, Fold[used[i]] = Fold[used[j]]
      PROVE  FALSE
  <2>. DEFINE d == Len(taken) - Len(used)
  <2>1. d + i \in DOMAIN taken /\ d + j \in DOMAIN taken /\ d + i < d + j
        /\ (d + j) - (d + i) <= Cap
    BY <1>1, <1>2
  <2>2. used[i] = taken[d + i] /\ used[j] = taken[d + j]
    BY DEF ListIsEnd
  <2>3. (d + j) - (d + i) > Cap
    BY <1>2, <2>1, <2>2 DEF SubjectsAreFresh
  <2>. HIDE DEF d
  <2>. QED BY <1>1, <2>1, <2>3 DEF d
<1>. QED BY <1>1, <1>2 DEF Apart

LEMMA PutKeepsHistory ==
  ASSUME NewsTyped, HistoryInv, ~overtook, run # None, Put(run), ~run.dry
  PROVE  /\ SubjectsAreFresh' /\ ListIsEnd' /\ Elements(run.chosen) \subseteq Elements(used')
<1>. DEFINE c == run.chosen
            L == Len(taken)
            u == Len(used)
<1>1. /\ RunOK(run) /\ run.phase = "put" /\ run.stored = used
      /\ SubjectsAreFresh /\ ListIsEnd
      /\ used' = Merged(used, c) /\ taken' = taken \o c
  BY DEF NewsTyped, HistoryInv, Put
<1>2. /\ c \in Seq(Titles) /\ used \in Seq(Titles) /\ taken \in Seq(Titles)
      /\ Len(c) \in 1 .. Cap /\ Cap \in Nat \ {0}
      /\ Apart(c) /\ \A k \in DOMAIN c : Fold[c[k]] \notin Folds(used)
      /\ u \in Nat /\ L \in Nat /\ u = (IF L < Cap THEN L ELSE Cap)
      /\ DOMAIN used = 1 .. u /\ DOMAIN taken = 1 .. L /\ DOMAIN c = 1 .. Len(c)
  <2>1. c \in Seq(Titles) /\ used \in Seq(Titles) /\ taken \in Seq(Titles)
    BY <1>1 DEF NewsTyped, RunOK, Runs
  <2>2. Cap \in Nat \ {0} /\ MaxVideos \in 1 .. Cap
    BY NewsAssumption DEF NewsAssumption
  <2>3. Len(c) \in 1 .. Cap
    BY <1>1, <2>2 DEF RunOK, Runs
  <2>4. Apart(c) /\ \A k \in DOMAIN c : Fold[c[k]] \notin Folds(used)
    BY <1>1 DEF RunOK
  <2>5. u \in Nat /\ L \in Nat /\ DOMAIN used = 1 .. u /\ DOMAIN taken = 1 .. L
        /\ DOMAIN c = 1 .. Len(c)
    BY <2>1, LenProperties
  <2>6. u = (IF L < Cap THEN L ELSE Cap)
    BY <1>1 DEF ListIsEnd
  <2>. QED BY <2>1, <2>2, <2>3, <2>4, <2>5, <2>6
<1>3. /\ taken' \in Seq(Titles) /\ Len(taken') = L + Len(c) /\ DOMAIN taken' = 1 .. L + Len(c)
      /\ \A i \in 1 .. L + Len(c) : taken'[i] = IF i <= L THEN taken[i] ELSE c[i - L]
  BY <1>1, <1>2, ConcatProperties, LenProperties
<1>. DEFINE both == used \o c
<1>4. /\ Len(both) = u + Len(c)
      /\ \A i \in 1 .. u + Len(c) : both[i] = IF i <= u THEN used[i] ELSE c[i - u]
  BY <1>2, ConcatProperties, ZenonT(30)
<1>5. /\ Len(used') = (IF Len(both) < Cap THEN Len(both) ELSE Cap)
      /\ \A k \in DOMAIN used' : used'[k] = both[Len(both) - Len(used') + k]
      /\ used' \in Seq(Titles)
  <2>1. Apart(used)
    BY <1>1, ListIsApart
  <2>. HIDE DEF c
  <2>2. Merged(used, c) \in Seq(Titles)
    BY <1>2, MergedTyped
  <2>. QED BY <1>1, <1>2, <2>1, <2>2, MergedEnd, ZenonT(40)
<1>. DEFINE m == Len(used')
<1>6. /\ DOMAIN used' = 1 .. m /\ m \in Nat
      /\ m = (IF Len(taken') < Cap THEN Len(taken') ELSE Cap)
  <2>1. DOMAIN used' = 1 .. m /\ m \in Nat
    BY <1>5, LenProperties
  <2>. HIDE DEF both, c, L, u, m
  <2>2. m = (IF Len(taken') < Cap THEN Len(taken') ELSE Cap)
    BY <1>2, <1>3, <1>4, <1>5 DEF m
  <2>. QED BY <2>1, <2>2
<1>. HIDE DEF both, c, L, u
<1>10. /\ Len(both) = u + Len(c) /\ Len(taken') = L + Len(c)
       /\ u \in Nat /\ L \in Nat /\ Len(c) \in 1 .. Cap /\ Cap \in Nat /\ u <= L
       /\ m \in Nat /\ m <= u + Len(c) /\ Len(c) <= m
       /\ \A k \in 1 .. m : used'[k] = both[u + Len(c) - m + k]
  <2>. HIDE DEF m
  <2>1. m = (IF u + Len(c) < Cap THEN u + Len(c) ELSE Cap)
    BY <1>4, <1>5 DEF m
  <2>2. \A k \in 1 .. m : used'[k] = both[u + Len(c) - m + k]
    <3>1. \A k \in 1 .. m : used'[k] = both[Len(both) - m + k]
      BY <1>5, <1>6 DEF m
    <3>2. Len(both) = u + Len(c)
      BY <1>4
    <3>. TAKE k \in 1 .. m
    <3>3. Len(both) - m + k = u + Len(c) - m + k
      BY <1>2, <1>6, <3>2
    <3>. QED BY <3>1, <3>3
  <2>3. u <= L /\ m \in Nat /\ m <= u + Len(c) /\ Len(c) <= m
    BY <1>2, <1>6, <2>1
  <2>. QED BY <1>2, <1>3, <1>4, <2>2, <2>3
<1>. HIDE DEF m
<1>7. ListIsEnd'
  <2>. SUFFICES ASSUME NEW k \in 1 .. m
                PROVE  used'[k] = taken'[L + Len(c) - m + k]
    <3>1. Len(used') = (IF Len(taken') < Cap THEN Len(taken') ELSE Cap) /\ Len(used') = m
      BY <1>6 DEF m
    <3>2. \A k \in DOMAIN used' : used'[k] = taken'[Len(taken') - Len(used') + k]
      <4>. TAKE k \in DOMAIN used'
      <4>1. k \in 1 .. m
        BY <1>6
      <4>2. used'[k] = taken'[L + Len(c) - m + k]
        BY <4>1
      <4>3. Len(taken') = L + Len(c) /\ Len(used') = m
        BY <1>10, <3>1
      <4>4. ASSUME NEW x \in Nat, NEW y \in Nat, x = L + Len(c), y = m
            PROVE  x - y + k = L + Len(c) - m + k
        BY <1>10, <4>1, <4>4
      <4>5. Len(taken') - Len(used') + k = L + Len(c) - m + k
        BY <1>10, <4>3, <4>4
      <4>. QED BY <4>2, <4>5
    <3>. QED BY <3>1, <3>2 DEF ListIsEnd
  <2>. DEFINE b == u + Len(c) - m + k
              t == L + Len(c) - m + k
  <2>1. b \in 1 .. u + Len(c) /\ t \in 1 .. L + Len(c) /\ t = L - u + b
    <3>. DEFINE n == Len(c)
    <3>1. /\ u \in Nat /\ L \in Nat /\ n \in Nat /\ m \in Nat /\ k \in 1 .. m
          /\ u <= L /\ m <= u + n
      BY <1>10
    <3>. HIDE DEF n
    <3>2. /\ u + n - m + k \in 1 .. u + n /\ L + n - m + k \in 1 .. L + n
          /\ L + n - m + k = L - u + (u + n - m + k)
      BY <3>1
    <3>. QED BY <3>2 DEF n
  <2>2. used'[k] = both[b]
    BY <1>10
  <2>. HIDE DEF b, t
  <2>3. CASE b <= u
    <3>1. b \in DOMAIN used /\ t <= L
      BY <1>2, <1>10, <2>1, <2>3
    <3>2. used[b] = taken[t]
      BY <1>1, <2>1, <3>1 DEF ListIsEnd, L, u
    <3>3. both[b] = used[b] /\ taken'[t] = taken[t]
      BY <1>3, <1>4, <2>1, <2>3, <3>1
    <3>. QED BY <2>2, <3>2, <3>3 DEF t
  <2>4. CASE ~(b <= u)
    <3>1. ~(t <= L) /\ b - u = t - L
      BY <1>10, <2>1, <2>4
    <3>2. both[b] = c[b - u] /\ taken'[t] = c[t - L]
      BY <1>3, <1>4, <2>1, <2>4, <3>1
    <3>. QED BY <2>2, <3>1, <3>2 DEF t
  <2>. QED BY <2>3, <2>4
<1>8. SubjectsAreFresh'
  <2>. SUFFICES ASSUME NEW i \in 1 .. L + Len(c), NEW j \in 1 .. L + Len(c), i < j,
                       Fold[taken'[i]] = Fold[taken'[j]]
                PROVE  j - i > Cap
    BY <1>3 DEF SubjectsAreFresh
  <2>1. CASE j <= L
    <3>1. i \in DOMAIN taken /\ j \in DOMAIN taken /\ taken'[i] = taken[i] /\ taken'[j] = taken[j]
      BY <1>2, <1>3, <2>1
    <3>. QED BY <1>1, <3>1 DEF SubjectsAreFresh
  <2>2. CASE i > L
    <3>1. /\ i - L \in DOMAIN c /\ j - L \in DOMAIN c /\ i - L # j - L
          /\ taken'[i] = c[i - L] /\ taken'[j] = c[j - L]
      BY <1>2, <1>3, <2>2
    <3>. QED BY <1>2, <3>1 DEF Apart
  <2>3. CASE i <= L /\ j > L
    <3>1. j - L \in DOMAIN c /\ taken'[j] = c[j - L] /\ taken'[i] = taken[i]
      BY <1>2, <1>3, <2>3
    <3>2. i <= L - u
      <4>. SUFFICES ASSUME i > L - u PROVE FALSE
        BY <1>2, <2>3
      <4>1. i - (L - u) \in DOMAIN used /\ L - u + (i - (L - u)) = i
        BY <1>2, <2>3
      <4>2. used[i - (L - u)] = taken[i]
        BY <1>1, <4>1 DEF ListIsEnd, L, u
      <4>3. Fold[taken[i]] \in Folds(used)
        BY <4>1, <4>2 DEF Folds, Elements
      <4>. QED BY <1>2, <3>1, <4>3
    <3>3. u = Cap
      BY <1>2, <2>3, <3>2
    <3>. QED BY <1>2, <2>3, <3>2, <3>3
  <2>. QED BY <1>2, <2>1, <2>2, <2>3
<1>9. Elements(c) \subseteq Elements(used')
  <2>. SUFFICES ASSUME NEW k \in DOMAIN c PROVE \E l \in DOMAIN used' : used'[l] = c[k]
    BY DEF Elements
  <2>. DEFINE l == m - Len(c) + k
  <2>1. l \in 1 .. m /\ u + Len(c) - m + l = u + k
    BY <1>2, <1>10
  <2>2. u + k \in 1 .. u + Len(c) /\ ~(u + k <= u) /\ u + k - u = k
    BY <1>2
  <2>. HIDE DEF l
  <2>3. used'[l] = both[u + k]
    BY <1>10, <2>1
  <2>4. both[u + k] = c[u + k - u]
    BY <1>2, <1>4, <2>2
  <2>5. both[u + k] = c[k]
    BY <2>2, <2>4
  <2>. QED BY <1>6, <2>1, <2>3, <2>5
<1>. QED BY <1>7, <1>8, <1>9 DEF c

LEMMA NextHistory ==
  ASSUME NewsTyped, HistoryInv, [NewsNext]_allVars
  PROVE  HistoryInv'
<1>. SUFFICES ASSUME ~overtook' PROVE HistoryInv'
  BY DEF HistoryInv
<1>. DEFINE Past == SubjectsAreFresh /\ ListIsEnd
<1>0. ASSUME UNCHANGED <<used, taken>>, Past PROVE Past'
  BY <1>0 DEF SubjectsAreFresh, ListIsEnd
<1>1. CASE EnvironmentStep
  BY <1>0, <1>1 DEF EnvironmentStep, newsVars, HistoryInv
<1>2. CASE Prepare
  BY <1>0, <1>2 DEF Prepare, HistoryInv
<1>3. CASE PrepareChooses
  <2>1. RunOK(run) /\ run # None /\ run.phase = "research" /\ run' \in Choosing(run)
    BY <1>3 DEF PrepareChooses, NewsTyped
  <2>2. run'.phase = "put" /\ run'.stored = run.stored
    BY <2>1, ChoosingIsOK
  <2>. QED BY <1>0, <1>3, <2>1, <2>2 DEF PrepareChooses, HistoryInv
<1>4. CASE PrepareReturns
  <2>1. /\ run # None /\ Put(run) /\ RunOK(run) /\ ~overtook
        /\ run'.phase = "videos" /\ run'.chosen = run.chosen /\ run'.dry = run.dry
    BY <1>4, ReturnsIs DEF PrepareReturns
  <2>2. CASE run.dry
    BY <1>0, <2>1, <2>2 DEF Put, HistoryInv
  <2>3. CASE ~run.dry
    BY <2>1, <2>3, PutKeepsHistory DEF HistoryInv
  <2>. QED BY <2>2, <2>3
<1>5. CASE NewsRunEnds
  BY <1>0, <1>5 DEF NewsRunEnds, HistoryInv
<1>6. CASE NewsDie
  BY <1>0, <1>6 DEF NewsDie, HistoryInv
<1>7. ASSUME NEW v, Plan(v) \/ Make(v) \/ Finalize(v) \/ VideoFails(v) PROVE HistoryInv'
  <2>1. PICK from \in Marks, to \in Marks : VideoGoes(v, from, to)
    BY <1>7, VideoSteps
  <2>2. /\ run # None /\ run.phase = "videos" /\ run'.phase = "videos"
        /\ run'.chosen = run.chosen /\ run'.dry = run.dry /\ UNCHANGED <<used, taken, overtook>>
    BY <2>1, VideoGoesIs
  <2>. QED BY <1>0, <2>2 DEF HistoryInv
<1>8. ASSUME NEW r \in orphans, OrphanChooses(r) PROVE HistoryInv'
  BY <1>0, <1>8 DEF OrphanChooses, HistoryInv
<1>9. ASSUME NEW r \in orphans, OrphanPuts(r) PROVE HistoryInv'
  BY <1>9 DEF OrphanPuts
<1>10. ASSUME NEW r \in orphans, OrphanFails(r) PROVE HistoryInv'
  BY <1>0, <1>10 DEF OrphanFails, HistoryInv
<1>11. CASE UNCHANGED allVars
  BY <1>0, <1>11 DEF allVars, newsVars, HistoryInv
<1>. QED
  BY <1>1, <1>2, <1>3, <1>4, <1>5, <1>6, <1>7, <1>8, <1>9, <1>10, <1>11 DEF NewsNext

LEMMA ListFits == NewsTyped => NewsTypeOK
<1>. SUFFICES ASSUME NewsTyped PROVE NewsTypeOK
  OBVIOUS
<1>1. used \in UpTo(Cap, Titles)
  <2>1. used \in [1 .. Len(used) -> Titles] /\ Len(used) \in 0 .. Cap
    BY NewsAssumption, LenProperties DEF NewsTyped, NewsAssumption
  <2>. QED BY <2>1 DEF UpTo
<1>2. ASSUME run # None
      PROVE  /\ run.n \in 1 .. MaxVideos /\ run.dry \in BOOLEAN
             /\ run.videos # <<>> <=> run.phase = "videos"
  <2>1. RunOK(run)
    BY <1>2 DEF NewsTyped
  <2>2. run.videos \in Seq(Marks) /\ run.n \in 1 .. MaxVideos /\ run.dry \in BOOLEAN
    BY <2>1 DEF RunOK, Runs
  <2>3. run.videos # <<>> <=> Len(run.videos) # 0
    BY <2>2, EmptySeq
  <2>. QED BY <2>1, <2>2, <2>3 DEF RunOK
<1>. QED BY <1>1, <1>2 DEF NewsTyped, NewsTypeOK

LEMMA HistoryIsTheList ==
  ASSUME NewsTyped, HistoryInv, ~overtook
  PROVE  TheListIsTheHistory
<1>1. Elements(used) \subseteq Elements(taken)
  <2>. SUFFICES ASSUME NEW k \in DOMAIN used PROVE \E i \in DOMAIN taken : taken[i] = used[k]
    BY DEF Elements
  <2>. DEFINE i == Len(taken) - Len(used) + k
  <2>1. /\ Len(used) \in Nat /\ Len(taken) \in Nat /\ Cap \in Nat
        /\ DOMAIN used = 1 .. Len(used) /\ DOMAIN taken = 1 .. Len(taken)
    BY NewsAssumption, LenProperties DEF NewsTyped, NewsAssumption
  <2>2. Len(used) <= Len(taken) /\ used[k] = taken[i]
    <3>1. ListIsEnd
      BY DEF HistoryInv
    <3>2. Len(used) <= Len(taken)
      BY <2>1, <3>1 DEF ListIsEnd
    <3>. QED BY <3>1, <3>2 DEF ListIsEnd
  <2>3. i \in 1 .. Len(taken)
    BY <2>1, <2>2
  <2>. QED BY <2>1, <2>2, <2>3
<1>. QED BY <1>1 DEF TheListIsTheHistory, HistoryInv, NewsTyped, RunOK

(***************************************************************************)
(* The plan's cost.                                                        *)
(***************************************************************************)
LEMMA MoreIsMore ==
  ASSUME NEW a \in Nat, NEW b \in Nat, NEW c \in Nat, a <= b
  PROVE  a * c \in Nat /\ b * c \in Nat /\ a * c <= b * c
  OBVIOUS

LEMMA BedIsCovered == PlanCoversTheBed
<1>. SUFFICES ASSUME NEW bed \in Beds, NEW planned \in 1 .. MaxBeats, bed.beats <= planned
              PROVE  BedCost(bed) <= EstimateBedCost(planned)
  BY DEF PlanCoversTheBed
<1>1. /\ bed.beats \in 1 .. MaxBeats /\ bed.found \in 0 .. MaxBeats /\ bed.checks \in 0 .. Consider
      /\ bed.found <= Statics(bed.beats)
      /\ MaxBeats \in Nat /\ Consider \in Nat /\ ClipCost \in Nat /\ StillCost \in Nat
      /\ CheckCost \in Nat
  BY NewsAssumption DEF Beds, NewsAssumption
<1>2. /\ ClipCount(bed.beats) \in Nat /\ ClipCount(planned) \in Nat
      /\ ClipCount(bed.beats) <= ClipCount(planned)
      /\ Statics(bed.beats) \in Nat /\ Statics(planned) \in Nat
      /\ Statics(bed.beats) <= Statics(planned)
  BY <1>1 DEF ClipCount, Statics
<1>. DEFINE left == Statics(bed.beats) - bed.found
<1>3. left \in Nat /\ left <= Statics(planned)
  BY <1>1, <1>2
<1>4. /\ ClipCount(bed.beats) * ClipCost <= ClipCount(planned) * ClipCost
      /\ ClipCount(bed.beats) * ClipCost \in Nat /\ ClipCount(planned) * ClipCost \in Nat
  BY <1>1, <1>2, MoreIsMore
<1>5. /\ left * StillCost <= Statics(planned) * StillCost
      /\ left * StillCost \in Nat /\ Statics(planned) * StillCost \in Nat
  <2>. HIDE DEF left
  <2>. QED BY <1>1, <1>2, <1>3, MoreIsMore
<1>6. /\ bed.checks * CheckCost <= Consider * CheckCost
      /\ bed.checks * CheckCost \in Nat /\ Consider * CheckCost \in Nat
  <2>1. bed.checks \in Nat /\ bed.checks <= Consider
    BY <1>1
  <2>. QED BY <1>1, <2>1, MoreIsMore
<1>7. ASSUME NEW a \in Nat, NEW b \in Nat, NEW c \in Nat, NEW x \in Nat, NEW y \in Nat,
             NEW z \in Nat, a <= x, b <= y, c <= z
      PROVE  a + b + c <= x + y + z
  BY <1>7
<1>. HIDE DEF left
<1>. QED BY <1>4, <1>5, <1>6, <1>7 DEF BedCost, EstimateBedCost, left

\* As long as no prepare puts its list after its app has died, the subjects of real runs are fresh
\* and the list is what they chose, whichever runs fail, are stopped or are dry; a plan that was
\* approved covers its bed.
THEOREM SubjectsAndPlans == NewsSpec => []NewsInv
<1>1. NewsInit => NewsTyped /\ HistoryInv
  BY InitNewsTyped, InitHistory
<1>2. NewsTyped /\ HistoryInv /\ [NewsNext]_allVars => NewsTyped' /\ HistoryInv'
  BY NextNewsTyped, NextHistory
<1>3. NewsTyped /\ HistoryInv => NewsInv
  BY ListFits, HistoryIsTheList, BedIsCovered DEF NewsInv, HistoryInv
<1>. QED BY <1>1, <1>2, <1>3, PTL DEF NewsSpec

(***************************************************************************)
(* The environment of these runs is the one that Environment keeps.        *)
(***************************************************************************)
LEMMA NewsStepIsStep == [NewsNext]_allVars => [Next]_vars
<1>. SUFFICES ASSUME NewsNext \/ UNCHANGED allVars PROVE Next \/ UNCHANGED vars
  OBVIOUS
<1>1. CASE EnvironmentStep BY <1>1, Zenon DEF EnvironmentStep, Next
<1>2. CASE Prepare BY <1>2 DEF Prepare
<1>3. CASE PrepareChooses BY <1>3 DEF PrepareChooses
<1>4. CASE PrepareReturns BY <1>4 DEF PrepareReturns
<1>5. CASE NewsRunEnds BY <1>5 DEF NewsRunEnds, Next
<1>6. CASE NewsDie BY <1>6 DEF NewsDie, Next
<1>7. ASSUME NEW v, Plan(v) \/ Make(v) \/ Finalize(v) \/ VideoFails(v) PROVE UNCHANGED vars
  BY <1>7, VideoSteps DEF VideoGoes
<1>8. ASSUME NEW r, OrphanChooses(r) \/ OrphanPuts(r) \/ OrphanFails(r) PROVE UNCHANGED vars
  BY <1>8 DEF OrphanChooses, OrphanPuts, OrphanFails
<1>9. CASE UNCHANGED allVars BY <1>9 DEF allVars
<1>. QED BY <1>1, <1>2, <1>3, <1>4, <1>5, <1>6, <1>7, <1>8, <1>9 DEF NewsNext

\* The environment in which the runs of the workflow come and go is one that Environment describes.
THEOREM RunsInTheEnvironment == NewsSpec => Spec
<1>1. NewsInit => Init
  BY DEF NewsInit
<1>. QED BY <1>1, NewsStepIsStep, PTL DEF NewsSpec, Spec

-------------------------------------------------------------------------------
(***************************************************************************)
(* The schedule.                                                           *)
(***************************************************************************)
\* Numbers that the divisions of a clock come down to.
LEMMA Quotient ==
  ASSUME NEW t \in Nat, NEW n \in Nat \ {0}
  PROVE  t \div n \in Nat /\ (t \div n) * n <= t /\ t < (t \div n) * n + n
  OBVIOUS

LEMMA QuotientUnique ==
  ASSUME NEW t \in Nat, NEW n \in Nat \ {0}, NEW d \in Nat, d * n <= t, t < d * n + n
  PROVE  t \div n = d
<1>. DEFINE q == t \div n
<1>1. q \in Nat /\ q * n <= t /\ t < q * n + n
  BY Quotient
<1>. HIDE DEF q
<1>2. ASSUME d < q PROVE FALSE
  <2>1. (d + 1) * n <= q * n
    BY <1>1, <1>2, MoreIsMore
  <2>2. (d + 1) * n = d * n + n
    OBVIOUS
  <2>. QED BY <1>1, <2>1, <2>2
<1>3. ASSUME q < d PROVE FALSE
  <2>1. (q + 1) * n <= d * n
    BY <1>1, <1>3, MoreIsMore
  <2>2. (q + 1) * n = q * n + n
    BY <1>1
  <2>. QED BY <1>1, <2>1, <2>2
<1>. QED BY <1>1, <1>2, <1>3 DEF q

LEMMA QuotientGrows ==
  ASSUME NEW t \in Nat, NEW u \in Nat, NEW n \in Nat \ {0}, t <= u
  PROVE  t \div n <= u \div n
<1>. DEFINE q == t \div n
            p == u \div n
<1>1. /\ q \in Nat /\ q * n <= t /\ t < q * n + n
      /\ p \in Nat /\ p * n <= u /\ u < p * n + n
  BY Quotient
<1>. HIDE DEF q, p
<1>2. ASSUME p < q PROVE FALSE
  <2>1. (p + 1) * n <= q * n
    BY <1>1, <1>2, MoreIsMore
  <2>2. (p + 1) * n = p * n + n
    BY <1>1
  <2>. QED BY <1>1, <2>1, <2>2
<1>. QED BY <1>1, <1>2 DEF q, p

USE SchedulerAssumption

LEMMA ScheduleConstants ==
  /\ DayLength \in Nat \ {0} /\ LastMinute \in Nat /\ MaxId \in Nat
  /\ Interval \in Nat \ {0} /\ MaxTick \in Nat /\ Grace \in Nat \ {0}
  /\ MaxScheduleEdits \in Nat /\ Day(LastMinute) \in Nat
<1>1. DayLength \in Nat \ {0} /\ LastMinute \in Nat
  BY DEF SchedulerAssumption
<1>2. Day(LastMinute) \in Nat
  BY <1>1, Quotient DEF Day
<1>. QED BY <1>1, <1>2 DEF SchedulerAssumption

LEMMA EntryIs ==
  ASSUME NEW e \in Entries
  PROVE  /\ e.id \in 1 .. MaxId /\ e.set \in Setting
         /\ e.set.at \in 0 .. DayLength - 1 /\ e.set.at \in Nat
         /\ \A s \in Setting : [e EXCEPT !.set = s] \in Entries
<1>1. e.id \in 1 .. MaxId /\ e.set \in Setting
  BY DEF Entries
<1>2. e.set.at \in 0 .. DayLength - 1
  BY <1>1 DEF SchedulerAssumption
<1>3. \A s \in Setting : [e EXCEPT !.set = s] \in Entries
  BY DEF Entries
<1>. QED BY <1>1, <1>2, <1>3

LEMMA KeyTyped ==
  ASSUME NEW e \in Entries, NEW t \in 0 .. LastMinute
  PROVE  SlotKey(e, t) \in Slot
<1>1. Day(t) \in 0 .. Day(LastMinute)
  BY ScheduleConstants, Quotient, QuotientGrows DEF Day
<1>. QED BY <1>1, EntryIs DEF SlotKey, Slot

DuePositions ==
  {i \in DOMAIN schedules :
     InWindow(schedules[i], now) /\ SlotKey(schedules[i], now) \notin fired}

LEMMA PickedIsPicked == ASSUME NEW s, NEW I PROVE Picked(s, I) = Picked(s, I)
  BY DEF Picked, Picked, Cardinality, Cardinality

\* A tick works on entries of the schedule, in their order.
LEMMA DueIs ==
  ASSUME schedules \in Seq(Entries)
  PROVE  /\ DueEntries \in Seq(Entries)
         /\ \A k \in DOMAIN DueEntries : /\ At(DuePositions, k) \in DuePositions
                                         /\ DueEntries[k] = schedules[At(DuePositions, k)]
         /\ \A k, l \in DOMAIN DueEntries :
              k < l <=> At(DuePositions, k) < At(DuePositions, l)
         /\ \A i \in DuePositions :
              \E k \in DOMAIN DueEntries : DueEntries[k] = schedules[i]
<1>1. DuePositions \in SUBSET DOMAIN schedules
  BY DEF DuePositions
<1>2. DueEntries = Picked(schedules, DuePositions)
  BY PickedIsPicked DEF DueEntries, DuePositions
<1>. HIDE DEF DuePositions
<1>3. LET p == Picked(schedules, DuePositions)
      IN /\ p \in Seq(Entries)
         /\ \A k \in DOMAIN p : At(DuePositions, k) \in DuePositions
                                /\ p[k] = schedules[At(DuePositions, k)]
         /\ \A k, l \in DOMAIN p : k < l <=> At(DuePositions, k) < At(DuePositions, l)
         /\ \A i \in DuePositions : \E k \in DOMAIN p : p[k] = schedules[i]
  BY <1>1, PickedList
<1>. QED BY <1>2, <1>3

(***************************************************************************)
(* The thread's state, the ids of the entries, and the due entries.        *)
(***************************************************************************)
RestInv ==
  /\ thread \in {"off", "new"} => rest = 0
  /\ thread = "new" => now <= since
  /\ thread = "wait" => rest <= Interval
  /\ thread \in {"tick", "mark"} => rest <= MaxTick

IdsInv ==
  /\ \A i \in DOMAIN schedules : schedules[i].id < nextId
  /\ \A i, j \in DOMAIN schedules : schedules[i].id = schedules[j].id => i = j

QueueInv ==
  /\ thread \notin {"tick", "mark"} => queue = <<>>
  /\ \A i, j \in DOMAIN queue : queue[i].id = queue[j].id => i = j

ScheduleTyped == SchedulerTypeOK /\ RestInv /\ IdsInv /\ QueueInv

LEMMA ScheduleBegins == ASSUME SchedulerInit PROVE ScheduleTyped
<1>1. Saved \in Seq(Entries) /\ \A i \in DOMAIN Saved : Saved[i].id = i
  BY DEF SchedulerAssumption, Entries
<1>2. Len(Saved) \in 0 .. MaxId
  <2>1. Len(Saved) \in Nat /\ DOMAIN Saved = 1 .. Len(Saved)
    BY <1>1, LenProperties
  <2>2. CASE Len(Saved) = 0
    BY <2>2, ScheduleConstants
  <2>3. CASE Len(Saved) # 0
    <3>1. Len(Saved) \in 1 .. Len(Saved)
      BY <2>1, <2>3
    <3>2. Saved[Len(Saved)] \in Entries
      BY <1>1, <3>1, ElementOfSeq
    <3>3. Saved[Len(Saved)].id = Len(Saved)
      BY <1>1, <2>1, <3>1
    <3>. QED BY <2>1, <3>2, <3>3 DEF Entries
  <2>. QED BY <2>2, <2>3
<1>3. <<>> \in Seq(Entries) /\ DOMAIN <<>> = {}
  BY EmptySeq
<1>4. SchedulerTypeOK
  <2>1. now = 0 /\ tickNow = 0 /\ since = 0 /\ edited = 0 /\ scheduleEdits = 0 /\ rest = 0
        /\ schedules = Saved /\ nextId = Len(Saved) + 1 /\ queue = <<>>
    BY DEF SchedulerInit
  <2>2. 0 \in 0 .. LastMinute /\ 0 \in 0 .. MaxScheduleEdits /\ 0 \in 0 .. Interval + MaxTick
        /\ nextId \in 1 .. MaxId + 1
    BY <1>2, <2>1, ScheduleConstants
  <2>3. thread = "off" /\ stop = FALSE /\ wanted = FALSE /\ fired = {} /\ firedFile = {}
        /\ active = {} /\ answered = {}
    BY DEF SchedulerInit
  <2>. QED BY <1>1, <1>3, <2>1, <2>2, <2>3 DEF SchedulerTypeOK
<1>5. RestInv /\ QueueInv
  BY <1>3, ScheduleConstants DEF SchedulerInit, RestInv, QueueInv
<1>6. IdsInv
  BY <1>1, <1>2, ScheduleConstants, SMTT(20) DEF SchedulerInit, IdsInv
<1>. QED BY <1>4, <1>5, <1>6 DEF ScheduleTyped

\* What a step that writes schedules.json leaves in it.
LEMMA WriteTyped ==
  ASSUME ScheduleTyped, NEW entries \in Seq(Entries),
         WriteSchedules(entries), nextId' \in nextId .. MaxId + 1,
         \A i \in DOMAIN entries : entries[i].id < nextId',
         \A i, j \in DOMAIN entries : entries[i].id = entries[j].id => i = j
  PROVE  ScheduleTyped'
<1> USE DEF ScheduleTyped, WriteSchedules, firedVars, lifeVars, tickVars
<1>1. SchedulerTypeOK'
  <2>1. scheduleEdits' \in 0 .. MaxScheduleEdits /\ edited' \in 0 .. LastMinute
        /\ nextId' \in 1 .. MaxId + 1
    BY ScheduleConstants DEF SchedulerTypeOK
  <2>. QED BY <2>1 DEF SchedulerTypeOK
<1>2. RestInv'
  BY DEF RestInv
<1>3. IdsInv'
  BY DEF IdsInv
<1>4. QueueInv'
  BY DEF QueueInv
<1>. QED BY <1>1, <1>2, <1>3, <1>4

LEMMA CreateTyped ==
  ASSUME ScheduleTyped, CreateSchedule
  PROVE  ScheduleTyped'
<1>1. PICK s \in Setting : WriteSchedules(Append(schedules, [id |-> nextId, set |-> s]))
  BY DEF CreateSchedule
<1>. DEFINE new == [id |-> nextId, set |-> s]
            entries == Append(schedules, new)
<1>2. /\ schedules \in Seq(Entries) /\ nextId \in 1 .. MaxId /\ MaxId \in Nat
      /\ nextId' = nextId + 1
  BY ScheduleConstants DEF ScheduleTyped, SchedulerTypeOK, CreateSchedule
<1>3. new \in Entries /\ new.id = nextId
  BY <1>2 DEF Entries
<1>. HIDE DEF new
<1>4. /\ entries \in Seq(Entries) /\ DOMAIN entries = 1 .. Len(schedules) + 1
      /\ Len(schedules) \in Nat /\ DOMAIN schedules = 1 .. Len(schedules)
      /\ \A i \in 1 .. Len(schedules) : entries[i] = schedules[i]
      /\ entries[Len(schedules) + 1] = new
  BY <1>2, <1>3
<1>5. \A i \in DOMAIN schedules : schedules[i].id \in Nat /\ schedules[i].id < nextId
  <2>. TAKE i \in DOMAIN schedules
  <2>1. schedules[i] \in Entries
    BY <1>2, ElementOfSeq
  <2>. QED BY <1>2, <2>1 DEF Entries, ScheduleTyped, IdsInv
<1>6. WriteSchedules(entries)
  BY <1>1 DEF new
<1>. HIDE DEF entries
<1>7. \A i \in DOMAIN entries : i \in DOMAIN schedules \/ i = Len(schedules) + 1
  BY <1>4
<1>10. \A i \in DOMAIN entries : entries[i].id =
          IF i \in DOMAIN schedules THEN schedules[i].id ELSE nextId
  BY <1>3, <1>4, <1>7
<1>11. nextId \in Nat /\ nextId' \in nextId .. MaxId + 1
  BY <1>2
<1>. HIDE DEF entries
<1>8. \A i \in DOMAIN entries : entries[i].id < nextId'
  BY <1>2, <1>5, <1>10, <1>11, SMTT(20)
<1>9. \A i, j \in DOMAIN entries : entries[i].id = entries[j].id => i = j
  <2>. SUFFICES ASSUME NEW i \in DOMAIN entries, NEW j \in DOMAIN entries,
                       entries[i].id = entries[j].id
                PROVE  i = j
    OBVIOUS
  <2>1. CASE i \in DOMAIN schedules /\ j \in DOMAIN schedules
    BY <1>10, <2>1 DEF ScheduleTyped, IdsInv
  <2>2. CASE i \notin DOMAIN schedules /\ j \notin DOMAIN schedules
    BY <1>7, <2>2
  <2>3. CASE i \in DOMAIN schedules /\ j \notin DOMAIN schedules
    BY <1>5, <1>10, <1>11, <2>3
  <2>4. CASE i \notin DOMAIN schedules /\ j \in DOMAIN schedules
    BY <1>5, <1>10, <1>11, <2>4
  <2>. QED BY <2>1, <2>2, <2>3, <2>4
<1>. QED BY <1>4, <1>6, <1>8, <1>9, <1>11, WriteTyped

LEMMA UpdateTyped ==
  ASSUME ScheduleTyped, UpdateSchedule
  PROVE  ScheduleTyped'
<1>1. PICK i \in DOMAIN schedules, s \in Setting :
        WriteSchedules([schedules EXCEPT ![i].set = s])
  BY DEF UpdateSchedule
<1>2. /\ schedules \in Seq(Entries) /\ nextId' = nextId /\ nextId \in 1 .. MaxId + 1
      /\ MaxId \in Nat /\ DOMAIN schedules = 1 .. Len(schedules)
  BY ScheduleConstants, LenProperties DEF ScheduleTyped, SchedulerTypeOK, UpdateSchedule
<1>. DEFINE new == [schedules[i] EXCEPT !.set = s]
            entries == [schedules EXCEPT ![i] = new]
<1>3. new \in Entries /\ new.id = schedules[i].id
  <2>1. schedules[i] \in Entries
    BY <1>2, ElementOfSeq
  <2>. QED BY <2>1 DEF Entries
<1>4. [schedules EXCEPT ![i].set = s] = entries
  OBVIOUS
<1>. HIDE DEF new
<1>5. /\ entries \in Seq(Entries) /\ DOMAIN entries = DOMAIN schedules
      /\ \A j \in DOMAIN schedules : entries[j] = IF j = i THEN new ELSE schedules[j]
  BY <1>2, <1>3
<1>6. WriteSchedules(entries)
  BY <1>1, <1>4
<1>. HIDE DEF entries
<1>7. \A j \in DOMAIN entries : j \in DOMAIN schedules /\ entries[j].id = schedules[j].id
  BY <1>3, <1>5
<1>8. \A j \in DOMAIN entries : entries[j].id < nextId'
  BY <1>2, <1>7 DEF ScheduleTyped, IdsInv
<1>9. \A j, k \in DOMAIN entries : entries[j].id = entries[k].id => j = k
  BY <1>7 DEF ScheduleTyped, IdsInv
<1>10. nextId' \in nextId .. MaxId + 1
  BY <1>2
<1>. QED BY <1>5, <1>6, <1>8, <1>9, <1>10, WriteTyped

LEMMA DeleteTyped ==
  ASSUME ScheduleTyped, DeleteSchedule
  PROVE  ScheduleTyped'
<1>1. PICK i \in DOMAIN schedules :
        WriteSchedules(Picked(schedules,
                        {j \in DOMAIN schedules : schedules[j].id # schedules[i].id}))
  BY DEF DeleteSchedule
<1>. DEFINE I == {j \in DOMAIN schedules : schedules[j].id # schedules[i].id}
            entries == Picked(schedules, I)
<1>2. /\ schedules \in Seq(Entries) /\ nextId' = nextId /\ nextId \in 1 .. MaxId + 1
      /\ MaxId \in Nat /\ DOMAIN schedules = 1 .. Len(schedules) /\ Len(schedules) \in Nat
  BY ScheduleConstants, LenProperties DEF ScheduleTyped, SchedulerTypeOK, DeleteSchedule
<1>3. WriteSchedules(entries)
  BY <1>1, PickedIsPicked
<1>4. I \in SUBSET DOMAIN schedules
  OBVIOUS
<1>. HIDE DEF I
<1>5. /\ entries \in Seq(Entries) /\ DOMAIN entries = 1 .. Cardinality(I)
      /\ \A k \in DOMAIN entries : At(I, k) \in I /\ entries[k] = schedules[At(I, k)]
      /\ \A k, l \in DOMAIN entries : k < l <=> At(I, k) < At(I, l)
  BY <1>2, <1>4, PickedList
<1>6. Cardinality(I) \in Nat
  BY <1>2, <1>4, Ranks
<1>. HIDE DEF entries
<1>7. \A k \in DOMAIN entries : entries[k].id < nextId'
  BY <1>2, <1>4, <1>5 DEF ScheduleTyped, IdsInv
<1>8. \A k, l \in DOMAIN entries : entries[k].id = entries[l].id => k = l
  <2>. SUFFICES ASSUME NEW k \in DOMAIN entries, NEW l \in DOMAIN entries,
                       entries[k].id = entries[l].id
                PROVE  k = l
    OBVIOUS
  <2>1. At(I, k) = At(I, l) /\ At(I, k) \in 1 .. Len(schedules)
    BY <1>2, <1>4, <1>5 DEF ScheduleTyped, IdsInv
  <2>2. ~(k < l) /\ ~(l < k)
    BY <1>2, <1>5, <2>1
  <2>. QED BY <1>5, <1>6, <2>2
<1>10. nextId' \in nextId .. MaxId + 1
  BY <1>2
<1>. QED BY <1>3, <1>5, <1>7, <1>8, <1>10, WriteTyped

LEMMA BeginTyped ==
  ASSUME ScheduleTyped, BeginTick
  PROVE  ScheduleTyped'
<1>. DEFINE due == DueEntries
<1>1. /\ schedules \in Seq(Entries) /\ now \in 0 .. LastMinute
      /\ thread' = "tick" /\ queue' = due /\ tickNow' = now /\ rest' = MaxTick
      /\ UNCHANGED <<now, active, answered, fileVars, firedVars, lifeVars>>
  BY DEF BeginTick, ScheduleTyped, SchedulerTypeOK
<1>2. /\ due \in Seq(Entries)
      /\ \A k \in DOMAIN due : /\ At(DuePositions, k) \in DOMAIN schedules
                               /\ due[k] = schedules[At(DuePositions, k)]
      /\ \A k, l \in DOMAIN due : k < l <=> At(DuePositions, k) < At(DuePositions, l)
  BY <1>1, DueIs DEF DuePositions
<1>. HIDE DEF due
<1>3. \A k, l \in DOMAIN due : due[k].id = due[l].id => k = l
  <2>. SUFFICES ASSUME NEW k \in DOMAIN due, NEW l \in DOMAIN due, due[k].id = due[l].id
                PROVE  k = l
    OBVIOUS
  <2>1. At(DuePositions, k) = At(DuePositions, l)
    BY <1>2 DEF ScheduleTyped, IdsInv
  <2>2. DOMAIN schedules = 1 .. Len(schedules) /\ Len(schedules) \in Nat
        /\ DOMAIN due = 1 .. Len(due) /\ Len(due) \in Nat
    BY <1>1, <1>2, LenProperties
  <2>3. ~(k < l) /\ ~(l < k)
    BY <1>2, <2>1, <2>2
  <2>. QED BY <2>2, <2>3
<1>4. SchedulerTypeOK'
  BY <1>1, <1>2, ScheduleConstants
  DEF ScheduleTyped, SchedulerTypeOK, fileVars, firedVars, lifeVars
<1>5. RestInv' /\ IdsInv' /\ QueueInv'
  BY <1>1, <1>3, ScheduleConstants DEF ScheduleTyped, RestInv, IdsInv, QueueInv, fileVars
<1>. QED BY <1>4, <1>5 DEF ScheduleTyped

LEMMA MarkTyped ==
  ASSUME ScheduleTyped, MarkFired
  PROVE  /\ ScheduleTyped' /\ queue # <<>>
         /\ HeadSlot \in Slot /\ Head(queue) = queue[1]
         /\ queue' \in Seq(Entries) /\ Len(queue') = Len(queue) - 1
         /\ \A k \in 1 .. Len(queue') : queue'[k] = queue[k + 1]
<1>1. /\ queue \in Seq(Entries) /\ queue # <<>> /\ queue' = Tail(queue)
      /\ tickNow \in 0 .. LastMinute /\ thread = "mark"
  BY DEF MarkFired, ScheduleTyped, SchedulerTypeOK
<1>2. /\ Head(queue) \in Entries /\ queue' \in Seq(Entries)
      /\ Len(queue') = Len(queue) - 1
      /\ \A k \in 1 .. Len(queue') : queue'[k] = queue[k + 1]
  BY <1>1, HeadTailProperties
<1>3. HeadSlot \in Slot
  BY <1>1, <1>2, KeyTyped DEF HeadSlot
<1>4. SchedulerTypeOK'
  <2>1. fired' \subseteq Slot /\ firedFile' \subseteq Slot
    BY <1>3 DEF MarkFired, ScheduleTyped, SchedulerTypeOK, HeadSlot
  <2>. QED BY <1>2, <2>1 DEF MarkFired, ScheduleTyped, SchedulerTypeOK, fileVars, lifeVars
<1>5. RestInv' /\ IdsInv'
  BY DEF MarkFired, ScheduleTyped, RestInv, IdsInv, fileVars
<1>6. QueueInv'
  <2>1. /\ Len(queue) \in Nat /\ DOMAIN queue = 1 .. Len(queue)
        /\ Len(queue') \in Nat /\ DOMAIN queue' = 1 .. Len(queue')
    BY <1>1, <1>2, LenProperties
  <2>. SUFFICES ASSUME NEW k \in 1 .. Len(queue'), NEW l \in 1 .. Len(queue'),
                       queue'[k].id = queue'[l].id
                PROVE  k = l
    BY <2>1 DEF QueueInv, MarkFired
  <2>2. k + 1 \in DOMAIN queue /\ l + 1 \in DOMAIN queue /\ queue[k + 1].id = queue[l + 1].id
    BY <1>2, <2>1
  <2>3. k + 1 = l + 1
    BY <2>2 DEF ScheduleTyped, QueueInv
  <2>. QED BY <2>1, <2>3
<1>. QED BY <1>1, <1>2, <1>3, <1>4, <1>5, <1>6 DEF ScheduleTyped

LEMMA ThreadTyped ==
  ASSUME ScheduleTyped, Answer \/ Raise \/ EndTick \/ LoopEnds
  PROVE  ScheduleTyped'
<1>0. <<>> \in Seq(Entries) /\ DOMAIN <<>> = {}
  BY EmptySeq
<1> USE DEF ScheduleTyped, fileVars, firedVars, tickVars, lifeVars
<1>1. CASE Answer
  <2>1. /\ queue \in Seq(Entries) /\ queue # <<>> /\ tickNow \in 0 .. LastMinute
    BY <1>1 DEF Answer, SchedulerTypeOK
  <2>2. Head(queue) \in Entries
    BY <2>1, HeadTailProperties
  <2>3. HeadSlot \in Slot /\ Head(queue).set.workflow \in Workflow
    BY <2>1, <2>2, KeyTyped DEF HeadSlot, Entries, SchedulerAssumption
  <2>4. answered' \subseteq Slot /\ active' \subseteq Workflow
    BY <1>1, <2>3 DEF Answer, SchedulerTypeOK, HeadSlot
  <2>5. SchedulerTypeOK'
    BY <1>1, <2>4 DEF Answer, SchedulerTypeOK
  <2>6. RestInv' /\ IdsInv' /\ QueueInv'
    BY <1>1 DEF Answer, RestInv, IdsInv, QueueInv
  <2>. QED BY <2>5, <2>6
<1>2. CASE Raise
  BY <1>0, <1>2, ScheduleConstants DEF Raise, Rest, SchedulerTypeOK, RestInv, IdsInv, QueueInv
<1>3. CASE EndTick
  BY <1>0, <1>3, ScheduleConstants DEF EndTick, Rest, SchedulerTypeOK, RestInv, IdsInv, QueueInv
<1>4. CASE LoopEnds
  BY <1>4 DEF LoopEnds, SchedulerTypeOK, RestInv, IdsInv, QueueInv
<1>. QED BY <1>1, <1>2, <1>3, <1>4

LEMMA LifeTyped ==
  ASSUME ScheduleTyped,
         Boot \/ StopDriver \/ StartDriver \/ Exit \/ Crash
  PROVE  ScheduleTyped'
<1>0. <<>> \in Seq(Entries) /\ DOMAIN <<>> = {}
  BY EmptySeq
<1> USE DEF ScheduleTyped, fileVars, firedVars, tickVars, lifeVars
<1>5. 0 \in 0 .. Interval + MaxTick /\ 0 \in 0 .. LastMinute /\ now <= now
  BY ScheduleConstants DEF SchedulerTypeOK
<1>1. CASE Boot
  <2>1. /\ thread = "off" /\ thread' = "new" /\ rest' = 0 /\ stop' = FALSE /\ wanted' = TRUE
        /\ since' = now /\ fired' = firedFile
        /\ UNCHANGED <<now, firedFile, queue, tickNow, active, answered, fileVars>>
    BY <1>1 DEF Boot, NewThread
  <2>2. SchedulerTypeOK'
    BY <1>5, <2>1 DEF SchedulerTypeOK
  <2>. QED BY <2>1, <2>2 DEF SchedulerTypeOK, RestInv, IdsInv, QueueInv
<1>2. CASE StopDriver
  BY <1>2 DEF StopDriver, SchedulerTypeOK, RestInv, IdsInv, QueueInv
<1>3. CASE StartDriver
  <2>1. CASE Alive
    BY <1>3, <2>1 DEF StartDriver, SchedulerTypeOK, RestInv, IdsInv, QueueInv
  <2>2. CASE ~Alive
    <3>1. /\ thread \in {"off", "ended"} /\ thread' = "new" /\ rest' = 0 /\ stop' = FALSE
          /\ wanted' = TRUE /\ since' = now
          /\ UNCHANGED <<now, queue, tickNow, active, answered, fileVars, firedVars>>
      BY <1>3, <2>2 DEF StartDriver, NewThread, Alive
    <3>2. SchedulerTypeOK'
      BY <1>5, <3>1 DEF SchedulerTypeOK
    <3>. QED BY <3>1, <3>2 DEF SchedulerTypeOK, RestInv, IdsInv, QueueInv
  <2>. QED BY <2>1, <2>2
<1>4. CASE Exit \/ Crash
  <2>1. Gone
    BY <1>4 DEF Exit, Crash
  <2>2. SchedulerTypeOK'
    BY <1>0, <1>5, <2>1 DEF Gone, SchedulerTypeOK
  <2>. QED BY <1>0, <2>1, <2>2 DEF Gone, RestInv, IdsInv, QueueInv
<1>. QED BY <1>1, <1>2, <1>3, <1>4

LEMMA ClockTyped ==
  ASSUME ScheduleTyped, Launch \/ RunReturns \/ Pass \/ SetBack
  PROVE  ScheduleTyped'
<1> USE DEF ScheduleTyped, fileVars, firedVars, tickVars, lifeVars
<1>1. CASE Launch
  BY <1>1 DEF Launch, SchedulerTypeOK, RestInv, IdsInv, QueueInv
<1>2. CASE RunReturns
  BY <1>2 DEF RunReturns, SchedulerTypeOK, RestInv, IdsInv, QueueInv
<1>3. CASE Pass
  BY <1>3, ScheduleConstants DEF Pass, Alive, SchedulerTypeOK, RestInv, IdsInv, QueueInv
<1>4. CASE SetBack
  BY <1>4, ScheduleConstants DEF SetBack, SchedulerTypeOK, RestInv, IdsInv, QueueInv
<1>. QED BY <1>1, <1>2, <1>3, <1>4

LEMMA ScheduleKeepsTypes ==
  ASSUME ScheduleTyped, [SchedulerNext]_schedulerVars
  PROVE  ScheduleTyped'
<1>1. CASE UNCHANGED schedulerVars
  BY <1>1 DEF ScheduleTyped, SchedulerTypeOK, RestInv, IdsInv, QueueInv, schedulerVars, fileVars,
     firedVars, tickVars, lifeVars
<1>2. CASE BeginTick BY <1>2, BeginTyped
<1>3. CASE MarkFired BY <1>3, MarkTyped
<1>4. CASE Answer \/ Raise \/ EndTick \/ LoopEnds BY <1>4, ThreadTyped
<1>5. CASE Boot \/ StopDriver \/ StartDriver \/ Exit \/ Crash BY <1>5, LifeTyped
<1>6. CASE Launch \/ RunReturns \/ Pass \/ SetBack BY <1>6, ClockTyped
<1>7. CASE CreateSchedule \/ UpdateSchedule \/ DeleteSchedule
  BY <1>7, CreateTyped, UpdateTyped, DeleteTyped
<1>. QED BY <1>1, <1>2, <1>3, <1>4, <1>5, <1>6, <1>7 DEF SchedulerNext

(***************************************************************************)
(* What admission was asked about is remembered, in memory while the       *)
(* process lives, on disk while there is none; and what is due was not     *)
(* asked about.                                                            *)
(***************************************************************************)
OnceInv ==
  /\ thread = "off" => answered \subseteq firedFile
  /\ thread \notin {"off", "mark"} => answered \subseteq fired
  /\ thread = "mark" => answered \subseteq fired \cup {HeadSlot}
  /\ \A k \in DOMAIN queue :
       ~(thread = "mark" /\ k = 1) => SlotKey(queue[k], tickNow) \notin answered

LEMMA OnceBegins == ASSUME SchedulerInit PROVE OnceInv
<1>1. DOMAIN <<>> = {}
  BY EmptySeq
<1>. QED BY <1>1 DEF SchedulerInit, OnceInv

LEMMA OnceKept ==
  ASSUME ScheduleTyped, OnceInv, [SchedulerNext]_schedulerVars
  PROVE  OnceInv'
<1>0. /\ DOMAIN <<>> = {} /\ queue \in Seq(Entries)
      /\ DOMAIN queue = 1 .. Len(queue) /\ Len(queue) \in Nat
      /\ thread \notin {"tick", "mark"} => queue = <<>>
  BY EmptySeq, LenProperties DEF ScheduleTyped, SchedulerTypeOK, QueueInv
<1> USE DEF fileVars, firedVars, tickVars, lifeVars
<1>1. CASE BeginTick
  <2>1. /\ answered \subseteq fired /\ thread' = "tick"
        /\ queue' = DueEntries /\ tickNow' = now
        /\ UNCHANGED <<answered, fired>>
    BY <1>1 DEF BeginTick, OnceInv
  <2>2. schedules \in Seq(Entries)
    BY DEF ScheduleTyped, SchedulerTypeOK
  <2>3. \A k \in DOMAIN DueEntries : SlotKey(DueEntries[k], now) \notin fired
    BY <2>2, DueIs DEF DuePositions
  <2>4. \A k \in DOMAIN queue' : SlotKey(queue'[k], tickNow') \notin answered'
    BY <2>1, <2>3
  <2>. QED BY <2>1, <2>4 DEF OnceInv
<1>2. CASE Answer
  <2>1. /\ thread = "tick" /\ queue # <<>> /\ thread' = "mark"
        /\ answered' = answered \cup {HeadSlot}
        /\ UNCHANGED <<fired, firedFile, queue, tickNow>>
    BY <1>2 DEF Answer, HeadSlot
  <2>2. 1 \in DOMAIN queue /\ Head(queue) = queue[1]
    BY <1>0, <2>1
  <2>3. \A k \in DOMAIN queue : SlotKey(queue[k], tickNow) = HeadSlot => k = 1
    BY <2>2 DEF ScheduleTyped, QueueInv, SlotKey, HeadSlot
  <2>4. HeadSlot' = HeadSlot
    BY <2>1 DEF HeadSlot, SlotKey
  <2>5. \A k \in DOMAIN queue' : k # 1 => SlotKey(queue'[k], tickNow') \notin answered'
    BY <2>1, <2>3 DEF OnceInv
  <2>. QED BY <2>1, <2>4, <2>5 DEF OnceInv
<1>3. CASE MarkFired
  <2>1. /\ queue' \in Seq(Entries) /\ Len(queue') = Len(queue) - 1
        /\ \A k \in 1 .. Len(queue') : queue'[k] = queue[k + 1]
    BY <1>3, MarkTyped
  <2>2. /\ thread = "mark" /\ thread' = "tick" /\ fired' = fired \cup {HeadSlot}
        /\ UNCHANGED <<answered, tickNow>>
    BY <1>3 DEF MarkFired, HeadSlot
  <2>3. \A k \in DOMAIN queue' : k + 1 \in DOMAIN queue /\ k + 1 # 1 /\ queue'[k] = queue[k + 1]
    <3>1. DOMAIN queue' = 1 .. Len(queue') /\ Len(queue') \in Nat
      BY <2>1, LenProperties
    <3>. QED BY <1>0, <2>1, <3>1
  <2>4. \A k \in DOMAIN queue' : SlotKey(queue'[k], tickNow') \notin answered'
    BY <2>2, <2>3 DEF OnceInv
  <2>. QED BY <2>2, <2>4 DEF OnceInv
<1>4. CASE Raise \/ EndTick
  BY <1>0, <1>4 DEF Raise, EndTick, Rest, OnceInv
<1>5. CASE \/ LoopEnds \/ StopDriver \/ Launch \/ RunReturns \/ Pass \/ SetBack
           \/ UNCHANGED schedulerVars
  <2>1. UNCHANGED <<fired, firedFile, queue, tickNow, answered>>
    BY <1>5 DEF LoopEnds, StopDriver, Launch, RunReturns, Pass, SetBack, schedulerVars
  <2>2. thread' = thread \/ (thread = "wait" /\ thread' = "ended")
    BY <1>5 DEF LoopEnds, StopDriver, Launch, RunReturns, Pass, SetBack, schedulerVars
  <2>3. HeadSlot' = HeadSlot
    BY <2>1 DEF HeadSlot, SlotKey
  <2>. QED BY <2>1, <2>2, <2>3 DEF OnceInv
<1>6. CASE Boot
  BY <1>0, <1>6 DEF Boot, NewThread, OnceInv
<1>7. CASE StartDriver
  <2>1. UNCHANGED <<fired, firedFile, queue, tickNow, answered>>
    BY <1>7 DEF StartDriver
  <2>2. thread' = thread \/ (thread = "ended" /\ thread' = "new")
    BY <1>7 DEF StartDriver, NewThread, Alive
  <2>3. HeadSlot' = HeadSlot
    BY <2>1 DEF HeadSlot, SlotKey
  <2>. QED BY <2>1, <2>2, <2>3 DEF OnceInv
<1>8. CASE Exit \/ Crash
  BY <1>0, <1>8 DEF Exit, Crash, Gone, OnceInv
<1>9. CASE CreateSchedule \/ UpdateSchedule \/ DeleteSchedule
  <2>1. UNCHANGED <<thread, fired, firedFile, queue, tickNow, answered>>
    BY <1>9 DEF CreateSchedule, UpdateSchedule, DeleteSchedule, WriteSchedules
  <2>2. HeadSlot' = HeadSlot
    BY <2>1 DEF HeadSlot, SlotKey
  <2>. QED BY <2>1, <2>2 DEF OnceInv
<1>. QED BY <1>1, <1>2, <1>3, <1>4, <1>5, <1>6, <1>7, <1>8, <1>9 DEF SchedulerNext

\* A slot that admission is asked about was not asked about before.
LEMMA AskedOnce ==
  ASSUME ScheduleTyped, OnceInv, [SchedulerNext]_schedulerVars, Answering
  PROVE  HeadSlot \notin answered
<1>1. thread = "tick" /\ thread' = "mark"
  BY DEF Answering
<1>2. queue # <<>>
  BY <1>1 DEF SchedulerNext, schedulerVars, BeginTick, Answer, Raise, Rest, MarkFired, EndTick,
     LoopEnds, Boot, NewThread, StopDriver, StartDriver, Exit, Crash, Gone, CreateSchedule,
     UpdateSchedule, DeleteSchedule, WriteSchedules, Launch, RunReturns, Pass, SetBack
<1>3. queue \in Seq(Entries)
  BY DEF ScheduleTyped, SchedulerTypeOK
<1>4. 1 \in DOMAIN queue /\ Head(queue) = queue[1]
  BY <1>2, <1>3
<1>. QED BY <1>1, <1>4 DEF OnceInv, HeadSlot

\* A slot is offered to admission once, whatever is edited, deleted or created meanwhile, whenever
\* runs end, although the clock is set back and over restarts, unless the process died before the
\* slot was on disk.
THEOREM SlotsAreOfferedOnce == SchedulerSpec => OncePerSlot
<1>1. SchedulerInit => ScheduleTyped /\ OnceInv
  BY ScheduleBegins, OnceBegins
<1>2. ScheduleTyped /\ OnceInv /\ [SchedulerNext]_schedulerVars => ScheduleTyped' /\ OnceInv'
  BY ScheduleKeepsTypes, OnceKept
<1>3. ScheduleTyped /\ OnceInv /\ [SchedulerNext]_schedulerVars
        => (Answering => HeadSlot \notin answered)
  BY AskedOnce
<1>4. UNCHANGED schedulerVars => ~Answering
  BY DEF schedulerVars, Answering
<1>. QED BY <1>1, <1>2, <1>3, <1>4, PTL DEF SchedulerSpec, OncePerSlot

(***************************************************************************)
(* A slot whose entry has been there since before is dealt with, or it is  *)
(* in the hands of a tick that no admission gives up, or the next tick     *)
(* comes within an interval and a tick of it.                              *)
(***************************************************************************)
Key(i, d) == <<schedules[i].id, d, schedules[i].set.at>>

Open(i, d) ==
  /\ Weekday(d) \in schedules[i].set.days
  /\ Alive /\ ~stop
  /\ since <= SlotTime(Key(i, d)) /\ edited < SlotTime(Key(i, d))
  /\ Interval + MaxTick <= Grace /\ schedules[i].set.at + Interval + MaxTick <= DayLength
  /\ \A j \in DOMAIN schedules : schedules[j].set.workflow \notin Broken

Dealt(key) ==
  \/ key \in fired
  \/ /\ \E j \in DOMAIN queue : SlotKey(queue[j], tickNow) = key
     /\ \A j \in DOMAIN queue : queue[j].set.workflow \notin Broken

\* When the next tick begins at the latest.
Latest == now + rest + IF thread \in {"tick", "mark"} THEN Interval ELSE 0

InTime(i, d) == Dealt(Key(i, d)) \/ Latest < SlotTime(Key(i, d)) + Interval + MaxTick

InTimeInv ==
  \A i \in DOMAIN schedules, d \in 0 .. Day(LastMinute) : Open(i, d) => InTime(i, d)

LEMMA InTimeBegins == ASSUME SchedulerInit PROVE InTimeInv
  BY DEF SchedulerInit, InTimeInv, Open, Alive

LEMMA ClockIs ==
  ASSUME ScheduleTyped
  PROVE  /\ now \in Nat /\ rest \in Nat /\ Latest \in Nat /\ Interval \in Nat \ {0}
         /\ MaxTick \in Nat /\ since \in Nat /\ edited \in Nat
         /\ Alive => Latest <= now + Interval + MaxTick
<1>1. /\ now \in Nat /\ rest \in Nat /\ Interval \in Nat \ {0} /\ MaxTick \in Nat
      /\ since \in Nat /\ edited \in Nat
  BY ScheduleConstants DEF ScheduleTyped, SchedulerTypeOK
<1>2. Latest \in Nat
  BY <1>1 DEF Latest
<1>3. Alive => Latest <= now + Interval + MaxTick
  BY <1>1 DEF ScheduleTyped, SchedulerTypeOK, RestInv, Latest, Alive
<1>. QED BY <1>1, <1>2, <1>3

LEMMA SlotIs ==
  ASSUME ScheduleTyped, NEW i \in DOMAIN schedules,
         NEW d \in 0 .. Day(LastMinute)
  PROVE  /\ d \in Nat /\ schedules[i].set.at \in 0 .. DayLength - 1
         /\ SlotTime(Key(i, d)) = d * DayLength + schedules[i].set.at
         /\ SlotTime(Key(i, d)) \in Nat /\ d * DayLength \in Nat
<1>1. schedules[i] \in Entries
  BY ElementOfSeq, SMTT(20) DEF ScheduleTyped, SchedulerTypeOK
<1>2. /\ DayLength \in Nat \ {0} /\ d \in Nat /\ d * DayLength \in Nat
      /\ schedules[i].set.at \in 0 .. DayLength - 1
  BY <1>1, ScheduleConstants, EntryIs, MoreIsMore
<1>. QED BY <1>2, SMTT(20) DEF SlotTime, Key

LEMMA BeginInTime ==
  ASSUME ScheduleTyped, InTimeInv, BeginTick
  PROVE  InTimeInv'
<1>1. /\ thread \in {"new", "wait"} /\ rest = 0 /\ thread' = "tick" /\ queue' = DueEntries
      /\ tickNow' = now /\ rest' = MaxTick /\ queue = <<>>
      /\ UNCHANGED <<now, schedules, edited, fired, stop, since>>
  BY DEF BeginTick, ScheduleTyped, RestInv, QueueInv, fileVars, firedVars, lifeVars
<1>. SUFFICES ASSUME NEW i \in DOMAIN schedules, NEW d \in 0 .. Day(LastMinute), Open(i, d)'
              PROVE  InTime(i, d)'
  BY <1>1 DEF InTimeInv
<1>. DEFINE key == Key(i, d)
            T == SlotTime(key)
            e == schedules[i]
<1>2. key' = key /\ T' = T
  BY <1>1 DEF Key, SlotTime
<1>3. Open(i, d)
  BY <1>1 DEF Open, Alive, Key, SlotTime
<1>4. DOMAIN queue = {}
  BY <1>1, EmptySeq
<1>5. key \in fired \/ Latest < T + Interval + MaxTick
  BY <1>3, <1>4 DEF InTimeInv, InTime, Dealt
<1>6. CASE key \in fired
  BY <1>1, <1>2, <1>6 DEF InTime, Dealt
<1>7. CASE Latest < T + Interval + MaxTick /\ key \notin fired
  <2>1. /\ now < T + Interval + MaxTick /\ now \in Nat /\ MaxTick \in Nat
        /\ Interval \in Nat \ {0} /\ T \in Nat
    BY <1>1, <1>7, ClockIs, SlotIs, SMTT(20) DEF Latest
  <2>2. CASE now < T
    <3>1. Latest' = now + MaxTick + Interval
      BY <1>1 DEF Latest
    <3>2. Latest' < T + Interval + MaxTick
      BY <2>1, <2>2, <3>1
    <3>. QED BY <1>2, <3>2 DEF InTime
  <2>3. CASE ~(now < T)
    <3>1. /\ d \in Nat /\ e.set.at \in 0 .. DayLength - 1 /\ T = d * DayLength + e.set.at
          /\ d * DayLength \in Nat /\ DayLength \in Nat \ {0} /\ Grace \in Nat
      BY SlotIs, ScheduleConstants
    <3>2. e.set.at + Interval + MaxTick <= DayLength /\ Interval + MaxTick <= Grace
      BY <1>3 DEF Open
    <3>. DEFINE a == e.set.at
                x == d * DayLength
    <3>. HIDE DEF T, a, x
    <3>11. /\ x \in Nat /\ a \in Nat /\ T = x + a /\ Grace \in Nat /\ DayLength \in Nat
           /\ a + Interval + MaxTick <= DayLength
      BY <3>1, <3>2 DEF a, x
    <3>12. /\ now \in Nat /\ Interval \in Nat /\ MaxTick \in Nat
           /\ T <= now /\ now < T + Interval + MaxTick
      BY <2>1, <2>3, <3>11
    <3>3. x <= now /\ now < x + DayLength
      BY <3>11, <3>12
    <3>4. Day(now) = d
      BY <2>1, <3>1, <3>3, QuotientUnique DEF Day, x
    <3>5. SlotKey(e, now) = key
      BY <3>4 DEF SlotKey, Key
    <3>6. T <= now /\ now < T + Grace
      BY <2>1, <2>3, <3>2, <3>11
    <3>7. i \in DuePositions
      BY <1>3, <1>7, <3>4, <3>5, <3>6 DEF DuePositions, InWindow, Open, T
    <3>8. schedules \in Seq(Entries)
      BY DEF ScheduleTyped, SchedulerTypeOK
    <3>9. \E k \in DOMAIN queue' : SlotKey(queue'[k], tickNow') = key
      BY <1>1, <3>5, <3>7, <3>8, DueIs
    <3>10. \A k \in DOMAIN queue' : queue'[k].set.workflow \notin Broken
      BY <1>1, <1>3, <3>8, DueIs DEF DuePositions, Open
    <3>. QED BY <1>2, <3>9, <3>10 DEF InTime, Dealt
  <2>. QED BY <2>2, <2>3
<1>. QED BY <1>5, <1>6, <1>7

\* After the schedule is written, every slot to come is in time.
LEMMA WriteInTime ==
  ASSUME ScheduleTyped, ScheduleTyped', InTimeInv,
         CreateSchedule \/ UpdateSchedule \/ DeleteSchedule
  PROVE  InTimeInv'
<1>1. edited' = now /\ UNCHANGED <<now, thread, stop, since, rest>>
  BY DEF CreateSchedule, UpdateSchedule, DeleteSchedule, WriteSchedules, lifeVars, tickVars
<1>. SUFFICES ASSUME NEW i \in DOMAIN schedules', NEW d \in 0 .. Day(LastMinute),
                     Open(i, d)'
              PROVE  InTime(i, d)'
  BY DEF InTimeInv, Day
<1>. DEFINE T == SlotTime(Key(i, d))
<1>2. now < T' /\ Alive
  BY <1>1 DEF Open, Alive
<1>3. T' \in Nat
  <2>1. schedules' \in Seq(Entries)
    BY DEF ScheduleTyped, SchedulerTypeOK
  <2>2. schedules'[i] \in Entries
    BY <2>1, ElementOfSeq
  <2>3. /\ DayLength \in Nat \ {0} /\ d \in Nat /\ d * DayLength \in Nat
        /\ schedules'[i].set.at \in Nat
    BY <2>2, ScheduleConstants, EntryIs, MoreIsMore
  <2>. QED BY <2>3 DEF SlotTime, Key
<1>4. Latest' = Latest
  BY <1>1 DEF Latest
<1>. HIDE DEF T
<1>5. Latest' < T' + Interval + MaxTick
  BY <1>2, <1>3, <1>4, ClockIs, SMTT(20)
<1>. QED BY <1>5 DEF InTime, T

\* While the schedule stays as it is, a slot that is dealt with stays so, and the next tick does
\* not come later.
LEMMA StepInTime ==
  ASSUME ScheduleTyped, InTimeInv, UNCHANGED <<schedules, edited>>,
         Alive' /\ ~stop' => Alive /\ ~stop /\ since' = since,
         \A i \in DOMAIN schedules, d \in 0 .. Day(LastMinute) :
           Alive' /\ Open(i, d) /\ InTime(i, d) => InTime(i, d)'
  PROVE  InTimeInv'
<1>. SUFFICES ASSUME NEW i \in DOMAIN schedules, NEW d \in 0 .. Day(LastMinute), Open(i, d)'
              PROVE  InTime(i, d)'
  BY DEF InTimeInv, Day
<1>1. Open(i, d) /\ Alive'
  BY DEF Open, Key, SlotTime
<1>. QED BY <1>1 DEF InTimeInv

LEMMA StartInTime ==
  ASSUME ScheduleTyped, InTimeInv, UNCHANGED <<schedules, edited>>,
         thread' = "new", since' = now, now' = now, rest' = 0
  PROVE  InTimeInv'
<1>. SUFFICES ASSUME NEW i \in DOMAIN schedules, NEW d \in 0 .. Day(LastMinute), Open(i, d)'
              PROVE  InTime(i, d)'
  BY DEF InTimeInv, Day
<1>. DEFINE T == SlotTime(Key(i, d))
<1>1. T' = T /\ now <= T
  BY DEF Open, Key, SlotTime
<1>2. T \in Nat
  BY SlotIs
<1>3. Latest' = now + 0 + 0
  BY DEF Latest
<1>. HIDE DEF T
<1>4. Latest' < T' + Interval + MaxTick
  BY <1>1, <1>2, <1>3, ClockIs
<1>. QED BY <1>4 DEF InTime, T

LEMMA InTimeKept ==
  ASSUME ScheduleTyped, ScheduleTyped', InTimeInv,
        [SchedulerNext]_schedulerVars
  PROVE  InTimeInv'
<1> USE DEF fileVars, firedVars, tickVars, lifeVars
<1>. DEFINE Kept == \A i \in DOMAIN schedules, d \in 0 .. Day(LastMinute) :
                      Alive' /\ Open(i, d) /\ InTime(i, d) => InTime(i, d)'
<1>0. ASSUME UNCHANGED schedules
      PROVE  \A i, d : /\ Key(i, d)' = Key(i, d)
                       /\ SlotTime(Key(i, d))' = SlotTime(Key(i, d))
  BY <1>0 DEF Key, SlotTime
<1>1. CASE BeginTick BY <1>1, BeginInTime
<1>2. CASE CreateSchedule \/ UpdateSchedule \/ DeleteSchedule
  BY <1>2, WriteInTime
<1>3. CASE Boot
  BY <1>3, StartInTime DEF Boot, NewThread
<1>4. CASE StartDriver
  <2>1. CASE Alive
    <3>1. UNCHANGED <<now, schedules, edited, thread, stop, since, rest, fired, queue, tickNow>>
      BY <1>4, <2>1 DEF StartDriver
    <3>2. Kept
      BY <1>0, <3>1 DEF InTime, Dealt, Latest, SlotKey
    <3>. QED BY <3>1, <3>2, StepInTime DEF Alive
  <2>2. CASE ~Alive
    BY <1>4, <2>2, StartInTime DEF StartDriver, NewThread
  <2>. QED BY <2>1, <2>2
<1>5. CASE StopDriver \/ Exit \/ Crash \/ LoopEnds
  <2>1. ~(Alive' /\ ~stop')
    BY <1>5 DEF StopDriver, Exit, Crash, Gone, LoopEnds, Alive
  <2>. QED BY <2>1 DEF InTimeInv, Open
<1>6. CASE Launch \/ RunReturns \/ UNCHANGED schedulerVars
  <2>1. UNCHANGED <<now, schedules, edited, thread, stop, since, rest, fired, queue, tickNow>>
    BY <1>6 DEF Launch, RunReturns, schedulerVars
  <2>2. Kept
    BY <1>0, <2>1 DEF InTime, Dealt, Latest, SlotKey
  <2>. QED BY <2>1, <2>2, StepInTime DEF Alive
<1>7. CASE Answer
  <2>1. /\ thread = "tick" /\ thread' = "mark"
        /\ UNCHANGED <<now, schedules, edited, stop, since, rest, fired, queue, tickNow>>
    BY <1>7 DEF Answer
  <2>2. Latest' = Latest
    BY <2>1 DEF Latest
  <2>3. Kept
    BY <1>0, <2>1, <2>2 DEF InTime, Dealt, SlotKey
  <2>. QED BY <2>1, <2>3, StepInTime DEF Alive
<1>8. CASE MarkFired
  <2>1. /\ thread = "mark" /\ thread' = "tick" /\ fired' = fired \cup {HeadSlot}
        /\ UNCHANGED <<now, schedules, edited, stop, since, rest, tickNow>>
    BY <1>8 DEF MarkFired, HeadSlot
  <2>2. Latest' = Latest
    BY <2>1 DEF Latest
  <2>3. /\ DOMAIN queue = 1 .. Len(queue) /\ Len(queue) \in Nat /\ Head(queue) = queue[1]
        /\ DOMAIN queue' = 1 .. Len(queue) - 1
        /\ \A k \in DOMAIN queue' : queue'[k] = queue[k + 1]
    BY <1>8, MarkTyped, LenProperties DEF ScheduleTyped, SchedulerTypeOK
  <2>4. \A j \in DOMAIN queue : j = 1 \/ (j - 1 \in DOMAIN queue' /\ queue'[j - 1] = queue[j])
    <3>1. SUFFICES ASSUME NEW j \in DOMAIN queue, j # 1
                   PROVE  j - 1 \in DOMAIN queue' /\ queue'[j - 1] = queue[j]
      OBVIOUS
    <3>2. j \in 1 .. Len(queue) /\ Len(queue) \in Nat
      BY <2>3
    <3>3. j - 1 \in 1 .. Len(queue) - 1 /\ (j - 1) + 1 = j
      BY <3>1, <3>2
    <3>4. j - 1 \in DOMAIN queue'
      BY <2>3, <3>3
    <3>. QED BY <2>3, <3>3, <3>4
  <2>5. \A k \in DOMAIN queue' : k + 1 \in DOMAIN queue
    BY <2>3
  <2>6. ASSUME NEW key, Dealt(key)
        PROVE  \/ key \in fired'
               \/ /\ \E j \in DOMAIN queue' : SlotKey(queue'[j], tickNow') = key
                  /\ \A j \in DOMAIN queue' : queue'[j].set.workflow \notin Broken
    BY <2>1, <2>3, <2>4, <2>5, <2>6 DEF Dealt, HeadSlot
  <2>7. Kept
    BY <1>0, <2>1, <2>2, <2>6 DEF InTime, Dealt
  <2>. QED BY <2>1, <2>7, StepInTime DEF Alive
<1>9. CASE Raise \/ EndTick
  <2>1. /\ thread = "tick" /\ thread' = "wait" /\ rest' = Interval
        /\ UNCHANGED <<now, schedules, edited, stop, since, fired>>
    BY <1>9 DEF Raise, EndTick, Rest
  <2>2. Latest = now + rest + Interval /\ Latest' = now + Interval + 0
    BY <2>1 DEF Latest
  <2>3. Latest' <= Latest /\ Latest' \in Nat /\ Latest \in Nat
    BY <2>2, ClockIs, SMTT(20)
  <2>4. \A key : Dealt(key) => key \in fired
    <3>1. CASE queue = <<>>
      BY <3>1, EmptySeq DEF Dealt
    <3>2. CASE queue # <<>>
      <4>1. Head(queue).set.workflow \in Broken
        BY <1>9, <3>2 DEF Raise, EndTick
      <4>2. 1 \in DOMAIN queue /\ Head(queue) = queue[1]
        BY <3>2, SMTT(20) DEF ScheduleTyped, SchedulerTypeOK
      <4>. QED BY <4>1, <4>2 DEF Dealt
    <3>. QED BY <3>1, <3>2
  <2>5. Kept
    <3>. SUFFICES ASSUME NEW i \in DOMAIN schedules, NEW d \in 0 .. Day(LastMinute),
                         InTime(i, d)
                  PROVE  InTime(i, d)'
      OBVIOUS
    <3>. DEFINE T == SlotTime(Key(i, d))
    <3>1. T' = T /\ T \in Nat /\ Key(i, d)' = Key(i, d)
      BY <1>0, <2>1, SlotIs
    <3>2. CASE Dealt(Key(i, d))
      BY <2>1, <2>4, <3>1, <3>2 DEF InTime, Dealt
    <3>3. CASE Latest < T + Interval + MaxTick
      <4>. HIDE DEF T
      <4>1. Latest' < T' + Interval + MaxTick
        BY <2>3, <3>1, <3>3, ClockIs
      <4>. QED BY <4>1 DEF InTime, T
    <3>. QED BY <3>2, <3>3 DEF InTime
  <2>. QED BY <2>1, <2>5, StepInTime DEF Alive
<1>10. CASE Pass \/ SetBack
  <2>1. UNCHANGED <<schedules, edited, thread, stop, since, fired, queue, tickNow>>
    BY <1>10 DEF Pass, SetBack
  <2>2. Alive => Latest' <= Latest /\ Latest' \in Nat /\ Latest \in Nat
    <3>. SUFFICES ASSUME Alive PROVE Latest' <= Latest /\ Latest' \in Nat /\ Latest \in Nat
      OBVIOUS
    <3>. DEFINE more == IF thread \in {"tick", "mark"} THEN Interval ELSE 0
    <3>1. now \in Nat /\ rest \in Nat /\ more \in Nat /\ Latest \in Nat
      BY ClockIs
    <3>4. Latest = now + rest + more /\ Latest' = now' + rest' + more
      BY <2>1 DEF Latest
    <3>. HIDE DEF more
    <3>2. CASE Pass
      <4>1. now' = now + 1 /\ rest > 0 /\ rest' = rest - 1
        BY <3>2 DEF Pass
      <4>. QED BY <3>1, <3>4, <4>1
    <3>3. CASE SetBack
      <4>1. now' \in 0 .. now - 1 /\ rest' = rest
        BY <3>3 DEF SetBack
      <4>2. now' \in Nat /\ now' <= now /\ rest' \in Nat /\ rest' = rest
        BY <3>1, <4>1
      <4>3. ASSUME NEW n \in Nat, n <= now
            PROVE  n + rest + more <= now + rest + more /\ n + rest + more \in Nat
        BY <3>1, <4>3
      <4>. QED BY <3>1, <3>4, <4>2, <4>3
    <3>. QED BY <1>10, <3>2, <3>3
  <2>3. Kept
    <3>. SUFFICES ASSUME NEW i \in DOMAIN schedules, NEW d \in 0 .. Day(LastMinute),
                         InTime(i, d), Alive
                  PROVE  InTime(i, d)'
      BY <2>1 DEF Alive
    <3>. DEFINE T == SlotTime(Key(i, d))
    <3>1. T' = T /\ T \in Nat /\ Key(i, d)' = Key(i, d)
      BY <1>0, <2>1, SlotIs
    <3>2. CASE Dealt(Key(i, d))
      BY <2>1, <3>1, <3>2 DEF InTime, Dealt, SlotKey
    <3>3. CASE Latest < T + Interval + MaxTick
      <4>. HIDE DEF T
      <4>1. Latest' < T' + Interval + MaxTick
        BY <2>2, <3>1, <3>3, ClockIs
      <4>. QED BY <4>1 DEF InTime, T
    <3>. QED BY <3>2, <3>3 DEF InTime
  <2>. QED BY <2>1, <2>3, StepInTime DEF Alive
<1>. QED BY <1>1, <1>2, <1>3, <1>4, <1>5, <1>6, <1>7, <1>8, <1>9, <1>10 DEF SchedulerNext

LEMMA InTimeIsNotMissed ==
  ASSUME ScheduleTyped, InTimeInv
  PROVE  NoSlotIsMissed
<1>. SUFFICES ASSUME NEW i \in DOMAIN schedules, NEW d \in 0 .. Day(LastMinute), Open(i, d),
                     SlotTime(Key(i, d)) + Grace <= now
              PROVE  Key(i, d) \in
                       fired \cup {SlotKey(queue[j], tickNow) : j \in DOMAIN queue}
  BY DEF NoSlotIsMissed, Open, Key
<1>. DEFINE T == SlotTime(Key(i, d))
<1>1. T \in Nat /\ Interval + MaxTick <= Grace /\ Grace \in Nat
  BY SlotIs, ScheduleConstants DEF Open
<1>. HIDE DEF T
<1>2. now <= Latest
  BY ClockIs DEF Latest
<1>3. ~(Latest < T + Interval + MaxTick)
  BY <1>1, <1>2, ClockIs, SMTT(20) DEF T
<1>4. Dealt(Key(i, d))
  BY <1>3 DEF InTimeInv, InTime, T
<1>. QED BY <1>4 DEF Dealt

\* Types, and: when the window of a slot has passed, and the driver has run and its entry has been
\* there since before, the slot has been dealt with, however the clock is set back, runs come and
\* go, and the driver is stopped, started or killed; if the window is not shorter than an interval
\* and a tick, which do not end after the slot's day, and if no workflow's admission raises.
THEOREM NoSlotIsLost == SchedulerSpec => []ScheduleInv
<1>1. SchedulerInit => ScheduleTyped /\ InTimeInv
  BY ScheduleBegins, InTimeBegins
<1>2. ScheduleTyped /\ InTimeInv /\ [SchedulerNext]_schedulerVars => ScheduleTyped' /\ InTimeInv'
  BY ScheduleKeepsTypes, InTimeKept
<1>3. ScheduleTyped /\ InTimeInv => ScheduleInv
  BY InTimeIsNotMissed DEF ScheduleTyped, ScheduleInv
<1>. QED BY <1>1, <1>2, <1>3, PTL DEF SchedulerSpec
===============================================================================
