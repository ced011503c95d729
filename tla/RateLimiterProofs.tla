------------------------- MODULE RateLimiterProofs -------------------------
(***************************************************************************)
(* What is proved of RateLimiter, for any number of threads, processes and *)
(* calls: the bound on the requests of a process and their spacing, the    *)
(* penalties, and that no call is submitted twice.                         *)
(***************************************************************************)
EXTENDS RateLimiter, FiniteSetTheorems, TLAPS

USE RateAssumption DEF RateAssumption

(***************************************************************************)
(* A place of the semaphore is taken by every thread between the           *)
(* acquisition and the release, and by no other.                           *)
(***************************************************************************)
Inside(p) == In(p, {"enter", "asleep", "sending", "leave"})

Places ==
  /\ DOMAIN pc = Threads /\ DOMAIN semaphore = Processes
  /\ \A p \in Processes :
       /\ semaphore[p] \in Nat
       /\ semaphore[p] + Cardinality(Inside(p)) = MaxConcurrency

LEMMA ProcessKnown == \A t \in Threads : ProcessOf[t] \in Processes
  BY DEF Processes

LEMMA InsideFinite ==
  \A p : IsFiniteSet(Inside(p)) /\ Cardinality(Inside(p)) \in Nat
<1> SUFFICES ASSUME NEW p
             PROVE  IsFiniteSet(Inside(p)) /\ Cardinality(Inside(p)) \in Nat
  OBVIOUS
<1>1. Inside(p) \subseteq Threads
  BY DEF Inside, In
<1>2. IsFiniteSet(Inside(p))
  BY <1>1, FS_Subset
<1>3. QED
  BY <1>2, FS_CardinalityType

LEMMA InitPlaces == Init => Places
<1> SUFFICES ASSUME Init PROVE Places
  OBVIOUS
<1>1. \A p : Inside(p) = {}
  BY DEF Init, Inside, In
<1>2. \A p : Cardinality(Inside(p)) = 0
  BY <1>1, FS_EmptySet
<1>3. DOMAIN pc = Threads /\ semaphore = [p \in Processes |-> MaxConcurrency]
  BY DEF Init
<1>4. QED
  BY <1>2, <1>3 DEF Places

\* A step that moves no thread across the semaphore leaves every place where it is.
LEMMA NobodyMoves ==
  ASSUME Places, UNCHANGED semaphore, DOMAIN pc' = Threads,
         \A t \in Threads : pc'[t] \in {"enter", "asleep", "sending", "leave"}
                           <=> pc[t] \in {"enter", "asleep", "sending", "leave"}
  PROVE  Places'
<1>1. \A p : Inside(p)' = Inside(p)
  BY DEF Inside, In
<1>2. QED
  BY <1>1 DEF Places

LEMMA AcquirePlaces ==
  ASSUME Places, NEW t \in Threads, Acquire(t)
  PROVE  Places'
<1> DEFINE q == ProcessOf[t]
<1>1. /\ q \in Processes /\ semaphore[q] > 0 /\ pc[t] = "queue"
      /\ pc' = [pc EXCEPT ![t] = "enter"] /\ semaphore' = [semaphore EXCEPT ![q] = @ - 1]
  BY ProcessKnown DEF Acquire, Go
<1>2. ASSUME NEW p \in Processes, p # q
      PROVE  Inside(p)' = Inside(p) /\ semaphore'[p] = semaphore[p]
  BY <1>1, <1>2 DEF Inside, In, Places
<1>3. Inside(q)' = Inside(q) \cup {t} /\ t \notin Inside(q)
  BY <1>1 DEF Inside, In, Places
<1>4. Cardinality(Inside(q)') = Cardinality(Inside(q)) + 1
  BY <1>3, InsideFinite, FS_AddElement
<1>5. semaphore'[q] = semaphore[q] - 1
  BY <1>1 DEF Places
<1>6. semaphore'[q] \in Nat /\ semaphore'[q] + Cardinality(Inside(q)') = MaxConcurrency
  BY <1>1, <1>4, <1>5, InsideFinite DEF Places
<1>7. QED
  BY <1>1, <1>2, <1>6 DEF Places

LEMMA LeavePlaces ==
  ASSUME Places, NEW t \in Threads, Leave(t)
  PROVE  Places'
<1> DEFINE q == ProcessOf[t]
<1>1. /\ q \in Processes /\ pc[t] = "leave"
      /\ pc' = [pc EXCEPT ![t] = NextOf(t)] /\ semaphore' = [semaphore EXCEPT ![q] = @ + 1]
  BY ProcessKnown DEF Leave, Goes, Go
<1>a. NextOf(t) \in {"penalize", "rest", "idle", "fetch", "queue"}
  BY DEF NextOf, PlaceAfter, Place
<1>2. ASSUME NEW p \in Processes, p # q
      PROVE  Inside(p)' = Inside(p) /\ semaphore'[p] = semaphore[p]
  BY <1>1, <1>2 DEF Inside, In, Places
<1>3. Inside(q)' = Inside(q) \ {t} /\ t \in Inside(q)
  BY <1>1, <1>a DEF Inside, In, Places
<1>4. Cardinality(Inside(q)') = Cardinality(Inside(q)) - 1
  <2>1. IsFiniteSet(Inside(q))
    BY InsideFinite
  <2>2. Cardinality(Inside(q) \ {t})
          = IF t \in Inside(q) THEN Cardinality(Inside(q)) - 1 ELSE Cardinality(Inside(q))
    BY <2>1, FS_RemoveElement
  <2>3. QED
    BY <1>3, <2>2
<1>5. semaphore'[q] = semaphore[q] + 1
  BY <1>1 DEF Places
<1>6. semaphore'[q] \in Nat /\ semaphore'[q] + Cardinality(Inside(q)') = MaxConcurrency
  BY <1>1, <1>4, <1>5, InsideFinite DEF Places
<1>7. QED
  BY <1>1, <1>2, <1>6 DEF Places

LEMMA OthersPlaces ==
  ASSUME Places, NEW t \in Threads, NEW k,
         Enter(t) \/ Start(t) \/ Respond(t) \/ Penalize(t) \/ Poll(t) \/ GiveUp(t) \/ Fetch(t)
           \/ Call(t, k)
  PROVE  Places'
<1> USE NobodyMoves DEF Places, Goes, Go, callVars, stateVars
<1>1. CASE Enter(t) BY <1>1 DEF Enter
<1>2. CASE Start(t) BY <1>2 DEF Start
<1>3. CASE Respond(t) BY <1>3 DEF Respond, Answer
<1>4. CASE Penalize(t) BY <1>4 DEF Penalize
<1>5. CASE Poll(t) BY <1>5 DEF Poll
<1>6. CASE GiveUp(t) BY <1>6 DEF GiveUp
<1>7. CASE Call(t, k) BY <1>7 DEF Call, Place
<1>8. CASE Fetch(t) BY <1>8 DEF Fetch, PlaceAfter, Place
<1>9. QED
  BY <1>1, <1>2, <1>3, <1>4, <1>5, <1>6, <1>7, <1>8

LEMMA NextPlaces == Places /\ [Next]_vars => Places'
<1> SUFFICES ASSUME Places, [Next]_vars PROVE Places'
  OBVIOUS
<1>1. CASE Tick
  BY <1>1, NobodyMoves DEF Tick, Places
<1>2. CASE UNCHANGED vars
  BY <1>2, NobodyMoves DEF vars, stateVars, Places
<1>3. ASSUME NEW t \in Threads, Proceed(t)
      PROVE  Places'
  BY <1>3, AcquirePlaces, LeavePlaces, OthersPlaces DEF Proceed
<1>4. ASSUME NEW t \in Threads, NEW k \in KindsOf[t], Call(t, k)
      PROVE  Places'
  BY <1>4, OthersPlaces
<1>5. QED
  BY <1>1, <1>2, <1>3, <1>4 DEF Next

LEMMA PlacesBound == Places => ConcurrencyHolds
<1> SUFFICES ASSUME Places, NEW p \in Processes
             PROVE  Cardinality(In(p, {"asleep", "sending"})) <= MaxConcurrency
  BY DEF ConcurrencyHolds
<1>1. In(p, {"asleep", "sending"}) \subseteq Inside(p)
  BY DEF Inside, In
<1>2. Cardinality(In(p, {"asleep", "sending"})) <= Cardinality(Inside(p))
  BY <1>1, InsideFinite, FS_Subset
<1>3. IsFiniteSet(In(p, {"asleep", "sending"}))
  BY <1>1, InsideFinite, FS_Subset
<1>4. Cardinality(In(p, {"asleep", "sending"})) \in Nat
  BY <1>3, FS_CardinalityType
<1>5. QED
  BY <1>2, <1>4, InsideFinite DEF Places

\* A child never has more requests with a provider than it allows, however many threads call,
\* retry, poll and fail.
THEOREM ConcurrencyIsBounded == Spec => []ConcurrencyHolds
BY PlacesBound, InitPlaces, NextPlaces, PTL DEF Spec

(***************************************************************************)
(* A thread that sleeps holds the lock of its process, and sleeps at least *)
(* for what is left of the penalty and of the interval: nobody else can    *)
(* prolong either.                                                         *)
(***************************************************************************)
TimeType ==
  /\ DOMAIN pc = Threads /\ DOMAIN lock = Processes
  /\ sleep \in [Threads -> Nat] /\ retryAfter \in [Threads -> Nat]
  /\ notBefore \in [Processes -> Nat] /\ pace \in [Processes -> Nat]

SleepsLongEnough(t) ==
  pc[t] = "asleep" => lock[ProcessOf[t]] = t /\ Wait(ProcessOf[t]) <= sleep[t]

Paced == TimeType /\ \A t \in Threads : SleepsLongEnough(t)

LEMMA InitPaced == Init => Paced
  BY DEF Init, Paced, TimeType, SleepsLongEnough

LEMMA NextTime == TimeType /\ [Next]_vars => TimeType'
<1> SUFFICES ASSUME TimeType, [Next]_vars PROVE TimeType'
  OBVIOUS
<1> USE ProcessKnown DEF TimeType, Goes, Go, callVars, stateVars
<1>1. CASE Tick BY <1>1 DEF Tick, Less
<1>2. CASE UNCHANGED vars BY <1>2 DEF vars
<1>3. ASSUME NEW t \in Threads, Proceed(t) PROVE TimeType'
  <2>1. CASE Acquire(t) BY <2>1 DEF Acquire
  <2>2. CASE Enter(t) BY <2>2 DEF Enter, Wait
  <2>3. CASE Start(t) BY <2>3 DEF Start
  <2>4. CASE Respond(t) BY <2>4 DEF Respond, Answer
  <2>5. CASE Leave(t) BY <2>5 DEF Leave
  <2>6. CASE Penalize(t) BY <2>6 DEF Penalize
  <2>7. CASE Poll(t) BY <2>7 DEF Poll
  <2>8. CASE GiveUp(t) BY <2>8 DEF GiveUp
  <2>9. CASE Fetch(t) BY <2>9 DEF Fetch, PlaceAfter, Place
  <2>10. QED
    BY <1>3, <2>1, <2>2, <2>3, <2>4, <2>5, <2>6, <2>7, <2>8, <2>9 DEF Proceed
<1>4. ASSUME NEW t \in Threads, NEW k \in KindsOf[t], Call(t, k) PROVE TimeType'
  BY <1>4 DEF Call
<1>5. QED
  BY <1>1, <1>2, <1>3, <1>4 DEF Next

LEMMA NextSleeps ==
  ASSUME Paced, [Next]_vars, NEW u \in Threads
  PROVE  SleepsLongEnough(u)'
<1> DEFINE p == ProcessOf[u]
<1> USE ProcessKnown DEF Paced, TimeType, SleepsLongEnough, Wait, Goes, Go, callVars, stateVars
<1>1. CASE Tick
  BY <1>1 DEF Tick, Less
<1>2. CASE UNCHANGED vars
  BY <1>2 DEF vars
<1>3. ASSUME NEW t \in Threads, Proceed(t) PROVE SleepsLongEnough(u)'
  <2>1. CASE Acquire(t) BY <2>1 DEF Acquire
  <2>2. CASE Enter(t)
    <3>1. CASE u = t BY <2>2, <3>1 DEF Enter
    <3>2. CASE u # t /\ ProcessOf[t] # p BY <2>2, <3>2 DEF Enter
    <3>3. CASE u # t /\ ProcessOf[t] = p
      <4>1. pc[u] # "asleep" /\ pc'[u] = pc[u]
        BY <2>2, <3>3 DEF Enter
      <4>2. QED
        BY <4>1
    <3>4. QED
      BY <3>1, <3>2, <3>3
  <2>3. CASE Start(t)
    <3>1. CASE u = t BY <2>3, <3>1 DEF Start
    <3>2. CASE u # t /\ ProcessOf[t] # p BY <2>3, <3>2 DEF Start
    <3>3. CASE u # t /\ ProcessOf[t] = p
      <4>1. pc[u] # "asleep" /\ pc'[u] = pc[u]
        BY <2>3, <3>3 DEF Start
      <4>2. QED
        BY <4>1
    <3>4. QED
      BY <3>1, <3>2, <3>3
  <2>4. CASE Respond(t) BY <2>4 DEF Respond, Answer
  <2>5. CASE Leave(t) BY <2>5 DEF Leave, NextOf, PlaceAfter, Place
  <2>6. CASE Penalize(t)
    <3>1. CASE ProcessOf[t] # p BY <2>6, <3>1 DEF Penalize
    <3>2. CASE ProcessOf[t] = p
      <4>1. pc[u] # "asleep"
        BY <2>6, <3>2 DEF Penalize
      <4>2. pc'[u] # "asleep"
        BY <2>6, <4>1 DEF Penalize
      <4>3. QED
        BY <4>2
    <3>3. QED
      BY <3>1, <3>2
  <2>7. CASE Poll(t) BY <2>7 DEF Poll
  <2>8. CASE GiveUp(t) BY <2>8 DEF GiveUp
  <2>9. CASE Fetch(t) BY <2>9 DEF Fetch, PlaceAfter, Place
  <2>10. QED
    BY <1>3, <2>1, <2>2, <2>3, <2>4, <2>5, <2>6, <2>7, <2>8, <2>9 DEF Proceed
<1>4. ASSUME NEW t \in Threads, NEW k \in KindsOf[t], Call(t, k) PROVE SleepsLongEnough(u)'
  BY <1>4 DEF Call, Place
<1>5. QED
  BY <1>1, <1>2, <1>3, <1>4 DEF Next

LEMMA StartsWhenDue ==
  ASSUME Paced, [Next]_vars, NEW u \in Threads, pc[u] # "sending", pc'[u] = "sending"
  PROVE  Wait(ProcessOf[u]) = 0
<1> USE ProcessKnown DEF Paced, TimeType, SleepsLongEnough, Wait, Goes, Go, callVars, stateVars
<1>1. CASE Tick BY <1>1 DEF Tick
<1>2. CASE UNCHANGED vars BY <1>2 DEF vars
<1>3. ASSUME NEW t \in Threads, Proceed(t) PROVE Wait(ProcessOf[u]) = 0
  <2>1. CASE Acquire(t) BY <2>1 DEF Acquire
  <2>2. CASE Enter(t) BY <2>2 DEF Enter
  <2>3. CASE Start(t) BY <2>3 DEF Start
  <2>4. CASE Respond(t) BY <2>4 DEF Respond, Answer
  <2>5. CASE Leave(t) BY <2>5 DEF Leave, NextOf, PlaceAfter, Place
  <2>6. CASE Penalize(t) BY <2>6 DEF Penalize
  <2>7. CASE Poll(t) BY <2>7 DEF Poll
  <2>8. CASE GiveUp(t) BY <2>8 DEF GiveUp
  <2>9. CASE Fetch(t) BY <2>9 DEF Fetch, PlaceAfter, Place
  <2>10. QED
    BY <1>3, <2>1, <2>2, <2>3, <2>4, <2>5, <2>6, <2>7, <2>8, <2>9 DEF Proceed
<1>4. ASSUME NEW t \in Threads, NEW k \in KindsOf[t], Call(t, k)
      PROVE  Wait(ProcessOf[u]) = 0
  BY <1>4 DEF Call, Place
<1>5. QED
  BY <1>1, <1>2, <1>3, <1>4 DEF Next

\* No request starts before the interval after the one before it, or a penalty its process knows
\* of, has run out, however many threads waited for it together.
THEOREM StartsSpaced == Spec => StartsAreSpaced
<1>1. Paced /\ [Next]_vars => Paced'
  BY NextTime, NextSleeps DEF Paced
<1>2. Paced /\ [Next]_vars
        => \A t \in Threads : pc[t] # "sending" /\ pc'[t] = "sending" => Wait(ProcessOf[t]) = 0
  BY StartsWhenDue
<1>3. QED
  BY <1>1, <1>2, InitPaced, PTL DEF Spec, StartsAreSpaced

(***************************************************************************)
(* The lock is free or a sleeper's, and active_holders counts the threads  *)
(* between the sleep and the exit of the slot.                             *)
(***************************************************************************)
Held(p) == In(p, {"asleep", "sending", "leave"})

HoldersInv ==
  /\ DOMAIN pc = Threads /\ DOMAIN holders = Processes /\ DOMAIN lock = Processes
  /\ \A p \in Processes : /\ holders[p] = Cardinality(Held(p))
                          /\ lock[p] \in {Free} \cup In(p, {"asleep"})

LEMMA HeldFinite == \A p : IsFiniteSet(Held(p)) /\ Cardinality(Held(p)) \in Nat
<1> SUFFICES ASSUME NEW p
             PROVE  IsFiniteSet(Held(p)) /\ Cardinality(Held(p)) \in Nat
  OBVIOUS
<1>1. Held(p) \subseteq Threads
  BY DEF Held, In
<1>2. IsFiniteSet(Held(p))
  BY <1>1, FS_Subset
<1>3. QED
  BY <1>2, FS_CardinalityType

LEMMA InitHolders == Init => HoldersInv
<1> SUFFICES ASSUME Init PROVE HoldersInv
  OBVIOUS
<1>1. \A p : Held(p) = {}
  BY DEF Init, Held, In
<1>2. \A p : Cardinality(Held(p)) = 0
  BY <1>1, FS_EmptySet
<1>3. /\ DOMAIN pc = Threads /\ holders = [p \in Processes |-> 0]
      /\ lock = [p \in Processes |-> Free]
  BY DEF Init
<1>4. QED
  BY <1>2, <1>3 DEF HoldersInv

\* What neither enters the slot nor leaves it, nor puts a thread to sleep or wakes it.
LEMMA NobodyEnters ==
  ASSUME HoldersInv, UNCHANGED <<holders, lock>>, DOMAIN pc' = Threads,
         \A t \in Threads : \A s \in {"asleep", "sending", "leave"} : pc'[t] = s <=> pc[t] = s
  PROVE  HoldersInv'
<1>1. \A p : Held(p)' = Held(p) /\ In(p, {"asleep"})' = In(p, {"asleep"})
  BY DEF Held, In
<1>2. QED
  BY <1>1 DEF HoldersInv

\* A step inside the slot.
LEMMA InsideHolders ==
  ASSUME HoldersInv, NEW t \in Threads, Start(t) \/ Respond(t)
  PROVE  HoldersInv'
<1> DEFINE q == ProcessOf[t]
<1>1. /\ q \in Processes /\ holders' = holders /\ DOMAIN pc' = Threads
      /\ pc[t] \in {"asleep", "sending"} /\ pc'[t] \in {"sending", "leave"}
      /\ \A u \in Threads \ {t} : pc'[u] = pc[u]
  BY ProcessKnown DEF Start, Respond, Answer, Go, stateVars, HoldersInv
<1>2. \A p : Held(p)' = Held(p)
  BY <1>1 DEF Held, In
<1>3. \A p \in Processes : holders'[p] = Cardinality(Held(p)')
  BY <1>1, <1>2 DEF HoldersInv
<1>4. DOMAIN lock' = Processes
  BY DEF Start, Respond, Answer, stateVars, HoldersInv
<1>5. ASSUME NEW p \in Processes
      PROVE  lock'[p] \in {Free} \cup In(p, {"asleep"})'
  <2>1. CASE Start(t)
    <3>1. CASE p = q
      BY <2>1, <3>1 DEF Start, HoldersInv
    <3>2. CASE p # q
      <4>1. lock'[p] = lock[p] /\ In(p, {"asleep"})' = In(p, {"asleep"})
        BY <1>1, <2>1, <3>2 DEF Start, HoldersInv, In
      <4>. QED BY <4>1 DEF HoldersInv
    <3>. QED BY <3>1, <3>2
  <2>2. CASE Respond(t)
    <3>1. lock' = lock /\ In(p, {"asleep"})' = In(p, {"asleep"})
      BY <1>1, <2>2 DEF Respond, Answer, Go, stateVars, In
    <3>. QED BY <3>1 DEF HoldersInv
  <2>. QED BY <2>1, <2>2
<1>. QED BY <1>1, <1>3, <1>4, <1>5 DEF HoldersInv

LEMMA EnterHolders ==
  ASSUME HoldersInv, NEW t \in Threads, Enter(t)
  PROVE  HoldersInv'
<1> DEFINE q == ProcessOf[t]
<1>1. /\ q \in Processes /\ lock[q] = Free /\ DOMAIN pc' = Threads
      /\ pc[t] = "enter" /\ pc'[t] \in {"asleep", "sending"}
      /\ \A u \in Threads \ {t} : pc'[u] = pc[u]
      /\ holders' = [holders EXCEPT ![q] = @ + 1]
      /\ lock' = lock \/ (lock' = [lock EXCEPT ![q] = t] /\ pc'[t] = "asleep")
  BY ProcessKnown DEF Enter, Go, HoldersInv
<1>2. ASSUME NEW p \in Processes, p # q
      PROVE  /\ holders'[p] = Cardinality(Held(p)')
             /\ lock'[p] \in {Free} \cup In(p, {"asleep"})'
  <2>1. Held(p)' = Held(p) /\ In(p, {"asleep"})' = In(p, {"asleep"})
    BY <1>1, <1>2 DEF Held, In
  <2>2. holders'[p] = holders[p] /\ lock'[p] = lock[p]
    BY <1>1, <1>2 DEF HoldersInv
  <2>. QED BY <2>1, <2>2 DEF HoldersInv
<1>3. holders'[q] = Cardinality(Held(q)')
  <2>1. Held(q)' = Held(q) \cup {t} /\ t \notin Held(q)
    BY <1>1 DEF Held, In
  <2>2. Cardinality(Held(q)') = Cardinality(Held(q)) + 1
    BY <2>1, HeldFinite, FS_AddElement
  <2>3. holders'[q] = holders[q] + 1 /\ holders[q] = Cardinality(Held(q))
    BY <1>1 DEF HoldersInv
  <2>. QED BY <2>2, <2>3
<1>4. lock'[q] \in {Free} \cup In(q, {"asleep"})'
  BY <1>1 DEF In, HoldersInv
<1>5. DOMAIN holders' = Processes /\ DOMAIN lock' = Processes
  BY <1>1 DEF HoldersInv
<1>. QED BY <1>1, <1>2, <1>3, <1>4, <1>5 DEF HoldersInv

LEMMA LeaveHolders ==
  ASSUME HoldersInv, NEW t \in Threads, Leave(t)
  PROVE  HoldersInv'
<1> DEFINE q == ProcessOf[t]
<1>1. /\ q \in Processes /\ lock' = lock /\ DOMAIN pc' = Threads
      /\ pc[t] = "leave" /\ pc'[t] = NextOf(t)
      /\ \A u \in Threads \ {t} : pc'[u] = pc[u]
      /\ holders' = [holders EXCEPT ![q] = @ - 1]
  BY ProcessKnown DEF Leave, Goes, Go, HoldersInv
<1>2. NextOf(t) \in {"penalize", "rest", "idle", "fetch", "queue"}
  BY DEF NextOf, PlaceAfter, Place
<1>3. \A p \in Processes : In(p, {"asleep"})' = In(p, {"asleep"})
  BY <1>1, <1>2 DEF In
<1>4. ASSUME NEW p \in Processes, p # q
      PROVE  holders'[p] = Cardinality(Held(p)')
  <2>1. Held(p)' = Held(p) /\ holders'[p] = holders[p]
    BY <1>1, <1>4 DEF Held, In
  <2>. QED BY <2>1 DEF HoldersInv
<1>5. holders'[q] = Cardinality(Held(q)')
  <2>1. Held(q)' = Held(q) \ {t} /\ t \in Held(q)
    BY <1>1, <1>2 DEF Held, In
  <2>2. Cardinality(Held(q) \ {t}) = Cardinality(Held(q)) - 1
    <3>1. Cardinality(Held(q) \ {t})
            = IF t \in Held(q) THEN Cardinality(Held(q)) - 1 ELSE Cardinality(Held(q))
      BY HeldFinite, FS_RemoveElement
    <3>. QED BY <2>1, <3>1
  <2>3. holders'[q] = holders[q] - 1 /\ holders[q] = Cardinality(Held(q))
    BY <1>1 DEF HoldersInv
  <2>. QED BY <2>1, <2>2, <2>3
<1>6. DOMAIN holders' = Processes
  BY <1>1 DEF HoldersInv
<1>. QED BY <1>1, <1>3, <1>4, <1>5, <1>6 DEF HoldersInv

LEMMA NextHolders == HoldersInv /\ [Next]_vars => HoldersInv'
<1> SUFFICES ASSUME HoldersInv, [Next]_vars PROVE HoldersInv'
  OBVIOUS
<1> USE DEF HoldersInv, Goes, Go, callVars, stateVars
<1>1. CASE Tick
  BY <1>1, NobodyEnters DEF Tick
<1>2. CASE UNCHANGED vars
  BY <1>2, NobodyEnters DEF vars
<1>3. ASSUME NEW t \in Threads, Proceed(t)
      PROVE  HoldersInv'
  <2>1. CASE Acquire(t) BY <2>1, NobodyEnters DEF Acquire
  <2>2. CASE Penalize(t) BY <2>2, NobodyEnters DEF Penalize
  <2>3. CASE Poll(t) BY <2>3, NobodyEnters DEF Poll
  <2>4. CASE GiveUp(t) BY <2>4, NobodyEnters DEF GiveUp
  <2>5. CASE Fetch(t) BY <2>5, NobodyEnters DEF Fetch, PlaceAfter, Place
  <2>. QED BY <1>3, <2>1, <2>2, <2>3, <2>4, <2>5, EnterHolders, LeaveHolders, InsideHolders
           DEF Proceed
<1>4. ASSUME NEW t \in Threads, NEW k \in KindsOf[t], Call(t, k)
      PROVE  HoldersInv'
  BY <1>4, NobodyEnters DEF Call, Place
<1>. QED BY <1>1, <1>2, <1>3, <1>4 DEF Next

(***************************************************************************)
(* The stages of a call: it is at one of its kind's, and what the provider *)
(* may have taken of it was submitted at an earlier one, or just now.      *)
(***************************************************************************)
LEMMA StagesFacts ==
  \A k \in Kinds :
    /\ Len(Stages[k]) \in Nat \ {0} /\ DOMAIN Stages[k] = 1 .. Len(Stages[k])
    /\ \A i, j \in DOMAIN Stages[k] : Stages[k][i] = "submit" /\ i < j => Stages[k][j] # "submit"
<1> DEFINE Fine(s) ==
      /\ Len(s) \in Nat \ {0} /\ DOMAIN s = 1 .. Len(s)
      /\ \A i, j \in DOMAIN s : s[i] = "submit" /\ i < j => s[j] # "submit"
<1>1. Fine(<<"submit">>)
  OBVIOUS
<1>2. Fine(<<"submit", "poll", "download">>)
  OBVIOUS
<1>3. Fine(<<"token", "submit">>)
  OBVIOUS
<1>4. Fine(<<"frame", "token", "submit", "poll">>)
  OBVIOUS
<1>5. Kinds = {"agent", "openai", "search", "byteplus", "minimax", "bfl", "imagen", "veo"}
  BY DEF Kinds, Stages
<1>6. /\ Stages["agent"] = <<"submit">> /\ Stages["openai"] = <<"submit">>
      /\ Stages["search"] = <<"submit">>
      /\ Stages["byteplus"] = <<"submit", "poll", "download">>
      /\ Stages["minimax"] = <<"submit", "poll", "download">>
      /\ Stages["bfl"] = <<"submit", "poll", "download">>
      /\ Stages["imagen"] = <<"token", "submit">>
      /\ Stages["veo"] = <<"frame", "token", "submit", "poll">>
  BY DEF Stages, Agent, OpenAi, Search, BytePlus, MiniMax, Bfl, Imagen, Veo
<1> HIDE DEF Fine
<1>7. \A k \in Kinds : Fine(Stages[k])
  BY <1>1, <1>2, <1>3, <1>4, <1>5, <1>6
<1>. QED BY <1>7 DEF Fine

Calling == [kind : Kinds, stage : Nat, attempt : 1 .. MaxAttempts, deadline : 0 .. PollTimeout,
            accepted : {0, 1}]

CallType ==
  /\ DOMAIN pc = Threads /\ answer \in [Threads -> Answers] /\ DOMAIN call = Threads
  /\ \A t \in Threads : call[t] \in Calling /\ call[t].stage \in DOMAIN StagesOf(t)

Submitted(t) ==
  \/ \E i \in DOMAIN StagesOf(t) : i < call[t].stage /\ StagesOf(t)[i] = "submit"
  \/ Stage(t) = "submit" /\ pc[t] = "leave" /\ answer[t] \in {"ok", "lost"}

CallInv == CallType /\ \A t \in Threads : call[t].accepted = 1 => Submitted(t)

LEMMA NoCallFits == NoCall \in Calling /\ NoCall.stage \in DOMAIN Stages[NoCall.kind]
<1>1. "agent" \in Kinds
  BY DEF Kinds, Stages
<1>2. 1 \in DOMAIN Stages["agent"]
  BY <1>1, StagesFacts
<1>. QED BY <1>1, <1>2 DEF NoCall, Calling

LEMMA InitCalls == Init => CallInv
  BY NoCallFits DEF Init, CallInv, CallType, Answers, StagesOf, NoCall

\* What a step leaves to the threads it does not concern.
LEMMA CallKept ==
  ASSUME CallInv, NEW u \in Threads, call'[u] = call[u], pc'[u] = pc[u], answer'[u] = answer[u]
  PROVE  /\ call'[u] \in Calling /\ call'[u].stage \in DOMAIN StagesOf(u)'
         /\ call'[u].accepted = 1 => Submitted(u)'
BY DEF CallInv, CallType, Submitted, StagesOf, Stage

\* A call that is over, or stays in its stage.
LEMMA CallGoesOn ==
  ASSUME CallInv, NEW t \in Threads, call'[t] \in Calling, pc[t] # "leave",
         \/ call'[t] = NoCall
         \/ /\ call'[t].kind = call[t].kind /\ call'[t].stage = call[t].stage
            /\ call'[t].accepted = call[t].accepted
  PROVE  /\ call'[t].stage \in DOMAIN StagesOf(t)'
         /\ call'[t].accepted = 1 => Submitted(t)'
<1>1. CASE call'[t] = NoCall
  BY <1>1, NoCallFits DEF NoCall, StagesOf
<1>2. CASE /\ call'[t].kind = call[t].kind /\ call'[t].stage = call[t].stage
           /\ call'[t].accepted = call[t].accepted
  BY <1>2 DEF CallInv, CallType, Submitted, StagesOf, Stage
<1>. QED BY <1>1, <1>2

\* The next stage of a call.
LEMMA CallMovesOn ==
  ASSUME CallInv, NEW t \in Threads, call'[t] = NextStage(t), ~IsLast(t)
  PROVE  /\ call'[t] \in Calling /\ call'[t].stage \in DOMAIN StagesOf(t)'
         /\ call'[t].accepted = 1 => Submitted(t)'
<1>1. /\ call[t] \in Calling /\ call[t].kind \in Kinds /\ call[t].stage \in Nat
      /\ call[t].stage \in DOMAIN Stages[call[t].kind]
  BY DEF CallInv, CallType, StagesOf, Calling
<1>2. /\ call'[t] \in Calling /\ call'[t].kind = call[t].kind
      /\ call'[t].stage = call[t].stage + 1 /\ call'[t].accepted = call[t].accepted
  <2> DEFINE d == IF PlaceAfter(t) = "rest" THEN PollTimeout ELSE call[t].deadline
  <2>1. d \in 0 .. PollTimeout
    BY <1>1 DEF Calling
  <2>2. call'[t] = [call[t] EXCEPT !.stage = call[t].stage + 1, !.deadline = d]
    BY <1>1 DEF NextStage
  <2> HIDE DEF d
  <2> DEFINE c == call[t]
  <2>3. c \in Calling /\ call'[t] = [c EXCEPT !.stage = c.stage + 1, !.deadline = d]
    BY <1>1, <2>2
  <2> HIDE DEF c
  <2> DEFINE b == [c EXCEPT !.stage = c.stage + 1]
  <2>4. b \in Calling /\ b.kind = c.kind /\ b.stage = c.stage + 1 /\ b.accepted = c.accepted
    BY <2>3 DEF Calling
  <2>5. call'[t] = [b EXCEPT !.deadline = d]
    BY <2>3
  <2> HIDE DEF b
  <2>6. /\ call'[t] \in Calling /\ call'[t].kind = c.kind
        /\ call'[t].stage = c.stage + 1 /\ call'[t].accepted = c.accepted
    BY <2>1, <2>4, <2>5 DEF Calling
  <2>. QED BY <2>6 DEF c
<1>3. call'[t].stage \in DOMAIN StagesOf(t)'
  BY <1>1, <1>2, StagesFacts DEF IsLast, StagesOf
<1>4. ASSUME call[t].accepted = 1
      PROVE  \E i \in DOMAIN Stages[call[t].kind] :
               i < call[t].stage + 1 /\ Stages[call[t].kind][i] = "submit"
  <2>1. CASE Stage(t) = "submit"
    BY <1>1, <2>1 DEF Stage, StagesOf
  <2>2. CASE Stage(t) # "submit"
    <3>1. PICK i \in DOMAIN Stages[call[t].kind] :
            i < call[t].stage /\ Stages[call[t].kind][i] = "submit"
      BY <1>4, <2>2 DEF CallInv, Submitted, StagesOf
    <3>2. i \in Nat
      BY <1>1, StagesFacts
    <3>. QED BY <1>1, <3>1, <3>2
  <2>. QED BY <2>1, <2>2
<1>. QED BY <1>2, <1>3, <1>4 DEF Submitted, StagesOf

LEMMA NextCalls ==
  ASSUME CallInv, [Next]_vars
  PROVE  CallInv'
<1> DEFINE Well(u) == /\ call'[u] \in Calling /\ call'[u].stage \in DOMAIN StagesOf(u)'
                      /\ call'[u].accepted = 1 => Submitted(u)'
           Typed == /\ DOMAIN pc' = Threads /\ DOMAIN call' = Threads
                    /\ answer' \in [Threads -> Answers]
<1>0. /\ DOMAIN pc = Threads /\ answer \in [Threads -> Answers] /\ DOMAIN call = Threads
      /\ \A u \in Threads : call[u] \in Calling
  BY DEF CallInv, CallType
<1>1. (Typed /\ \A u \in Threads : Well(u)) => CallInv'
  BY DEF CallInv, CallType
<1> HIDE DEF Well
<1>2. ASSUME NEW t \in Threads,
             DOMAIN pc' = Threads, DOMAIN call' = Threads, answer' \in [Threads -> Answers],
             \A u \in Threads \ {t} :
               call'[u] = call[u] /\ pc'[u] = pc[u] /\ answer'[u] = answer[u],
             Well(t)
      PROVE  CallInv'
  <2>1. \A u \in Threads \ {t} : Well(u)
    BY <1>2, CallKept DEF Well
  <2>. QED BY <1>1, <1>2, <2>1
<1>3. CASE UNCHANGED vars
  <2>1. \A u \in Threads : Well(u)
    BY <1>3, CallKept DEF Well, vars, callVars
  <2>. QED BY <1>0, <1>1, <1>3, <2>1 DEF vars, callVars
<1>4. CASE Tick
  <2>1. DOMAIN pc' = Threads /\ DOMAIN call' = Threads /\ answer' \in [Threads -> Answers]
    BY <1>0, <1>4 DEF Tick
  <2>2. ASSUME NEW u \in Threads
        PROVE  Well(u)
    <3>1. /\ call'[u] = [call[u] EXCEPT !.deadline = Less(call[u].deadline)]
          /\ pc' = pc /\ answer' = answer
      BY <1>4 DEF Tick
    <3>2. Less(call[u].deadline) \in 0 .. PollTimeout
      BY <1>0 DEF Less, Calling
    <3>3. /\ call'[u] \in Calling /\ call'[u].kind = call[u].kind
          /\ call'[u].stage = call[u].stage /\ call'[u].accepted = call[u].accepted
      BY <1>0, <3>1, <3>2 DEF Calling
    <3>. QED BY <3>1, <3>3 DEF Well, CallInv, CallType, Submitted, StagesOf, Stage
  <2>. QED BY <1>1, <2>1, <2>2
<1>5. ASSUME NEW t \in Threads, NEW k \in KindsOf[t], Call(t, k)
      PROVE  CallInv'
  <2>1. /\ call' = [call EXCEPT ![t] = [NoCall EXCEPT !.kind = k]] /\ answer' = answer
        /\ DOMAIN pc' = Threads /\ \A u \in Threads \ {t} : pc'[u] = pc[u]
        /\ k \in Kinds
    BY <1>0, <1>5 DEF Call, Goes, Go, Place
  <2>2. call'[t] \in Calling /\ call'[t].stage = 1 /\ call'[t].kind = k /\ call'[t].accepted = 0
    BY <1>0, <2>1, NoCallFits DEF NoCall, Calling
  <2>3. Well(t)
    BY <2>1, <2>2, StagesFacts DEF Well, StagesOf
  <2>. QED BY <1>0, <1>2, <2>1, <2>3
<1>6. ASSUME NEW t \in Threads, Proceed(t)
      PROVE  CallInv'
  <2>1. CASE Acquire(t) \/ Enter(t) \/ Start(t)
    <3>1. /\ call' = call /\ answer' = answer /\ pc[t] # "leave"
          /\ DOMAIN pc' = Threads /\ \A u \in Threads \ {t} : pc'[u] = pc[u]
      BY <1>0, <2>1 DEF Acquire, Enter, Start, Go, callVars
    <3>2. Well(t)
      BY <1>0, <3>1, CallGoesOn DEF Well
    <3>. QED BY <1>0, <1>2, <3>1, <3>2
  <2>2. CASE Respond(t)
    <3>1. PICK a \in Answers \ {"none"}, after \in 0 .. MaxRetryAfter : Answer(t, a, after)
      BY <2>2 DEF Respond
    <3> DEFINE n == IF Stage(t) = "submit" /\ a \in {"ok", "lost"} THEN call[t].accepted + 1
                    ELSE call[t].accepted
    <3>2. /\ pc[t] = "sending" /\ pc' = [pc EXCEPT ![t] = "leave"]
          /\ answer' = [answer EXCEPT ![t] = a]
          /\ call' = [call EXCEPT ![t] = [call[t] EXCEPT !.accepted = n]]
      BY <3>1, <1>0 DEF Answer, Go
    <3>3. /\ call[t].kind \in Kinds /\ call[t].stage \in DOMAIN Stages[call[t].kind]
          /\ call[t].accepted \in {0, 1}
      BY <1>0 DEF CallInv, CallType, StagesOf, Calling
    <3>4. call[t].accepted = 1 =>
            \E i \in DOMAIN Stages[call[t].kind] :
              i < call[t].stage /\ Stages[call[t].kind][i] = "submit"
      BY <3>2 DEF CallInv, Submitted, StagesOf
    <3>5. Stage(t) = "submit" => call[t].accepted = 0
      BY <3>3, <3>4, StagesFacts DEF Stage, StagesOf
    <3>6. /\ n \in {0, 1}
          /\ n = 1 => call[t].accepted = 1 \/ (Stage(t) = "submit" /\ a \in {"ok", "lost"})
      BY <3>3, <3>5
    <3> HIDE DEF n
    <3>7. /\ call'[t] \in Calling /\ call'[t].kind = call[t].kind
          /\ call'[t].stage = call[t].stage /\ call'[t].accepted = n
          /\ pc'[t] = "leave" /\ answer'[t] = a
      BY <1>0, <3>2, <3>6 DEF Calling
    <3>8. call'[t].accepted = 1 => Submitted(t)'
      BY <3>4, <3>6, <3>7 DEF Submitted, StagesOf, Stage
    <3>9. Well(t)
      BY <3>3, <3>7, <3>8 DEF Well, StagesOf
    <3>10. /\ DOMAIN pc' = Threads /\ DOMAIN call' = Threads /\ answer' \in [Threads -> Answers]
           /\ \A u \in Threads \ {t} :
                call'[u] = call[u] /\ pc'[u] = pc[u] /\ answer'[u] = answer[u]
      BY <1>0, <3>1, <3>2
    <3>. QED BY <1>2, <3>9, <3>10
  <2>3. CASE Leave(t)
    <3>1. /\ pc[t] = "leave" /\ pc' = [pc EXCEPT ![t] = NextOf(t)]
          /\ answer' = [answer EXCEPT ![t] = "none"]
          /\ call' = [call EXCEPT ![t] = IF NextOf(t) = "idle" THEN NoCall
                                         ELSE IF answer[t] = "ok" THEN NextStage(t) ELSE call[t]]
      BY <2>3 DEF Leave, Goes, Go
    <3>2. Well(t)
      <4>1. CASE NextOf(t) = "idle"
        <5>1. call'[t] = NoCall
          BY <1>0, <3>1, <4>1
        <5>. QED BY <5>1, NoCallFits DEF Well, NoCall, StagesOf
      <4>2. CASE NextOf(t) # "idle" /\ answer[t] = "ok"
        <5>1. ~IsLast(t)
          BY <4>2 DEF NextOf, PlaceAfter
        <5>2. call'[t] = NextStage(t)
          BY <1>0, <3>1, <4>2
        <5>. QED BY <5>1, <5>2, CallMovesOn DEF Well
      <4>3. CASE NextOf(t) # "idle" /\ answer[t] # "ok"
        <5>1. call'[t] = call[t]
          BY <1>0, <3>1, <4>3
        <5>2. answer[t] # "lost"
          BY <4>3 DEF NextOf
        <5>3. call[t].accepted = 1 =>
                \E i \in DOMAIN StagesOf(t) : i < call[t].stage /\ StagesOf(t)[i] = "submit"
          BY <4>3, <5>2 DEF CallInv, Submitted
        <5>. QED BY <1>0, <5>1, <5>3 DEF Well, CallInv, CallType, Submitted, StagesOf
      <4>. QED BY <4>1, <4>2, <4>3
    <3>3. /\ DOMAIN pc' = Threads /\ DOMAIN call' = Threads /\ answer' \in [Threads -> Answers]
          /\ \A u \in Threads \ {t} :
               call'[u] = call[u] /\ pc'[u] = pc[u] /\ answer'[u] = answer[u]
      BY <1>0, <3>1 DEF Answers
    <3>. QED BY <1>2, <3>2, <3>3
  <2>4. CASE Fetch(t)
    <3>1. /\ answer' = answer /\ DOMAIN pc' = Threads /\ DOMAIN call' = Threads
          /\ \A u \in Threads \ {t} : call'[u] = call[u] /\ pc'[u] = pc[u]
      BY <1>0, <2>4 DEF Fetch, Goes, Go
    <3>2. call'[t] = NoCall \/ (call'[t] = NextStage(t) /\ ~IsLast(t))
      BY <1>0, <2>4 DEF Fetch, Goes, Go, PlaceAfter
    <3>3. Well(t)
      <4>1. CASE call'[t] = NoCall
        BY <4>1, NoCallFits DEF Well, NoCall, StagesOf
      <4>2. CASE call'[t] = NextStage(t) /\ ~IsLast(t)
        BY <4>2, CallMovesOn DEF Well
      <4>. QED BY <3>2, <4>1, <4>2
    <3>. QED BY <1>0, <1>2, <3>1, <3>3
  <2>5. CASE Penalize(t) \/ Poll(t) \/ GiveUp(t)
    <3>1. /\ answer' = answer /\ pc[t] # "leave" /\ DOMAIN pc' = Threads /\ DOMAIN call' = Threads
          /\ \A u \in Threads \ {t} : call'[u] = call[u] /\ pc'[u] = pc[u]
      BY <1>0, <2>5 DEF Penalize, Poll, GiveUp, Goes, Go
    <3>2. \/ call'[t] = NoCall
          \/ Again(t) /\ call'[t] = [call[t] EXCEPT !.attempt = @ + 1]
          \/ call'[t] = [call[t] EXCEPT !.attempt = 1]
      BY <1>0, <2>5 DEF Penalize, Poll, GiveUp, Goes, Go
    <3>3. Again(t) => call[t].attempt + 1 \in 1 .. MaxAttempts
      BY <1>0 DEF Again, Calling
    <3>4. 1 \in 1 .. MaxAttempts
      OBVIOUS
    <3>5. /\ call'[t] \in Calling
          /\ \/ call'[t] = NoCall
             \/ /\ call'[t].kind = call[t].kind /\ call'[t].stage = call[t].stage
                /\ call'[t].accepted = call[t].accepted
      BY <1>0, <3>2, <3>3, <3>4, NoCallFits DEF Calling
    <3>6. Well(t)
      BY <3>1, <3>5, CallGoesOn DEF Well
    <3>. QED BY <1>0, <1>2, <3>1, <3>6
  <2>. QED BY <1>6, <2>1, <2>2, <2>3, <2>4, <2>5 DEF Proceed
<1>. QED BY <1>3, <1>4, <1>5, <1>6 DEF Next

(***************************************************************************)
(* What is left of a penalty, of the interval and of a Retry-After.        *)
(***************************************************************************)
RangeInv ==
  /\ retryAfter \in [Threads -> 0 .. MaxRetryAfter]
  /\ notBefore \in [Processes -> 0 .. MaxRetryAfter] /\ pace \in [Processes -> 0 .. MinInterval]

LEMMA NextRanges == RangeInv /\ [Next]_vars => RangeInv'
<1> SUFFICES ASSUME RangeInv, [Next]_vars PROVE RangeInv'
  OBVIOUS
<1> USE ProcessKnown DEF RangeInv, stateVars
<1>1. CASE Tick
  <2>1. \A n, m \in Nat : n \in 0 .. m => Less(n) \in 0 .. m
    BY DEF Less
  <2>2. retryAfter' = retryAfter
    BY <1>1 DEF Tick
  <2>3. notBefore' = [p \in Processes |-> Less(notBefore[p])]
        /\ pace' = [p \in Processes |-> Less(pace[p])]
    BY <1>1 DEF Tick
  <2>4. \A p \in Processes :
          Less(notBefore[p]) \in 0 .. MaxRetryAfter /\ Less(pace[p]) \in 0 .. MinInterval
    BY <2>1
  <2>. QED BY <2>2, <2>3, <2>4
<1>2. CASE UNCHANGED vars
  BY <1>2 DEF vars
<1>3. ASSUME NEW t \in Threads, Proceed(t) PROVE RangeInv'
  <2>1. CASE Acquire(t) BY <2>1 DEF Acquire
  <2>2. CASE Enter(t) BY <2>2 DEF Enter
  <2>3. CASE Start(t) BY <2>3 DEF Start
  <2>4. CASE Respond(t) BY <2>4 DEF Respond, Answer
  <2>5. CASE Leave(t) BY <2>5 DEF Leave
  <2>6. CASE Penalize(t) BY <2>6 DEF Penalize
  <2>7. CASE Poll(t) BY <2>7 DEF Poll
  <2>8. CASE GiveUp(t) BY <2>8 DEF GiveUp
  <2>9. CASE Fetch(t) BY <2>9 DEF Fetch
  <2>10. QED
    BY <1>3, <2>1, <2>2, <2>3, <2>4, <2>5, <2>6, <2>7, <2>8, <2>9 DEF Proceed
<1>4. ASSUME NEW t \in Threads, NEW k \in KindsOf[t], Call(t, k) PROVE RangeInv'
  BY <1>4 DEF Call
<1>5. QED
  BY <1>1, <1>2, <1>3, <1>4 DEF Next

\* A Retry-After is still a thread's own until it is registered, and within the penalty of its
\* process from then on.
IsServed(t) ==
  IF pc[t] \in {"leave", "penalize"} THEN owed[t] <= retryAfter[t]
                                     ELSE owed[t] <= notBefore[ProcessOf[t]]

OwedInv == /\ DOMAIN pc = Threads /\ owed \in [Threads -> Nat]
           /\ \A t \in Threads : IsServed(t)

LEMMA NextOwed ==
  ASSUME OwedInv, RangeInv, [Next]_vars
  PROVE  OwedInv'
<1>0. /\ RangeInv' /\ DOMAIN pc = Threads /\ owed \in [Threads -> Nat]
      /\ \A u \in Threads : /\ IsServed(u) /\ ProcessOf[u] \in Processes
                            /\ notBefore[ProcessOf[u]] \in Nat /\ retryAfter[u] \in Nat
  BY NextRanges, ProcessKnown DEF OwedInv, RangeInv
<1>1. CASE UNCHANGED vars
  BY <1>0, <1>1 DEF vars, stateVars, OwedInv, IsServed
<1>2. CASE Tick
  <2>1. /\ pc' = pc /\ retryAfter' = retryAfter
        /\ owed' = [u \in Threads |-> Less(owed[u])]
        /\ notBefore' = [p \in Processes |-> Less(notBefore[p])]
    BY <1>2 DEF Tick
  <2>2. \A n, m \in Nat : Less(n) \in Nat /\ Less(n) <= n /\ (n <= m => Less(n) <= Less(m))
    BY DEF Less
  <2>3. ASSUME NEW u \in Threads
        PROVE  owed'[u] \in Nat /\ IsServed(u)'
    <3>1. /\ owed'[u] = Less(owed[u]) /\ owed[u] \in Nat
          /\ notBefore'[ProcessOf[u]] = Less(notBefore[ProcessOf[u]])
      BY <1>0, <2>1
    <3> DEFINE a == owed[u]
               b == notBefore[ProcessOf[u]]
               c == retryAfter[u]
    <3>2. a \in Nat /\ b \in Nat /\ c \in Nat /\ IsServed(u)
      BY <1>0
    <3>3. Less(a) \in Nat /\ Less(a) <= a /\ (a <= b => Less(a) <= Less(b))
      BY <2>2, <3>2
    <3>4. a <= c => Less(a) <= c
      BY <3>2, <3>3
    <3>. QED BY <2>1, <3>1, <3>2, <3>3, <3>4 DEF IsServed
  <2>. QED BY <1>0, <2>1, <2>3 DEF OwedInv
<1>3. ASSUME NEW t \in Threads, NEW k \in KindsOf[t], Call(t, k)
      PROVE  OwedInv'
  <2>1. /\ UNCHANGED <<owed, retryAfter, notBefore>> /\ DOMAIN pc' = Threads
        /\ pc[t] = "idle" /\ pc'[t] \in {"fetch", "rest", "queue"}
        /\ \A u \in Threads \ {t} : pc'[u] = pc[u]
    BY <1>0, <1>3 DEF Call, Goes, Go, Place, stateVars
  <2>. QED BY <1>0, <2>1 DEF OwedInv, IsServed
<1>4. ASSUME NEW t \in Threads, Proceed(t)
      PROVE  OwedInv'
  <2>1. CASE Acquire(t) \/ Enter(t) \/ Start(t) \/ Poll(t) \/ GiveUp(t) \/ Fetch(t)
    <3>1. /\ UNCHANGED <<owed, retryAfter, notBefore>> /\ DOMAIN pc' = Threads
          /\ pc[t] \notin {"leave", "penalize"} /\ pc'[t] \notin {"leave", "penalize"}
          /\ \A u \in Threads \ {t} : pc'[u] = pc[u]
      BY <1>0, <2>1
      DEF Acquire, Enter, Start, Poll, GiveUp, Fetch, Goes, Go, Place, PlaceAfter, stateVars
    <3>. QED BY <1>0, <3>1 DEF OwedInv, IsServed
  <2>2. CASE Respond(t)
    <3>1. PICK a \in Answers \ {"none"}, after \in 0 .. MaxRetryAfter : Answer(t, a, after)
      BY <2>2 DEF Respond
    <3>2. /\ pc' = [pc EXCEPT ![t] = "leave"] /\ retryAfter' = [retryAfter EXCEPT ![t] = after]
          /\ owed' = [owed EXCEPT ![t] = after] /\ notBefore' = notBefore
      BY <3>1 DEF Answer, Go, stateVars
    <3>3. owed' \in [Threads -> Nat] /\ DOMAIN pc' = Threads
      BY <1>0, <3>2
    <3>4. IsServed(t)'
      BY <1>0, <3>2 DEF IsServed, RangeInv
    <3>5. \A u \in Threads \ {t} : IsServed(u)'
      BY <1>0, <3>2 DEF IsServed, RangeInv
    <3>. QED BY <3>3, <3>4, <3>5 DEF OwedInv
  <2>3. CASE Leave(t)
    <3>1. /\ pc[t] = "leave" /\ pc' = [pc EXCEPT ![t] = NextOf(t)]
          /\ UNCHANGED <<retryAfter, notBefore>>
          /\ owed' = [owed EXCEPT ![t] = IF NextOf(t) = "penalize" THEN @ ELSE 0]
      BY <2>3 DEF Leave, Goes, Go
    <3>2. NextOf(t) = "penalize" \/ NextOf(t) \notin {"leave", "penalize"}
      BY DEF NextOf, PlaceAfter, Place
    <3>3. owed' \in [Threads -> Nat] /\ DOMAIN pc' = Threads
      BY <1>0, <3>1
    <3>4. IsServed(t)'
      BY <1>0, <3>1, <3>2 DEF IsServed
    <3>5. \A u \in Threads \ {t} : IsServed(u)'
      BY <1>0, <3>1 DEF IsServed
    <3>. QED BY <3>3, <3>4, <3>5 DEF OwedInv
  <2>4. CASE Penalize(t)
    <3> DEFINE p == ProcessOf[t]
    <3>1. /\ pc[t] = "penalize" /\ pc'[t] \in {"queue", "idle"} /\ DOMAIN pc' = Threads
          /\ \A u \in Threads \ {t} : pc'[u] = pc[u]
          /\ owed' = owed /\ \A u \in Threads \ {t} : retryAfter'[u] = retryAfter[u]
          /\ notBefore' = [notBefore EXCEPT
               ![p] = IF retryAfter[t] > notBefore[p] THEN retryAfter[t] ELSE notBefore[p]]
      BY <1>0, <2>4 DEF Penalize, Goes, Go, RangeInv
    <3>2. \A q \in Processes : notBefore'[q] \in Nat /\ notBefore'[q] >= notBefore[q]
      BY <1>0, <3>1 DEF RangeInv
    <3>3. notBefore'[p] >= retryAfter[t]
      BY <1>0, <3>1 DEF RangeInv
    <3>4. IsServed(t)'
      BY <1>0, <3>1, <3>2, <3>3 DEF IsServed
    <3>5. \A u \in Threads \ {t} : IsServed(u)'
      BY <1>0, <3>1, <3>2 DEF IsServed
    <3>. QED BY <1>0, <3>1, <3>4, <3>5 DEF OwedInv
  <2>. QED BY <1>4, <2>1, <2>2, <2>3, <2>4 DEF Proceed
<1>. QED BY <1>1, <1>2, <1>3, <1>4 DEF Next

LEMMA InitOwed == Init => OwedInv /\ RangeInv
BY ProcessKnown DEF Init, OwedInv, RangeInv, IsServed

\* Only from inside the slot does a thread send.
LEMMA OnlyTheSlotSends ==
  ASSUME DOMAIN pc = Threads, [Next]_vars, NEW u \in Threads,
         pc[u] # "sending", pc'[u] = "sending"
  PROVE  pc[u] \in {"enter", "asleep"}
<1> USE DEF Goes, Go
<1>1. CASE Tick BY <1>1 DEF Tick
<1>2. CASE UNCHANGED vars BY <1>2 DEF vars
<1>3. ASSUME NEW t \in Threads, Proceed(t) PROVE pc[u] \in {"enter", "asleep"}
  <2>1. CASE Acquire(t) BY <2>1 DEF Acquire
  <2>2. CASE Enter(t) BY <2>2 DEF Enter
  <2>3. CASE Start(t) BY <2>3 DEF Start
  <2>4. CASE Respond(t) BY <2>4 DEF Respond, Answer
  <2>5. CASE Leave(t) BY <2>5 DEF Leave, NextOf, PlaceAfter, Place
  <2>6. CASE Penalize(t) BY <2>6 DEF Penalize
  <2>7. CASE Poll(t) BY <2>7 DEF Poll
  <2>8. CASE GiveUp(t) BY <2>8 DEF GiveUp
  <2>9. CASE Fetch(t) BY <2>9 DEF Fetch, PlaceAfter, Place
  <2>10. QED
    BY <1>3, <2>1, <2>2, <2>3, <2>4, <2>5, <2>6, <2>7, <2>8, <2>9 DEF Proceed
<1>4. ASSUME NEW t \in Threads, NEW k \in KindsOf[t], Call(t, k)
      PROVE  pc[u] \in {"enter", "asleep"}
  BY <1>4 DEF Call, Place
<1>5. QED
  BY <1>1, <1>2, <1>3, <1>4 DEF Next

(***************************************************************************)
(* The invariant, and the penalty.                                         *)
(***************************************************************************)
LimiterIInv == Places /\ Paced /\ HoldersInv /\ CallInv /\ RangeInv /\ OwedInv

LEMMA LimiterAlways == Spec => []LimiterIInv
<1>1. Init => LimiterIInv
  BY InitPlaces, InitPaced, InitHolders, InitCalls, InitOwed DEF LimiterIInv
<1>2. LimiterIInv /\ [Next]_vars => LimiterIInv'
  BY NextPlaces, NextTime, NextSleeps, NextHolders, NextCalls, NextRanges, NextOwed
  DEF LimiterIInv, Paced
<1>. QED BY <1>1, <1>2, PTL DEF Spec

\* The state of the limiter is typed, its count of holders is exact, the lock is free or a
\* sleeper's, the bound on requests holds, and no call is paid for twice, whatever the provider
\* answers and however often a call is tried again.
THEOREM LimiterIsSound == Spec => []LimiterInv
<1>1. LimiterIInv => LimiterInv
  <2> SUFFICES ASSUME LimiterIInv PROVE LimiterInv
    OBVIOUS
  <2>1. \A t \in Threads : /\ call[t].attempt \in 1 .. MaxAttempts
                           /\ call[t].deadline \in 0 .. PollTimeout
                           /\ call[t].kind \in Kinds /\ call[t].stage \in DOMAIN StagesOf(t)
                           /\ call[t].accepted <= 1
    BY DEF LimiterIInv, CallInv, CallType, Calling
  <2>2. \A p \in Processes : semaphore[p] \in 0 .. MaxConcurrency
    BY InsideFinite DEF LimiterIInv, Places
  <2>3. \A p \in Processes : notBefore[p] \in 0 .. MaxRetryAfter /\ pace[p] \in 0 .. MinInterval
    BY DEF LimiterIInv, RangeInv
  <2>4. \A p \in Processes : /\ lock[p] \in {Free} \cup In(p, {"asleep"})
                             /\ holders[p] = Cardinality(In(p, {"asleep", "sending", "leave"}))
    BY DEF LimiterIInv, HoldersInv, Held
  <2>5. answer \in [Threads -> Answers]
    BY DEF LimiterIInv, CallInv, CallType
  <2>6. ConcurrencyHolds
    BY PlacesBound DEF LimiterIInv
  <2>7. TypeOK
    BY <2>1, <2>2, <2>3, <2>4, <2>5 DEF TypeOK
  <2>. QED BY <2>1, <2>6, <2>7 DEF LimiterInv, SubmittedOnce
<1>. QED BY <1>1, LimiterAlways, PTL

\* A thread that was told to wait, and registered it, is not heard of by the provider before, in
\* this call or the next, not even when another thread of its process is told a shorter time.
THEOREM PenaltiesAreServed == Spec => PenaltyIsServed
<1>1. ASSUME LimiterIInv, [Next]_vars, NEW t \in Threads, pc[t] # "sending", pc'[t] = "sending"
      PROVE  owed[t] = 0
  <2>1. Wait(ProcessOf[t]) = 0
    BY <1>1, StartsWhenDue DEF LimiterIInv
  <2>2. pc[t] \notin {"leave", "penalize"}
    BY <1>1, OnlyTheSlotSends DEF LimiterIInv, OwedInv
  <2>3. notBefore[ProcessOf[t]] \in Nat /\ pace[ProcessOf[t]] \in Nat
    BY <1>1, ProcessKnown DEF LimiterIInv, RangeInv
  <2>4. owed[t] \in Nat /\ owed[t] <= notBefore[ProcessOf[t]]
    BY <1>1, <2>2 DEF LimiterIInv, OwedInv, IsServed
  <2>. QED BY <2>1, <2>3, <2>4 DEF Wait
<1>2. LimiterIInv /\ [Next]_vars
        => [\A t \in Threads : pc[t] # "sending" /\ pc'[t] = "sending" => owed[t] = 0]_vars
  BY <1>1
<1>. QED BY <1>2, LimiterAlways, PTL DEF Spec, PenaltyIsServed
=============================================================================
