----------------------------- MODULE RateLimiter -----------------------------
(***************************************************************************)
(* How requests to one provider leave: the queue of sdk/sfvf/_ratelimit.py *)
(* with its callers, providers/_http.request (four attempts),              *)
(* providers/_poll.poll_until and agents._post_chat_completion (three),    *)
(* and the stages that the adapters put a call together from.              *)
(* The threads of a child process share its LIMITER; every child process   *)
(* has one of its own.                                                     *)
(*                                                                         *)
(* Times are kept as what is left of them: not_before, the end of the      *)
(* minimum interval, a sleep and a deadline all run down as time passes.   *)
(* A sleep may take longer than was asked for.                             *)
(***************************************************************************)
EXTENDS Naturals, Sequences, FiniteSets

CONSTANTS
  Threads,
  ProcessOf,       \* the child process of a thread
  MaxConcurrency,  \* configure(max_concurrency=...)
  MinInterval,     \* configure(min_interval_s=...)
  MaxRetryAfter,   \* bound on the Retry-After a provider answers with
  MaxAttempts,
  PollInterval, PollTimeout,
  MaxCalls,        \* bound on the calls of a thread
  KindsOf,         \* the kinds of call a thread makes
  Free

(* The stages of a call, in order.  What is submitted is paid for; a frame, a token and a       *)
(* finished file are fetched beside the queue, without a place and without retries.             *)
Agent    == <<"submit">>
OpenAi   == <<"submit">>
Search   == <<"submit">>
BytePlus == <<"submit", "poll", "download">>
MiniMax  == <<"submit", "poll", "download">>
Bfl      == <<"submit", "poll", "download">>
Imagen   == <<"token", "submit">>
Veo      == <<"frame", "token", "submit", "poll">>

Stages == [agent |-> Agent, openai |-> OpenAi, search |-> Search, byteplus |-> BytePlus,
           minimax |-> MiniMax, bfl |-> Bfl, imagen |-> Imagen, veo |-> Veo]

Kinds == DOMAIN Stages

ASSUME RateAssumption ==
  /\ IsFiniteSet(Threads) /\ DOMAIN ProcessOf = Threads /\ Free \notin Threads
  /\ {MaxConcurrency, MaxAttempts, MaxCalls, PollInterval} \subseteq Nat \ {0}
  /\ {MinInterval, MaxRetryAfter, PollTimeout} \subseteq Nat
  /\ KindsOf \in [Threads -> SUBSET Kinds]

VARIABLES
  pc, calls,
  call,        \* the local state of a thread's call: the code that makes it, the stage and the
               \* attempt it is in, and what is left of its polling; history: the submissions
               \* the provider may have taken
  answer,      \* what the provider answered, to be looked at outside the slot
  retryAfter,  \* and the Retry-After of a 429
  sleep,       \* what is left of a thread's sleep
  owed,        \* history: what is left of the Retry-After of a 429 that is registered
  semaphore, lock, holders,  \* _ProviderState of a process
  notBefore,   \* what is left of a penalty
  pace         \* and of the minimum interval

callVars  == <<calls, call>>
stateVars == <<semaphore, lock, holders, notBefore, pace>>
vars == <<pc, answer, retryAfter, sleep, owed, callVars, stateVars>>

Processes == {ProcessOf[t] : t \in Threads}
Answers   == {"none", "ok", "pending", "limited", "refused", "lost"}

NoCall == [kind |-> "agent", stage |-> 1, attempt |-> 1, deadline |-> 0, accepted |-> 0]

Init ==
  /\ pc = [t \in Threads |-> "idle"]
  /\ calls = [t \in Threads |-> 0]
  /\ call = [t \in Threads |-> NoCall]
  /\ answer = [t \in Threads |-> "none"]
  /\ retryAfter = [t \in Threads |-> 0]
  /\ sleep = [t \in Threads |-> 0]
  /\ owed = [t \in Threads |-> 0]
  /\ semaphore = [p \in Processes |-> MaxConcurrency]
  /\ lock = [p \in Processes |-> Free]
  /\ holders = [p \in Processes |-> 0]
  /\ notBefore = [p \in Processes |-> 0]
  /\ pace = [p \in Processes |-> 0]

Go(t, from, to) == pc[t] = from /\ pc' = [pc EXCEPT ![t] = to]

----------------------------------------------------------------------------
(* A call, from stage to stage. *)

StagesOf(t) == Stages[call[t].kind]
Stage(t)    == StagesOf(t)[call[t].stage]
IsLast(t)   == call[t].stage = Len(StagesOf(t))

Place(name) ==
  CASE name \in {"frame", "token", "download"} -> "fetch"
    [] name = "poll" -> "rest"
    [] OTHER -> "queue"

PlaceAfter(t) == IF IsLast(t) THEN "idle" ELSE Place(StagesOf(t)[call[t].stage + 1])

(* poll_until sets its deadline when it is entered. *)
NextStage(t) == [call[t] EXCEPT !.stage = @ + 1,
                                !.deadline = IF PlaceAfter(t) = "rest" THEN PollTimeout ELSE @]

(* A thread goes on with its call, whose local state is gone when it is over. *)
Goes(t, from, to, c) ==
  /\ Go(t, from, to)
  /\ call' = [call EXCEPT ![t] = IF to = "idle" THEN NoCall ELSE c]

Call(t, k) ==
  /\ calls[t] < MaxCalls
  /\ Goes(t, "idle", Place(Stages[k][1]), [NoCall EXCEPT !.kind = k])
  /\ calls' = [calls EXCEPT ![t] = @ + 1]
  /\ UNCHANGED <<owed, answer, retryAfter, sleep, stateVars>>

(* Beside the queue: a frame to start from, the token of a service account, the finished file. *)
Fetch(t) ==
  /\ Goes(t, "fetch", PlaceAfter(t), NextStage(t)) \/ Goes(t, "fetch", "idle", NoCall)
  /\ UNCHANGED <<owed, calls, answer, retryAfter, sleep, stateVars>>

(* slot: the semaphore first, without the lock. *)
Acquire(t) ==
  LET p == ProcessOf[t] IN
  /\ semaphore[p] > 0
  /\ Go(t, "queue", "enter")
  /\ semaphore' = [semaphore EXCEPT ![p] = @ - 1]
  /\ UNCHANGED <<owed, answer, retryAfter, sleep, callVars, lock, holders, notBefore, pace>>

Wait(p) == IF notBefore[p] > pace[p] THEN notBefore[p] ELSE pace[p]

(* Mutant: the lock is given back before the sleep. *)
EnterUnlocked(t) ==
  LET p == ProcessOf[t] IN
  /\ lock[p] = Free
  /\ holders' = [holders EXCEPT ![p] = @ + 1]
  /\ IF Wait(p) > 0
       THEN /\ Go(t, "enter", "asleep")
            /\ sleep' = [sleep EXCEPT ![t] = Wait(p)]
            /\ UNCHANGED <<lock, pace>>
       ELSE /\ Go(t, "enter", "sending")
            /\ pace' = [pace EXCEPT ![p] = MinInterval]
            /\ UNCHANGED <<sleep, lock>>
  /\ UNCHANGED <<owed, answer, retryAfter, callVars, semaphore, notBefore>>

(* Under the lock: the wait is worked out, and slept, before the lock is given back. *)
Enter(t) ==
  LET p == ProcessOf[t] IN
  /\ lock[p] = Free
  /\ holders' = [holders EXCEPT ![p] = @ + 1]
  /\ IF Wait(p) > 0
       THEN /\ Go(t, "enter", "asleep")
            /\ sleep' = [sleep EXCEPT ![t] = Wait(p)]
            /\ lock' = [lock EXCEPT ![p] = t]
            /\ UNCHANGED pace
       ELSE /\ Go(t, "enter", "sending")
            /\ pace' = [pace EXCEPT ![p] = MinInterval]
            /\ UNCHANGED <<sleep, lock>>
  /\ UNCHANGED <<owed, answer, retryAfter, callVars, semaphore, notBefore>>

Start(t) ==
  LET p == ProcessOf[t] IN
  /\ sleep[t] = 0
  /\ Go(t, "asleep", "sending")
  /\ pace' = [pace EXCEPT ![p] = MinInterval]
  /\ lock' = [lock EXCEPT ![p] = Free]
  /\ UNCHANGED <<owed, answer, retryAfter, sleep, callVars, semaphore, holders, notBefore>>

(* The provider answers, or what the adapter could use is lost, with the request or in a body   *)
(* that is no good: the HTTP client's timeout bounds all.                                       *)
Answer(t, a, after) ==
  /\ (a = "pending" => Stage(t) = "poll") /\ (after > 0 => a = "limited")
  /\ Go(t, "sending", "leave")
  /\ answer' = [answer EXCEPT ![t] = a]
  /\ retryAfter' = [retryAfter EXCEPT ![t] = after]
  /\ owed' = [owed EXCEPT ![t] = after]
  /\ call' = [call EXCEPT
       ![t].accepted = IF Stage(t) = "submit" /\ a \in {"ok", "lost"} THEN @ + 1 ELSE @]
  /\ UNCHANGED <<calls, sleep, stateVars>>

Again(t) == call[t].attempt < MaxAttempts

(* Mutant: a request that was lost is tried again. *)
NextOfTryingAgain(t) ==
  CASE answer[t] \in {"limited", "lost"} /\ (Again(t) \/ call[t].kind = "agent") -> "penalize"
    [] answer[t] = "pending" -> "rest"
    [] answer[t] = "ok" -> PlaceAfter(t)
    [] OTHER -> "idle"

(* What follows the slot: the next stage, rest before the next poll, penalise, or raise.       *)
(* Agents penalise after every 429, adapters not after the last.                                *)
NextOf(t) ==
  CASE answer[t] = "limited" /\ (Again(t) \/ call[t].kind = "agent") -> "penalize"
    [] answer[t] = "pending" -> "rest"
    [] answer[t] = "ok" -> PlaceAfter(t)
    [] OTHER -> "idle"

(* Mutant: a place is given back only after an answer. *)
LeaveKeeping(t) ==
  LET p == ProcessOf[t] IN
  /\ lock[p] = Free
  /\ Goes(t, "leave", NextOf(t), IF answer[t] = "ok" THEN NextStage(t) ELSE call[t])
  /\ holders' = [holders EXCEPT ![p] = @ - 1]
  /\ semaphore' = [semaphore EXCEPT ![p] = IF answer[t] = "lost" THEN @ ELSE @ + 1]
  /\ sleep' = [sleep EXCEPT ![t] = IF answer[t] = "pending" THEN PollInterval ELSE 0]
  /\ owed' = [owed EXCEPT ![t] = IF NextOf(t) = "penalize" THEN @ ELSE 0]
  /\ answer' = [answer EXCEPT ![t] = "none"]
  /\ UNCHANGED <<retryAfter, calls, lock, notBefore, pace>>

(* The exit of the slot takes the lock, whatever ended the request. *)
Leave(t) ==
  LET p == ProcessOf[t] IN
  /\ lock[p] = Free
  /\ Goes(t, "leave", NextOf(t), IF answer[t] = "ok" THEN NextStage(t) ELSE call[t])
  /\ holders' = [holders EXCEPT ![p] = @ - 1]
  /\ semaphore' = [semaphore EXCEPT ![p] = @ + 1]
  /\ sleep' = [sleep EXCEPT ![t] = IF answer[t] = "pending" THEN PollInterval ELSE 0]
  /\ owed' = [owed EXCEPT ![t] = IF NextOf(t) = "penalize" THEN @ ELSE 0]
  /\ answer' = [answer EXCEPT ![t] = "none"]
  /\ UNCHANGED <<retryAfter, calls, lock, notBefore, pace>>

(* Mutant: the last penalty counts, not the longest. *)
PenalizeLast(t) ==
  LET p == ProcessOf[t] IN
  /\ lock[p] = Free
  /\ Goes(t, "penalize", IF Again(t) THEN "queue" ELSE "idle", [call[t] EXCEPT !.attempt = @ + 1])
  /\ notBefore' = [notBefore EXCEPT ![p] = retryAfter[t]]
  /\ retryAfter' = [retryAfter EXCEPT ![t] = 0]
  /\ UNCHANGED <<owed, answer, sleep, calls, semaphore, lock, holders, pace>>

(* Mutant: a thread that will retry keeps its place and gives it back once more. *)
PenalizeReleasing(t) ==
  LET p == ProcessOf[t] IN
  /\ lock[p] = Free
  /\ Goes(t, "penalize", IF Again(t) THEN "queue" ELSE "idle", [call[t] EXCEPT !.attempt = @ + 1])
  /\ notBefore' = [notBefore EXCEPT ![p] = IF retryAfter[t] > @ THEN retryAfter[t] ELSE @]
  /\ semaphore' = [semaphore EXCEPT ![p] = @ + 1]
  /\ retryAfter' = [retryAfter EXCEPT ![t] = 0]
  /\ UNCHANGED <<owed, answer, sleep, calls, lock, holders, pace>>

Penalize(t) ==
  LET p == ProcessOf[t] IN
  /\ lock[p] = Free
  /\ Goes(t, "penalize", IF Again(t) THEN "queue" ELSE "idle", [call[t] EXCEPT !.attempt = @ + 1])
  /\ notBefore' = [notBefore EXCEPT ![p] = IF retryAfter[t] > @ THEN retryAfter[t] ELSE @]
  /\ retryAfter' = [retryAfter EXCEPT ![t] = 0]
  /\ UNCHANGED <<owed, answer, sleep, calls, semaphore, lock, holders, pace>>

(* poll_until: the deadline is looked at before every poll. *)
Poll(t) ==
  /\ sleep[t] = 0 /\ call[t].deadline > 0
  /\ Goes(t, "rest", "queue", [call[t] EXCEPT !.attempt = 1])
  /\ UNCHANGED <<owed, answer, retryAfter, sleep, calls, stateVars>>

GiveUp(t) ==
  /\ sleep[t] = 0 /\ call[t].deadline = 0
  /\ Goes(t, "rest", "idle", NoCall)
  /\ UNCHANGED <<owed, answer, retryAfter, sleep, calls, stateVars>>

----------------------------------------------------------------------------
Less(n) == IF n > 0 THEN n - 1 ELSE 0

Tick ==
  /\ \/ \E t \in Threads : sleep[t] > 0 \/ call[t].deadline > 0
     \/ \E p \in Processes : Wait(p) > 0
  /\ sleep' = [t \in Threads |-> Less(sleep[t])]
  /\ call' = [t \in Threads |-> [call[t] EXCEPT !.deadline = Less(@)]]
  /\ owed' = [t \in Threads |-> Less(owed[t])]
  /\ notBefore' = [p \in Processes |-> Less(notBefore[p])]
  /\ pace' = [p \in Processes |-> Less(pace[p])]
  /\ UNCHANGED <<pc, calls, answer, retryAfter, semaphore, lock, holders>>

Respond(t) == \E a \in Answers \ {"none"}, after \in 0 .. MaxRetryAfter : Answer(t, a, after)

Proceed(t) ==
  \/ Acquire(t) \/ Enter(t) \/ Start(t) \/ Respond(t) \/ Leave(t) \/ Penalize(t)
  \/ Poll(t) \/ GiveUp(t) \/ Fetch(t)

Next == Tick \/ \E t \in Threads : Proceed(t) \/ \E k \in KindsOf[t] : Call(t, k)

(* Time passes, a provider answers or the client times out, and the threads of a process run. *)
Fairness == WF_vars(Tick) /\ \A t \in Threads : WF_vars(Proceed(t))

Spec     == Init /\ [][Next]_vars
FairSpec == Spec /\ Fairness

----------------------------------------------------------------------------
In(p, steps) == {t \in Threads : ProcessOf[t] = p /\ pc[t] \in steps}

(* Every variable stays in its range, and active_holders counts the threads in the slot. *)
TypeOK ==
  /\ answer \in [Threads -> Answers]
  /\ \A t \in Threads :
       /\ call[t].attempt \in 1 .. MaxAttempts /\ call[t].deadline \in 0 .. PollTimeout
       /\ call[t].kind \in Kinds /\ call[t].stage \in DOMAIN StagesOf(t)
  /\ \A p \in Processes :
       /\ semaphore[p] \in 0 .. MaxConcurrency
       /\ notBefore[p] \in 0 .. MaxRetryAfter /\ pace[p] \in 0 .. MinInterval
       /\ lock[p] \in {Free} \cup In(p, {"asleep"})
       /\ holders[p] = Cardinality(In(p, {"asleep", "sending", "leave"}))

(* A child never has more requests with a provider than it allows, retries, penalties and        *)
(* failures included.                                                                            *)
ConcurrencyHolds == \A p \in Processes : Cardinality(In(p, {"asleep", "sending"})) <= MaxConcurrency

(* A call is never paid for twice: what the provider may have taken, answered, spoilt or lost,   *)
(* is not submitted again by any of the retries.                                                 *)
SubmittedOnce == \A t \in Threads : call[t].accepted <= 1

(* The invariant of the limiter: its state is typed, its count of holders is exact, the lock is  *)
(* free or a sleeper's, the bound on requests holds, and no call is paid for twice.             *)
LimiterInv == TypeOK /\ ConcurrencyHolds /\ SubmittedOnce

(* No request starts before the interval after the one before it, or before the penalty the      *)
(* process knows of, has run out, however many threads waited for it together.                   *)
StartsAreSpaced ==
  [][\A t \in Threads : pc[t] # "sending" /\ pc'[t] = "sending" => Wait(ProcessOf[t]) = 0]_vars

(* A thread that was told to wait and registered it is not heard of by the provider before, in  *)
(* this call or the next: not even when another thread is told a shorter time.                  *)
PenaltyIsServed ==
  [][\A t \in Threads : pc[t] # "sending" /\ pc'[t] = "sending" => owed[t] = 0]_vars

(* Every call ends: sleeping with the lock held, retrying and polling never make it wait forever. *)
CallsEnd == \A t \in Threads : (pc[t] # "idle") ~> (pc[t] = "idle")
=============================================================================
