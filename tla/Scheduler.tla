------------------------------- MODULE Scheduler -------------------------------
(***************************************************************************)
(* The schedule: tick() of app/core/scheduler.py, the driver thread of       *)
(* app/core/scheduler_runner.py, the schedules API and the lifespan of       *)
(* app/main.py.  Admission is abstracted to its answer (Supervisor models    *)
(* it).  Time is counted in minutes; a tick reads the clock once and then    *)
(* works through the entries it found due, one admission after the other,   *)
(* while the clock, the API, users and the process's end do not wait.        *)
(***************************************************************************)
EXTENDS Naturals, Sequences, Lists

CONSTANTS
  Workflow,
  Broken,        \* workflows whose admission raises
  Unresolved,    \* workflows the registry does not resolve
  Setting,       \* what an entry may be set to: [workflow, at, days]
  Saved,         \* the entries in schedules.json when the model begins
  MaxId,         \* bounds the entries ever created
  MaxScheduleEdits, \* bounds the writes of schedules.json
  DayLength, LastMinute,   \* minutes of a day; the end of the model
  Grace,         \* DEFAULT_GRACE
  Interval,      \* between two ticks
  MaxTick,       \* bounds the duration of a tick (an admission may build an environment)
  Faults         \* "crash", "io": scheduler_fired.json cannot be written,
                 \* "back": the clock is set back, "restart": stop() and start() again

ASSUME SchedulerAssumption ==
  /\ Broken \subseteq Workflow /\ Unresolved \subseteq Workflow
  /\ Setting \subseteq [workflow : Workflow, at : 0 .. DayLength - 1, days : SUBSET (0 .. 6)]
  /\ MaxId \in Nat /\ MaxScheduleEdits \in Nat /\ DayLength \in Nat \ {0} /\ LastMinute \in Nat
  /\ Grace \in Nat \ {0} /\ Interval \in Nat \ {0} /\ MaxTick \in Nat
  /\ Saved \in Seq([id : 1 .. MaxId, set : Setting])
  /\ \A i \in DOMAIN Saved : Saved[i].id = i
  /\ Faults \subseteq {"crash", "io", "back", "restart"}

VARIABLES
  now,        \* the wall clock
  schedules,  \* schedules.json
  nextId,     \* stands for uuid4: an id is never used again
  fired,      \* SchedulerState.fired
  firedFile,  \* scheduler_fired.json
  thread,     \* where the driver's thread is
  stop,       \* the driver's _stop event
  queue,      \* the due entries of the running tick that are not done yet
  tickNow,    \* the reading of the clock the running tick works with, else 0
  rest,       \* how many minutes may pass before the thread's next step
  active,     \* workflows with an active run
  answered,   \* the slots that admission was asked about, but for those a process's end
              \* found unwritten: whether those fire again is left open
  wanted,     \* the last call of the driver's lifecycle was start()
  since,      \* when the thread was started, else 0
  scheduleEdits, \* how often schedules.json was written
  edited      \* and when it last was

fileVars == <<schedules, nextId, scheduleEdits, edited>>
firedVars == <<fired, firedFile>>
tickVars == <<queue, tickNow, rest>>
lifeVars == <<stop, wanted, since>>
schedulerVars == <<now, fileVars, firedVars, thread, tickVars, lifeVars, active, answered>>

Alive == thread \notin {"off", "ended"}

Day(t) == t \div DayLength
Weekday(day) == day % 7   \* the first day is a Monday
Slot == (1 .. MaxId) \X (0 .. Day(LastMinute)) \X (0 .. DayLength - 1)
SlotKey(entry, t) == <<entry.id, Day(t), entry.set.at>>
SlotTime(key) == key[2] * DayLength + key[3]

\* Mutant: a tick exactly at the slot's time comes too early.
InWindowLate(entry, t) ==
  LET key == SlotKey(entry, t)
  IN  Weekday(Day(t)) \in entry.set.days /\ SlotTime(key) < t /\ t < SlotTime(key) + Grace

InWindow(entry, t) ==
  LET key == SlotKey(entry, t)
  IN  Weekday(Day(t)) \in entry.set.days /\ SlotTime(key) <= t /\ t < SlotTime(key) + Grace

DueEntries ==
  Picked(schedules, {i \in DOMAIN schedules :
                       InWindow(schedules[i], now) /\ SlotKey(schedules[i], now) \notin fired})

-------------------------------------------------------------------------------
SchedulerInit ==
  /\ now = 0
  /\ schedules = Saved /\ nextId = Len(Saved) + 1 /\ scheduleEdits = 0 /\ edited = 0
  /\ fired = {} /\ firedFile = {}
  /\ thread = "off" /\ stop = FALSE /\ queue = <<>> /\ tickNow = 0 /\ rest = 0
  /\ wanted = FALSE /\ since = 0
  /\ active = {}
  /\ answered = {}

(* The driver's thread.                                                    *)

\* The loop ticks once before it looks at _stop.
BeginTick ==
  /\ \/ thread = "new"
     \/ thread = "wait" /\ rest = 0 /\ ~stop
  /\ thread' = "tick"
  /\ queue' = DueEntries
  /\ tickNow' = now
  /\ rest' = MaxTick
  /\ UNCHANGED <<now, active, answered, fileVars, firedVars, lifeVars>>

\* start(entry, dry_run) returns: the workflow is unknown, busy, blocked or running.
Answer ==
  /\ thread = "tick" /\ queue # <<>>
  /\ LET entry == Head(queue)
         key == SlotKey(entry, tickNow)
     IN  /\ entry.set.workflow \notin Broken \ Unresolved
         /\ \/ active' = active
            \/ /\ entry.set.workflow \notin Unresolved
               /\ active' = active \cup {entry.set.workflow}
         /\ answered' = answered \cup {key}
  /\ thread' = "mark"
  /\ UNCHANGED <<now, fileVars, firedVars, lifeVars, tickVars>>

Rest == /\ thread' = "wait"
        /\ rest' = Interval
        /\ queue' = <<>> /\ tickNow' = 0

\* start raises: _guarded_tick gives up the whole tick.
Raise ==
  /\ thread = "tick" /\ queue # <<>>
  /\ Head(queue).set.workflow \in Broken \ Unresolved
  /\ Rest
  /\ UNCHANGED <<now, active, answered, fileVars, firedVars, lifeVars>>

\* fired.add and write_fired, which keeps the tick's day and swallows an OSError.
MarkFired ==
  /\ thread = "mark"
  /\ fired' = fired \cup {SlotKey(Head(queue), tickNow)}
  /\ \/ firedFile' = {k \in fired' : k[2] = Day(tickNow)}
     \/ "io" \in Faults /\ firedFile' = firedFile
  /\ thread' = "tick"
  /\ queue' = Tail(queue)
  /\ UNCHANGED <<now, tickNow, rest, active, answered, fileVars, lifeVars>>

EndTick ==
  /\ thread = "tick" /\ queue = <<>>
  /\ Rest
  /\ UNCHANGED <<now, active, answered, fileVars, firedVars, lifeVars>>

LoopEnds ==
  /\ thread = "wait" /\ stop
  /\ thread' = "ended"
  /\ UNCHANGED <<now, active, answered, fileVars, firedVars, lifeVars, tickVars>>

-------------------------------------------------------------------------------
(* The driver's lifecycle and the process.                                 *)

NewThread == /\ thread' = "new" /\ rest' = 0
             /\ stop' = FALSE /\ wanted' = TRUE
             /\ since' = now

\* Mutant: the fired slots live in memory only.
BootForgets ==
  /\ thread = "off"
  /\ NewThread
  /\ UNCHANGED <<now, queue, tickNow, active, answered, fileVars, firedVars>>

\* The process starts; the driver reads scheduler_fired.json.
Boot ==
  /\ thread = "off"
  /\ NewThread
  /\ fired' = firedFile
  /\ UNCHANGED <<now, firedFile, queue, tickNow, active, answered, fileVars>>

\* stop() joins for five seconds at most.
StopDriver ==
  /\ thread # "off" /\ wanted
  /\ stop' = TRUE /\ wanted' = FALSE
  /\ UNCHANGED <<now, thread, active, answered, since, fileVars, firedVars, tickVars>>

StartDriver ==
  /\ "restart" \in Faults
  /\ thread # "off" /\ ~wanted
  /\ IF Alive THEN wanted' = TRUE /\ UNCHANGED <<thread, stop, rest, since>>
     ELSE NewThread
  /\ UNCHANGED <<now, queue, tickNow, active, answered, fileVars, firedVars>>

Gone == /\ thread' = "off"
        /\ queue' = <<>> /\ tickNow' = 0 /\ rest' = 0
        /\ stop' = FALSE /\ wanted' = FALSE /\ since' = 0
        /\ fired' = {}
        /\ active' = {}
        /\ answered' = answered \cap firedFile
        /\ UNCHANGED <<now, firedFile, fileVars>>

\* The process ends after stop(), whose join outlasts the writing of a mark.
Exit == thread \in {"new", "wait", "tick", "ended"} /\ stop /\ Gone

Crash == "crash" \in Faults /\ thread # "off" /\ Gone

-------------------------------------------------------------------------------
(* The schedules API (one request at a time, under _LOCK), users, time.    *)

WriteSchedules(entries) ==
  /\ thread # "off"
  /\ scheduleEdits < MaxScheduleEdits /\ scheduleEdits' = scheduleEdits + 1
  /\ schedules' = entries
  /\ edited' = now
  /\ UNCHANGED <<now, thread, active, answered, firedVars, lifeVars, tickVars>>

CreateSchedule ==
  /\ nextId <= MaxId
  /\ \E s \in Setting : WriteSchedules(Append(schedules, [id |-> nextId, set |-> s]))
  /\ nextId' = nextId + 1

UpdateSchedule ==
  /\ \E i \in DOMAIN schedules, s \in Setting :
       WriteSchedules([schedules EXCEPT ![i].set = s])
  /\ UNCHANGED nextId

DeleteSchedule ==
  /\ \E i \in DOMAIN schedules :
       WriteSchedules(Picked(schedules,
                             {j \in DOMAIN schedules : schedules[j].id # schedules[i].id}))
  /\ UNCHANGED nextId

\* A run that a user launched, and the end of any run.
Launch == /\ thread # "off"
          /\ \E w \in Workflow \ active : active' = active \cup {w}
          /\ UNCHANGED <<now, thread, answered, fileVars, firedVars, lifeVars, tickVars>>

RunReturns == /\ \E w \in active : active' = active \ {w}
              /\ UNCHANGED <<now, thread, answered, fileVars, firedVars, lifeVars, tickVars>>

Pass ==
  /\ now < LastMinute
  /\ now' = now + 1
  /\ IF Alive THEN rest > 0 /\ rest' = rest - 1 ELSE rest' = rest
  /\ UNCHANGED <<thread, queue, tickNow, active, answered, fileVars, firedVars, lifeVars>>

\* Summer time ends, in the small hours of a day.
SetBack ==
  /\ "back" \in Faults
  /\ now' \in {t \in 0 .. now - 1 : Day(t) = Day(now)}
  /\ UNCHANGED <<thread, active, answered, fileVars, firedVars, lifeVars, tickVars>>

SchedulerNext ==
  \/ BeginTick \/ Answer \/ Raise \/ MarkFired \/ EndTick \/ LoopEnds
  \/ Boot \/ StopDriver \/ StartDriver \/ Exit \/ Crash
  \/ CreateSchedule \/ UpdateSchedule \/ DeleteSchedule
  \/ Launch \/ RunReturns \/ Pass \/ SetBack

SchedulerSpec == SchedulerInit /\ [][SchedulerNext]_schedulerVars

-------------------------------------------------------------------------------
(* Properties.                                                             *)

Entries == [id : 1 .. MaxId, set : Setting]

SchedulerTypeOK ==
  /\ now \in 0 .. LastMinute /\ tickNow \in 0 .. LastMinute
  /\ since \in 0 .. LastMinute /\ edited \in 0 .. LastMinute
  /\ schedules \in Seq(Entries) /\ queue \in Seq(Entries)
  /\ nextId \in 1 .. MaxId + 1 /\ scheduleEdits \in 0 .. MaxScheduleEdits
  /\ fired \subseteq Slot /\ firedFile \subseteq Slot
  /\ thread \in {"off", "new", "wait", "tick", "mark", "ended"}
  /\ thread = "mark" => queue # <<>>
  /\ stop \in BOOLEAN /\ wanted \in BOOLEAN
  /\ rest \in 0 .. Interval + MaxTick
  /\ active \subseteq Workflow
  /\ answered \subseteq Slot

Answering == thread = "tick" /\ thread' = "mark"
HeadSlot == SlotKey(Head(queue), tickNow)

\* A slot is offered to admission once, whatever is edited, deleted or created meanwhile,
\* whenever runs end, although the clock is set back and over restarts, unless the process
\* died before the slot was on disk: a busy slot is skipped and not queued, and a paid run
\* is not started twice.
OncePerSlot == [][Answering => HeadSlot \notin answered]_schedulerVars

\* No slot is lost: when its window has passed, and the driver has run and its entry has
\* been there since before, the slot has been dealt with; if the window is not shorter than
\* an interval and a tick, which do not end after the slot's day, and if no workflow's
\* admission raises.
NoSlotIsMissed ==
  \A i \in DOMAIN schedules :
    LET entry == schedules[i] IN
    \A d \in 0 .. Day(LastMinute) :
      LET key == <<entry.id, d, entry.set.at>> IN
      (/\ Weekday(d) \in entry.set.days
       /\ Alive /\ ~stop /\ since <= SlotTime(key) /\ edited < SlotTime(key)
       /\ SlotTime(key) + Grace <= now
       /\ Interval + MaxTick <= Grace /\ entry.set.at + Interval + MaxTick <= DayLength
       /\ \A j \in DOMAIN schedules : schedules[j].set.workflow \notin Broken)
      => key \in fired \cup {SlotKey(queue[j], tickNow) : j \in DOMAIN queue}

\* The invariant of the schedule: the driver's state is typed, and no slot is missed.
ScheduleInv == SchedulerTypeOK /\ NoSlotIsMissed
===============================================================================
