----------------------------- MODULE EventStream -----------------------------
(***************************************************************************)
(* events.jsonl of one run, and the server-sent stream a browser follows   *)
(* it by (stream_run_events, app/api/runs.py). The threads of the run      *)
(* append lines under a lock; the stream reads the file from its first     *)
(* line at every poll, sends what it has not sent, and ends after it has   *)
(* read a terminal status: nobody locks the file against it. The app may   *)
(* die in the middle of an append, and the browser may connect again.      *)
(*                                                                         *)
(* An event is its place in the file, so numbers stand for the file and    *)
(* for what was sent of it.                                                *)
(***************************************************************************)
EXTENDS Naturals

VARIABLES
  recorded,   \* lines that were appended
  readable,   \* of these, the ones read_events comes to: it returns at the first torn line
  writing,    \* a thread is appending: its line is in part in the file
  torn,       \* a line in the file was cut off by the death of the app
  ended,      \* request.json has a terminal status
  settled,    \* history: what could be read when it got there
  pc, emitted, snapshot   \* of the stream: events[emitted:] is what is left of its last read

fileVars == <<recorded, readable, writing, torn>>
statusVars == <<ended, settled>>
streamVars == <<pc, emitted, snapshot>>
vars == <<fileVars, statusVars, streamVars>>

Init ==
  /\ recorded = 0 /\ readable = 0 /\ writing = FALSE /\ torn = FALSE
  /\ ended = FALSE /\ settled = 0
  /\ pc = "off" /\ emitted = 0 /\ snapshot = 0

----------------------------------------------------------------------------
(* append_event: a line after a torn one is glued to it, and read by nobody. *)
BeginAppend ==
  /\ ~writing /\ writing' = TRUE
  /\ UNCHANGED <<recorded, readable, torn, statusVars, streamVars>>

EndAppend ==
  /\ writing /\ writing' = FALSE
  /\ recorded' = recorded + 1
  /\ readable' = IF torn THEN readable ELSE readable + 1
  /\ UNCHANGED <<torn, statusVars, streamVars>>

(* finish_request, and the reconciliation of a run whose app died; the thread of a watchdog may  *)
(* still append a line after that.                                                               *)
Settle ==
  /\ ~ended /\ ended' = TRUE /\ settled' = readable
  /\ UNCHANGED <<fileVars, streamVars>>

(* The app dies, and comes back. *)
Die ==
  /\ torn' = (torn \/ writing) /\ writing' = FALSE
  /\ pc' = "off" /\ emitted' = 0 /\ snapshot' = 0
  /\ UNCHANGED <<recorded, readable, statusVars>>

----------------------------------------------------------------------------
Go(from, to) == pc = from /\ pc' = to

Connect ==
  /\ Go("off", "poll") /\ emitted' = 0 /\ snapshot' = 0
  /\ UNCHANGED <<fileVars, statusVars>>

Poll ==
  /\ Go("poll", "send") /\ snapshot' = readable
  /\ UNCHANGED <<fileVars, statusVars, emitted>>

(* The file may grow between any two events that are sent. *)
Send ==
  /\ pc \in {"send", "sendRest"} /\ emitted < snapshot
  /\ emitted' = emitted + 1
  /\ UNCHANGED <<fileVars, statusVars, pc, snapshot>>

(* The status is looked at after what was read has been sent. *)
Look ==
  /\ emitted >= snapshot /\ Go("send", IF ended THEN "rest" ELSE "poll")
  /\ UNCHANGED <<fileVars, statusVars, emitted, snapshot>>

(* A last read, after the status. *)
ReadRest ==
  /\ Go("rest", "sendRest") /\ snapshot' = readable
  /\ UNCHANGED <<fileVars, statusVars, emitted>>

Close ==
  /\ emitted >= snapshot /\ Go("sendRest", "closed")
  /\ UNCHANGED <<fileVars, statusVars, emitted, snapshot>>

(* The browser goes away, or asks again for a stream that has ended. *)
Disconnect ==
  /\ pc # "off" /\ pc' = "off" /\ emitted' = 0 /\ snapshot' = 0
  /\ UNCHANGED <<fileVars, statusVars>>

Next ==
  \/ BeginAppend \/ EndAppend \/ Settle \/ Die
  \/ Connect \/ Poll \/ Send \/ Look \/ ReadRest \/ Close \/ Disconnect

Spec == Init /\ [][Next]_vars

----------------------------------------------------------------------------
TypeOK ==
  /\ recorded \in Nat /\ readable \in Nat /\ settled \in Nat
  /\ emitted \in Nat /\ snapshot \in Nat
  /\ writing \in BOOLEAN /\ torn \in BOOLEAN /\ ended \in BOOLEAN
  /\ pc \in {"off", "poll", "send", "rest", "sendRest", "closed"}

(* A stream that has ended has sent every event that could be read when the run got its terminal *)
(* status, however the last appends, that status and the polls interleave.                       *)
NothingIsLost == pc = "closed" => ended /\ settled <= emitted

(* No event is sent that is not in the file, whole; and until the app dies once in the middle of *)
(* an append, every line that was appended can be sent.                                          *)
OnlyWhatIsRecorded ==
  /\ emitted <= readable /\ readable <= recorded
  /\ ~torn => readable = recorded
=============================================================================
