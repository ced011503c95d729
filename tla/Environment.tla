---------------------------- MODULE Environment ----------------------------
(***************************************************************************)
(* The virtual environment of one workflow, as ensure_env                  *)
(* (app/core/env.py) keeps it: reused while the fingerprint in its marker  *)
(* is that of requirements.txt, removed and built again otherwise. The     *)
(* supervisor admits one run of a workflow at a time, so one thread at a   *)
(* time is in ensure_env; the user edits the file, pip fails or times out, *)
(* and the app dies, at any moment.                                        *)
(*                                                                         *)
(* The requirements are numbered by their edits; a fingerprint is the      *)
(* number. The content of the environment is what the last pip to end      *)
(* there installed.                                                        *)
(***************************************************************************)
EXTENDS Naturals

CONSTANTS
  MaxEdits,     \* bound on the edits of requirements.txt
  MaxFaults,    \* bound on failures and deaths of the app
  None

Requirements == 0 .. MaxEdits

ASSUME EnvironmentAssumption ==
  /\ MaxEdits \in Nat /\ MaxFaults \in Nat
  /\ None \notin Requirements

Parts == {"python", "sdk", "marker", "content"}

Building == {"find", "remove", "create", "sdk", "read", "install", "mark"}

VARIABLES
  requirements,  \* requirements.txt of the workflow
  edits,
  python, sdk,   \* the environment has its interpreter, and the SDK
  content,       \* the requirements that are installed in it
  marker,        \* HASH_MARKER
  pc,
  current,       \* current_hash of the call
  reading,       \* what the running pip read from requirements.txt
  detached,      \* what a pip is installing whose app has died
  faults,
  reverted,      \* history: the user went back to requirements that were replaced
  strayed        \* history: a pip whose app had died came to its end

venvVars == <<python, sdk, content, marker>>
callVars == <<pc, current, reading>>
pastVars == <<reverted, strayed>>
vars == <<requirements, edits, venvVars, callVars, detached, faults, pastVars>>

Exists == python \/ sdk \/ content # None \/ marker # None

Init ==
  /\ requirements = 0 /\ edits = 0
  /\ python = FALSE /\ sdk = FALSE /\ content = None /\ marker = None
  /\ pc = "idle" /\ current = None /\ reading = None
  /\ detached = {} /\ faults = 0 /\ reverted = FALSE /\ strayed = FALSE

Go(from, to) == pc = from /\ pc' = to

----------------------------------------------------------------------------
(* ensure_env: the fingerprint is taken first, and compared with the marker. *)
Ensure ==
  /\ Go("idle", IF Exists /\ marker = requirements THEN "ready" ELSE "find")
  /\ current' = requirements
  /\ UNCHANGED <<requirements, edits, venvVars, reading, detached, faults, pastVars>>

(* The interpreter that the manifest asks for is not installed: the run is blocked. *)
Blocked ==
  /\ Go("find", "idle") /\ current' = None
  /\ UNCHANGED <<requirements, edits, venvVars, reading, detached, faults, pastVars>>

Find ==
  /\ Go("find", "remove")
  /\ UNCHANGED <<requirements, edits, venvVars, current, reading, detached, faults, pastVars>>

(* rmtree takes the environment apart in no particular order. *)
Remove(part) ==
  /\ pc = "remove" /\ UNCHANGED <<pc, current, reading>>
  /\ python' = (python /\ part # "python")
  /\ sdk' = (sdk /\ part # "sdk")
  /\ content' = IF part = "content" THEN None ELSE content
  /\ marker' = IF part = "marker" THEN None ELSE marker
  /\ venvVars' # venvVars
  /\ UNCHANGED <<requirements, edits, detached, faults, pastVars>>

Removed ==
  /\ ~Exists /\ Go("remove", "create")
  /\ UNCHANGED <<requirements, edits, venvVars, current, reading, detached, faults, pastVars>>

CreateVenv ==
  /\ Go("create", "sdk") /\ python' = TRUE
  /\ UNCHANGED <<requirements, edits, sdk, content, marker, current, reading, detached, faults,
                 pastVars>>

InstallSdk ==
  /\ Go("sdk", "read") /\ sdk' = TRUE
  /\ UNCHANGED <<requirements, edits, python, content, marker, current, reading, detached, faults,
                 pastVars>>

(* Mutant: the marker is written before pip installs the requirements. *)
ReadMarking ==
  /\ Go("read", "install") /\ reading' = requirements /\ marker' = current
  /\ UNCHANGED <<requirements, edits, python, sdk, content, current, detached, faults, pastVars>>

(* pip reads requirements.txt as it is now, and is a while installing it. *)
Read ==
  /\ Go("read", "install") /\ reading' = requirements
  /\ UNCHANGED <<requirements, edits, venvVars, current, detached, faults, pastVars>>

Install ==
  /\ Go("install", "mark")
  /\ content' = reading /\ reading' = None
  /\ UNCHANGED <<requirements, edits, python, sdk, marker, current, detached, faults, pastVars>>

(* Mutant: the marker holds the fingerprint of the file as it is after the install. *)
MarkLate ==
  /\ Go("mark", "ready") /\ marker' = requirements
  /\ UNCHANGED <<requirements, edits, python, sdk, content, current, reading, detached, faults,
                 pastVars>>

(* The marker is written last, with the fingerprint taken first. *)
Mark ==
  /\ Go("mark", "ready") /\ marker' = current
  /\ UNCHANGED <<requirements, edits, python, sdk, content, current, reading, detached, faults,
                 pastVars>>

(* The run ends; the next one asks again. *)
RunEnds ==
  /\ Go("ready", "idle") /\ current' = None
  /\ UNCHANGED <<requirements, edits, venvVars, reading, detached, faults, pastVars>>

----------------------------------------------------------------------------
Fault == faults < MaxFaults /\ faults' = faults + 1

(* A file is in use, a command fails or takes longer than ENV_SUBPROCESS_TIMEOUT: it raises. *)
Fail ==
  /\ Fault
  /\ pc \in {"remove", "create", "sdk", "read", "install"}
  /\ pc' = "idle" /\ current' = None /\ reading' = None
  /\ UNCHANGED <<requirements, edits, venvVars, detached, pastVars>>

Die ==
  /\ Fault /\ pc # "idle"
  /\ pc' = "idle" /\ current' = None /\ reading' = None
  /\ detached' = IF reading # None THEN detached \cup {reading} ELSE detached
  /\ UNCHANGED <<requirements, edits, venvVars, pastVars>>

InstallDetached(v) ==
  /\ v \in detached /\ detached' = detached \ {v}
  /\ content' = v
  /\ strayed' = TRUE
  /\ UNCHANGED <<requirements, edits, python, sdk, marker, callVars, faults, reverted>>

Edit(v) ==
  /\ edits < MaxEdits /\ edits' = edits + 1
  /\ v <= edits' /\ v # requirements
  /\ requirements' = v
  /\ reverted' = (reverted \/ v < edits')
  /\ UNCHANGED <<venvVars, callVars, detached, faults, strayed>>

Next ==
  \/ Ensure \/ Blocked \/ Find \/ Removed \/ CreateVenv
  \/ InstallSdk \/ Read \/ Install \/ Mark \/ RunEnds
  \/ \E part \in Parts : Remove(part)
  \/ Fail \/ Die
  \/ \E v \in Requirements : Edit(v) \/ InstallDetached(v)

Spec == Init /\ [][Next]_vars

----------------------------------------------------------------------------
(* Every variable stays in its range; a pip runs only while requirements are being installed.    *)
TypeOK ==
  /\ requirements \in 0 .. edits /\ edits \in 0 .. MaxEdits
  /\ pc \in Building \cup {"idle", "ready"}
  /\ detached \subseteq Requirements /\ faults \in 0 .. MaxFaults
  /\ python \in BOOLEAN /\ sdk \in BOOLEAN
  /\ content \in Requirements \cup {None} /\ marker \in Requirements \cup {None}
  /\ current \in Requirements \cup {None} /\ reading \in Requirements \cup {None}
  /\ current = None <=> pc = "idle"
  /\ reading # None <=> pc = "install"
  /\ reverted \in BOOLEAN /\ strayed \in BOOLEAN

Starts == pc # "ready" /\ pc' = "ready"

(* As long as requirements that were replaced do not come back, a run starts in an environment   *)
(* that was built to the end: never in one that was half removed, or whose installation failed   *)
(* or was cut off by the death of the app.                                                       *)
ReadyIsBuilt == [][Starts /\ ~reverted => python' /\ sdk' /\ content' # None]_vars

(* As long as, besides, no pip comes to its end after its app has died, a run starts with the    *)
(* requirements whose fingerprint was taken, or with newer ones, whatever was edited while they   *)
(* were installed.                                                                               *)
ReadyIsCurrent ==
  [][Starts /\ ~reverted /\ ~strayed => content' # None /\ content' >= current']_vars
=============================================================================
