------------------------------ MODULE Settings ------------------------------
(***************************************************************************)
(* How a key saved in the Settings tab becomes usable: the store           *)
(* (app/core/secrets.py), the mapping the app keeps in memory, the         *)
(* registry built from it (app/api/settings.py, workflows.RegistryHolder)  *)
(* and the launches that read both (app/api/runs.py launch_run, and the    *)
(* run thread's `injected`); and the global defaults that the same tab      *)
(* edits (app/core/app_settings.py).                                       *)
(*                                                                         *)
(* Requests are threads of the app; the command line is a process of its   *)
(* own that knows only the file. The file is replaced atomically, so a     *)
(* reader sees one write or the other. An app started without a passphrase *)
(* answers every write with 409 and is not modelled.                       *)
(***************************************************************************)
EXTENDS Naturals, FiniteSets

CONSTANTS
  Requests,   \* threads that answer PUT, DELETE and rescan
  Shell,      \* the command line, in a set of its own: {} when nobody uses it
  Launches,   \* threads that answer POST runs
  Names, Values,
  Required,   \* the keys of the workflow that is launched, by requires_keys and capability
  Fields,     \* the global defaults
  Levels,     \* the valid values of a default
  Builtin,    \* the value of each default when nothing else gives it one
  Bodies,     \* the updates of them that are sent: some fields, the others Absent
  Environ,    \* the valid values the app's environment gives, or Absent
  Ops,        \* what the writers do, out of Kinds
  MaxWrites,  \* bound on the operations of all writers
  MaxEdits,   \* bound on the edits of the workflows folder
  MaxFaults,  \* bound on failed reads and writes and restarts
  Absent, Unsure

Writers     == Requests \cup Shell
Kinds       == {"put", "delete", "rescan", "rekey", "default"}
Passphrases == {"old", "new"}
Secrets     == [Names -> Values \cup {Absent}]
Defaults    == [Fields -> Levels \cup {Absent}]

ASSUME SettingsAssumption ==
  /\ Required \subseteq Names /\ Ops \subseteq Kinds
  /\ Requests \cap Shell = {}
  /\ Absent \notin Values /\ Unsure \notin Values \cup {Absent}
  /\ Absent \notin Levels /\ Builtin \in [Fields -> Levels] /\ Environ \in Defaults
  /\ Bodies \subseteq Defaults \ {[f \in Fields |-> Absent]}
  /\ {MaxWrites, MaxEdits, MaxFaults} \subseteq Nat

VARIABLES
  store,       \* the file: its secrets and the passphrase that opens it
  passphrase,  \* the one the app was started with
  memory,      \* app.state.secrets, one object for the life of the app
  registry,    \* app.state.registry: configured names, and the folder as it was scanned
  folder,      \* the workflows folder, by the number of its edits
  pc, op, copy,
  seen,        \* the registry a request is building, or the scan it has made
  holding,     \* requests that hold the registry object that is current
  launch, size, injected,
  defaults,    \* app_settings.json: of each field its value, or Absent when missing or invalid
  draft,       \* the fields a request has merged and will write
  inForce,     \* history: the value a field was given last, or has had since the start
  kept,        \* history: the names in the store ever since the app started
  promised,    \* history: the value a name was last said to have
  rescanned,   \* history: the folder, when a rescan was last answered
  calm,        \* history: no two operations of writers overlapped
  writes, faults

requestVars == <<pc, op, copy, seen, draft, holding>>
launchVars  == <<launch, size, injected>>
defaultVars == <<defaults, inForce>>
vars == <<store, passphrase, memory, registry, folder, requestVars, launchVars, defaultVars,
          kept, promised, rescanned, calm, writes, faults>>

(* configured_secret_names: neither the form nor the prompt stores a blank value. *)
Configured(secrets) == {n \in Names : secrets[n] # Absent}

NoOp     == [kind |-> "none", name |-> Absent, value |-> Absent]
NoSecret == [n \in Names |-> Absent]
NotSeen  == [configured |-> {}, version |-> 0]
NoDraft  == [f \in Fields |-> Absent]

(* The environment overrides what is stored, and that what is built in. *)
Resolve(file, f) ==
  IF Environ[f] # Absent THEN Environ[f] ELSE IF file[f] # Absent THEN file[f] ELSE Builtin[f]
Effective(f) == Resolve(defaults, f)

(* create_app: the passphrase opens the store, or the app does not start. *)
Created(file, version) ==
  /\ passphrase' = file.passphrase
  /\ memory' = file.secrets
  /\ registry' = [configured |-> Configured(file.secrets), version |-> version]
  /\ launch' = [l \in Launches |-> "idle"]
  /\ size' = [l \in Launches |-> 0]
  /\ injected' = [l \in Launches |-> NoSecret]
  /\ kept' = Configured(file.secrets)
  /\ rescanned' = version
  /\ holding' = {}

Init ==
  /\ store \in [secrets : Secrets, passphrase : {"old"}]
  /\ passphrase = store.passphrase
  /\ memory = store.secrets
  /\ registry = [configured |-> Configured(memory), version |-> 0]
  /\ folder = 0 /\ rescanned = 0
  /\ pc = [w \in Writers |-> "idle"]
  /\ op = [w \in Writers |-> NoOp]
  /\ copy = [w \in Writers |-> NoSecret]
  /\ seen = [w \in Writers |-> NotSeen]
  /\ holding = {}
  /\ launch = [l \in Launches |-> "idle"]
  /\ size = [l \in Launches |-> 0]
  /\ injected = [l \in Launches |-> NoSecret]
  /\ defaults = NoDraft /\ draft = [w \in Writers |-> NoDraft]
  /\ inForce = [f \in Fields |-> Effective(f)]
  /\ kept = Configured(memory)
  /\ promised = [n \in Names |-> Unsure]
  /\ calm = TRUE /\ writes = 0 /\ faults = 0

Go(w, from, to) == pc[w] = from /\ pc' = [pc EXCEPT ![w] = to]
Fault == faults < MaxFaults /\ faults' = faults + 1

(* The request is answered, or dies: nothing of it stays behind. *)
Done(w) ==
  /\ pc' = [pc EXCEPT ![w] = "idle"]
  /\ op' = [op EXCEPT ![w] = NoOp]
  /\ copy' = [copy EXCEPT ![w] = NoSecret]
  /\ seen' = [seen EXCEPT ![w] = NotSeen]
  /\ draft' = [draft EXCEPT ![w] = NoDraft]

----------------------------------------------------------------------------
(* SecretStore.set, delete and rekey: _load, the change, _save. *)

Opens(w) == w \in Requests => passphrase = store.passphrase

\* An operation begins; it is calm as long as none begins beside another.
Begins(w) ==
  /\ writes < MaxWrites /\ writes' = writes + 1
  /\ calm' = (calm /\ \A other \in Writers : pc[other] = "idle")

Load(w, k, n, v) ==
  /\ Begins(w) /\ Opens(w)
  /\ k \in Ops \cap (IF w \in Shell THEN {"put", "delete", "rekey"} ELSE {"put", "delete"})
  /\ (k = "put") = (v # Absent)
  /\ k = "delete" => w \in Requests \/ store.secrets[n] # Absent
  /\ k = "rekey" => store.passphrase = "old"
  /\ Go(w, "idle", IF k = "delete" /\ store.secrets[n] = Absent THEN "reload" ELSE "save")
  /\ op' = [op EXCEPT ![w] = [kind |-> k, name |-> IF k = "rekey" THEN Absent ELSE n, value |-> v]]
  /\ copy' = [copy EXCEPT ![w] = store.secrets]
  /\ promised' = IF k = "rekey" THEN promised ELSE [promised EXCEPT ![n] = Unsure]
  /\ UNCHANGED <<store, passphrase, memory, registry, folder, draft, seen, holding, launchVars, defaultVars,
                 kept, rescanned, faults>>

Changed(w) ==
  IF op[w].kind = "rekey" THEN copy[w] ELSE [copy[w] EXCEPT ![op[w].name] = op[w].value]

(* Mutant: the mapping is emptied before the file is read again. *)
SaveClearing(w) ==
  /\ pc[w] = "save"
  /\ store' = [secrets |-> Changed(w),
               passphrase |-> IF op[w].kind = "rekey" THEN "new"
                              ELSE IF w \in Shell THEN store.passphrase ELSE passphrase]
  /\ kept' = kept \cap Configured(Changed(w))
  /\ IF w \in Shell THEN Done(w) /\ UNCHANGED memory
     ELSE Go(w, "save", "reload") /\ memory' = NoSecret /\ UNCHANGED <<op, copy, seen, draft>>
  /\ UNCHANGED <<passphrase, registry, folder, holding, launchVars, defaultVars,
                 promised, rescanned, calm, writes, faults>>

Save(w) ==
  /\ pc[w] = "save"
  /\ store' = [secrets |-> Changed(w),
               passphrase |-> IF op[w].kind = "rekey" THEN "new"
                              ELSE IF w \in Shell THEN store.passphrase ELSE passphrase]
  /\ kept' = kept \cap Configured(Changed(w))
  /\ IF w \in Shell THEN Done(w) ELSE Go(w, "save", "reload") /\ UNCHANGED <<op, copy, seen, draft>>
  /\ UNCHANGED <<passphrase, memory, registry, folder, holding, launchVars, defaultVars,
                 promised, rescanned, calm, writes, faults>>

(* The disk is full, or the app's passphrase no longer opens the file: a 500. *)
Fails(w) ==
  /\ \/ pc[w] \in {"save", "reload", "store"} /\ Fault
     \/ pc[w] = "reload" /\ ~Opens(w) /\ UNCHANGED faults
  /\ Done(w)
  /\ UNCHANGED <<store, passphrase, memory, registry, folder, holding, launchVars, defaultVars,
                 kept, promised, rescanned, calm, writes>>

----------------------------------------------------------------------------
(* _refresh_secrets: the file is read first, then the shared mapping is emptied and filled. *)

Reload(r) ==
  /\ Opens(r)
  /\ Go(r, "reload", "clear")
  /\ copy' = [copy EXCEPT ![r] = store.secrets]
  /\ UNCHANGED <<store, passphrase, memory, registry, folder, draft, op, seen, holding, launchVars, defaultVars,
                 kept, promised, rescanned, calm, writes, faults>>

Clear(r) ==
  /\ Go(r, "clear", "update")
  /\ memory' = NoSecret
  /\ UNCHANGED <<store, passphrase, registry, folder, draft, op, copy, seen, holding, launchVars, defaultVars,
                 kept, promised, rescanned, calm, writes, faults>>

(* Mutant: only what was written is put back. *)
UpdateOne(r) ==
  /\ Go(r, "update", "scan")
  /\ memory' = [memory EXCEPT ![op[r].name] = op[r].value]
  /\ UNCHANGED <<store, passphrase, registry, folder, draft, op, copy, seen, holding, launchVars, defaultVars,
                 kept, promised, rescanned, calm, writes, faults>>

Update(r) ==
  /\ Go(r, "update", "scan")
  /\ memory' = [n \in Names |-> IF copy[r][n] # Absent THEN copy[r][n] ELSE memory[n]]
  /\ UNCHANGED <<store, passphrase, registry, folder, draft, op, copy, seen, holding, launchVars, defaultVars,
                 kept, promised, rescanned, calm, writes, faults>>

(* RegistryHolder(...): the configured names are worked out, and the folder is scanned. *)
Scan(r) ==
  /\ Go(r, "scan", "publish")
  /\ seen' = [seen EXCEPT ![r] = [configured |-> Configured(memory), version |-> folder]]
  /\ UNCHANGED <<store, passphrase, memory, registry, folder, draft, op, copy, holding, launchVars, defaultVars,
                 kept, promised, rescanned, calm, writes, faults>>

Publish(r) ==
  LET n == op[r].name IN
  /\ pc[r] = "publish"
  /\ registry' = seen[r]
  /\ holding' = {}
  /\ promised' = [promised EXCEPT ![n] = IF @ = Unsure /\ op[r].kind = "put" THEN op[r].value ELSE @]
  /\ Done(r)
  /\ UNCHANGED <<store, passphrase, memory, folder, launchVars, defaultVars, kept, rescanned, calm, writes, faults>>

----------------------------------------------------------------------------
(* rescan: the folder is read into the registry object the request found. *)

Rescan(r) ==
  /\ "rescan" \in Ops /\ Begins(r)
  /\ Go(r, "idle", "assign")
  /\ seen' = [seen EXCEPT ![r] = [configured |-> {}, version |-> folder]]
  /\ holding' = holding \cup {r}
  /\ UNCHANGED <<store, passphrase, memory, registry, folder, draft, op, copy, launchVars, defaultVars,
                 kept, promised, rescanned, faults>>

Assign(r) ==
  /\ pc[r] = "assign"
  /\ registry' = IF r \in holding THEN [registry EXCEPT !.version = seen[r].version] ELSE registry
  /\ holding' = holding \ {r}
  /\ rescanned' = IF seen[r].version > rescanned THEN seen[r].version ELSE rescanned
  /\ Done(r)
  /\ UNCHANGED <<store, passphrase, memory, folder, launchVars, defaultVars, kept, promised, calm, writes, faults>>

Edit ==
  /\ folder < MaxEdits /\ folder' = folder + 1
  /\ UNCHANGED <<store, passphrase, memory, registry, requestVars, launchVars, defaultVars,
                 kept, promised, rescanned, calm, writes, faults>>

----------------------------------------------------------------------------
(* put_defaults: what is valid is merged into the fields that are stored, the damaged and the   *)
(* missing ones at their built-in value, and all of them are written; the rest is refused.      *)

(* Mutant: the fields that are not given fall back to the built-in values. *)
MergeAnew(r) ==
  /\ "default" \in Ops /\ Begins(r)
  /\ Go(r, "idle", "store")
  /\ op' = [op EXCEPT ![r] = [NoOp EXCEPT !.kind = "default"]]
  /\ \E given \in Bodies :
       /\ draft' = [draft EXCEPT ![r] = [f \in Fields |-> IF given[f] # Absent THEN given[f] ELSE Builtin[f]]]
       /\ inForce' = [f \in Fields |-> IF given[f] # Absent THEN Unsure ELSE inForce[f]]
  /\ UNCHANGED <<store, passphrase, memory, registry, folder, copy, seen, holding, launchVars, defaults,
                 kept, promised, rescanned, faults>>

Merge(r) ==
  /\ "default" \in Ops /\ Begins(r)
  /\ Go(r, "idle", "store")
  /\ op' = [op EXCEPT ![r] = [NoOp EXCEPT !.kind = "default"]]
  /\ \E given \in Bodies :
       /\ draft' = [draft EXCEPT ![r] = [f \in Fields |->
            IF given[f] # Absent THEN given[f] ELSE IF defaults[f] # Absent THEN defaults[f] ELSE Builtin[f]]]
       /\ inForce' = [f \in Fields |-> IF given[f] # Absent THEN Unsure ELSE inForce[f]]
  /\ UNCHANGED <<store, passphrase, memory, registry, folder, copy, seen, holding, launchVars, defaults,
                 kept, promised, rescanned, faults>>

StoreDefaults(r) ==
  /\ pc[r] = "store"
  /\ defaults' = draft[r]
  /\ inForce' = [f \in Fields |-> IF inForce[f] = Unsure THEN draft[r][f] ELSE inForce[f]]
  /\ Done(r)
  /\ UNCHANGED <<store, passphrase, memory, registry, folder, holding, launchVars,
                 kept, promised, rescanned, calm, writes, faults>>

----------------------------------------------------------------------------
(* launch_run refuses an invalid workflow and a missing key; the run thread copies the keys     *)
(* after the environment is ready. A mapping that changes size under the copy raises.           *)

LaunchTo(l, from, to) == launch[l] = from /\ launch' = [launch EXCEPT ![l] = to]

Accepts == Required \subseteq registry.configured \cap Configured(memory)

Launch(l) ==
  /\ Accepts
  /\ LaunchTo(l, "idle", "admitted")
  /\ UNCHANGED <<store, passphrase, memory, registry, folder, requestVars, size, injected, defaultVars,
                 kept, promised, rescanned, calm, writes, faults>>

CopyKeys(l) ==
  /\ LaunchTo(l, "admitted", "copying")
  /\ size' = [size EXCEPT ![l] = Cardinality(Configured(memory))]
  /\ UNCHANGED <<store, passphrase, memory, registry, folder, requestVars, injected, defaultVars,
                 kept, promised, rescanned, calm, writes, faults>>

Inject(l) ==
  LET changed == size[l] > 0 /\ size[l] # Cardinality(Configured(memory)) IN
  /\ LaunchTo(l, "copying", IF changed THEN "raised" ELSE "running")
  /\ injected' = [injected EXCEPT ![l] =
       [n \in Names |-> IF n \in Required /\ size[l] > 0 /\ ~changed THEN memory[n] ELSE Absent]]
  /\ size' = [size EXCEPT ![l] = 0]
  /\ UNCHANGED <<store, passphrase, memory, registry, folder, requestVars, defaultVars,
                 kept, promised, rescanned, calm, writes, faults>>

(* The app is stopped and started again; its threads are gone, the command line goes on. *)
Restart ==
  LET Of(f, none) == [w \in Writers |-> IF w \in Requests THEN none ELSE f[w]] IN
  /\ Fault
  /\ Created(store, folder)
  /\ pc' = Of(pc, "idle") /\ op' = Of(op, NoOp) /\ draft' = Of(draft, NoDraft)
  /\ copy' = Of(copy, NoSecret) /\ seen' = Of(seen, NotSeen)
  /\ UNCHANGED <<store, folder, defaultVars, promised, calm, writes>>

Write(w) ==
  \/ Save(w)
  \/ \E k \in Kinds, n \in Names, v \in Values \cup {Absent} : Load(w, k, n, v)
Refresh(r) == Reload(r) \/ Clear(r) \/ Update(r) \/ Scan(r) \/ Publish(r)

Next ==
  \/ \E w \in Writers : Write(w) \/ Fails(w)
  \/ \E r \in Requests : Refresh(r) \/ Rescan(r) \/ Assign(r) \/ Merge(r) \/ StoreDefaults(r)
  \/ \E l \in Launches : Launch(l) \/ CopyKeys(l) \/ Inject(l)
  \/ Edit \/ Restart

Spec == Init /\ [][Next]_vars

----------------------------------------------------------------------------
AtRest == \A r \in Requests : pc[r] = "idle"

(* Every variable stays in its range; a request leaves nothing behind, and only one that is     *)
(* scanning holds the registry.                                                                *)
TypeOK ==
  /\ store.secrets \in Secrets /\ memory \in Secrets
  /\ {store.passphrase, passphrase} \subseteq Passphrases
  /\ registry.configured \subseteq Names /\ registry.version \in 0 .. folder
  /\ calm \in BOOLEAN /\ defaults \in Defaults /\ draft \in [Writers -> Defaults]
  /\ holding \subseteq {r \in Requests : pc[r] = "assign"}
  /\ \A w \in Writers :
       /\ copy[w] \in Secrets
       /\ op[w] # NoOp <=> pc[w] \notin {"idle", "assign"}
  /\ \A l \in Launches : injected[l] # NoSecret => launch[l] = "running"

(* A key that was in the store all the while is in memory again whenever no write is under way:  *)
(* a refresh that fails, is overlapped by another or finds the store rekeyed never loses it.     *)
KeysAreKept == AtRest => kept \subseteq Configured(memory)

(* The invariant of the keys: store, memory and requests are typed, and no key is lost.          *)
SettingsInv == TypeOK /\ KeysAreKept

(* While operations follow one another, what was answered is in force: a key that was set, and  *)
(* not written since, is what runs are given and what the registry offers, without a restart   *)
(* and after one; and a rescan has picked up the workflow that was edited before it, also when  *)
(* a key is saved after it.  A global default that was set is what the next run is given, and  *)
(* the defaults beside it stay what they were, unless the environment overrides them.           *)
AnsweredIsInForce ==
  calm /\ AtRest =>
    /\ \A n \in Names :
         promised[n] \in Values => memory[n] = promised[n] /\ n \in registry.configured
    /\ rescanned = folder => registry.version = folder
    /\ \A f \in Fields : inForce[f] # Unsure =>
         Effective(f) = IF Environ[f] # Absent THEN Environ[f] ELSE inForce[f]

(* While the keys a run requires stay in the store, it is given all of them or none.             *)
NeverHalfTheKeys ==
  Required \subseteq kept => \A l \in Launches : Configured(injected[l]) \in {{}, Required}
=============================================================================
