------------------------------- MODULE ApiProofs -------------------------------
(***************************************************************************)
(* What is proved of two parts of the app's API.  Of the Settings tab, for *)
(* any number of requests, keys, defaults and launches: no key is lost, no *)
(* run is given half of its keys, and what was answered is in force.  Of   *)
(* the event stream, for files of any length and any number of             *)
(* connections: it sends only what was recorded, and when it ends it has   *)
(* sent all that the run recorded before its last status.                  *)
(***************************************************************************)
EXTENDS Settings, FiniteSetTheorems, TLAPS

(***************************************************************************)
(* The inductive invariant of Settings.                                    *)
(***************************************************************************)

Refreshing == {"reload", "clear", "update", "scan", "publish"}
Places == {"idle", "save", "store", "assign"} \cup Refreshing
Operations == [kind : Kinds \cup {"none"}, name : Names \cup {Absent}, value : Values \cup {Absent}]
Scans == [configured : SUBSET Names, version : Nat]

\* Where a writer is, and what it has in hand there.
WritersTyped ==
  /\ pc \in [Writers -> Places] /\ \A w \in Shell : pc[w] \in {"idle", "save"}
  /\ op \in [Writers -> Operations] /\ copy \in [Writers -> Secrets]
  /\ seen \in [Writers -> Scans] /\ \A w \in Writers : seen[w].version <= folder
  /\ draft \in [Writers -> Defaults]
  /\ holding \subseteq {r \in Requests : pc[r] = "assign"}

OperationsFit ==
  \A w \in Writers :
    /\ pc[w] \in {"idle", "assign"} => op[w] = NoOp
    /\ pc[w] = "store" => op[w].kind = "default"
    /\ pc[w] \in {"save"} \cup Refreshing => op[w].kind \in {"put", "delete", "rekey"}
    /\ op[w].kind = "put" => op[w].name \in Names /\ op[w].value \in Values

StoresTyped ==
  /\ store \in [secrets : Secrets, passphrase : Passphrases] /\ passphrase \in Passphrases
  /\ memory \in Secrets /\ defaults \in Defaults
  /\ folder \in Nat /\ rescanned \in 0 .. folder
  /\ registry \in Scans /\ registry.version <= folder
  /\ promised \in [Names -> Values \cup {Unsure}] /\ calm \in BOOLEAN
  /\ DOMAIN inForce = Fields

LaunchesTyped ==
  /\ launch \in [Launches -> {"idle", "admitted", "copying", "running", "raised"}]
  /\ DOMAIN size = Launches /\ injected \in [Launches -> Secrets]
  /\ \A l \in Launches : injected[l] # NoSecret => launch[l] = "running"

TypeInv == WritersTyped /\ OperationsFit /\ StoresTyped /\ LaunchesTyped

\* The mapping in memory is empty or has every key that was there all the while; it is empty only
\* while some request is about to fill it, with at least those keys.
KeysInv ==
  /\ kept \subseteq Configured(store.secrets)
  /\ \A r \in Requests : pc[r] \in {"clear", "update"} => kept \subseteq Configured(copy[r])
  /\ memory = NoSecret \/ kept \subseteq Configured(memory)
  /\ (\A r \in Requests : pc[r] # "update") => kept \subseteq Configured(memory)

\* While operations follow one another, one writer at most is under way.
Alone == \A v, w \in Writers : pc[v] # "idle" /\ pc[w] # "idle" => v = w

\* What was answered is in the store; it is in memory but while the mapping is filled; and what a
\* request has in hand is what the store has.
KeysAnswered ==
  /\ \A n \in Names : promised[n] \in Values =>
       /\ store.secrets[n] = promised[n] /\ n \in registry.configured
       /\ (\A r \in Requests : pc[r] # "update") => memory[n] = promised[n]
  /\ \A w \in Writers : pc[w] = "save" =>
       copy[w] = store.secrets /\ (op[w].kind # "rekey" => promised[op[w].name] = Unsure)
  /\ \A r \in Requests :
       /\ pc[r] \in Refreshing /\ op[r].kind = "put" => store.secrets[op[r].name] = op[r].value
       /\ pc[r] \in {"clear", "update"} => copy[r] = store.secrets
       /\ pc[r] = "update" => memory = NoSecret
       /\ pc[r] \in {"scan", "publish"} => memory = store.secrets
       /\ pc[r] = "publish" => seen[r].configured = Configured(memory)

\* A scan is as new as the last rescan that was answered.
ScanAnswered ==
  /\ rescanned <= registry.version
  /\ \A r \in Requests : /\ pc[r] \in {"publish", "assign"} => rescanned <= seen[r].version
                         /\ pc[r] = "assign" => r \in holding

\* The defaults that were answered are stored, and a merge keeps those it does not set.
StoredOr(f) == IF defaults[f] # Absent THEN defaults[f] ELSE Builtin[f]
DefaultsAnswered ==
  \A f \in Fields :
    /\ inForce[f] # Unsure /\ Environ[f] = Absent => StoredOr(f) = inForce[f]
    /\ \A r \in Requests : pc[r] = "store" =>
         /\ draft[r][f] # Absent
         /\ inForce[f] # Unsure /\ Environ[f] = Absent => draft[r][f] = StoredOr(f)

CalmInv == calm => Alone /\ KeysAnswered /\ ScanAnswered /\ DefaultsAnswered

SettingsIInv == TypeInv /\ KeysInv /\ NeverHalfTheKeys /\ CalmInv

LEMMA Facts ==
  /\ Requests \subseteq Writers /\ Shell \subseteq Writers /\ \A r \in Requests : r \notin Shell
  /\ Absent \notin Values /\ Unsure \notin Values /\ Unsure # Absent /\ Absent \notin Levels
  /\ Builtin \in [Fields -> Levels] /\ Environ \in Defaults /\ Bodies \subseteq Defaults
  /\ NoOp \in Operations /\ NoOp.kind = "none"
  /\ NoSecret \in Secrets /\ NotSeen \in Scans /\ NotSeen.version = 0 /\ NoDraft \in Defaults
BY SettingsAssumption
DEF SettingsAssumption, Writers, NoOp, NoSecret, NotSeen, NoDraft, Operations, Secrets, Scans,
    Defaults, Kinds

LEMMA ConfiguredIs ==
  /\ \A s : Configured(s) \subseteq Names
  /\ \A s : \A n \in Names : n \in Configured(s) <=> s[n] # Absent
BY DEF Configured

LEMMA NothingConfigured == Configured(NoSecret) = {}
BY DEF Configured, NoSecret

(***************************************************************************)
(* Types.                                                                  *)
(***************************************************************************)

LEMMA InitTyped == Init => TypeInv
<1>. SUFFICES ASSUME Init PROVE TypeInv
  OBVIOUS
<1>1. WritersTyped
  BY Facts DEF Init, WritersTyped, Places
<1>2. OperationsFit
  BY Facts DEF Init, OperationsFit, Refreshing
<1>3. StoresTyped
  <2>1. Configured(memory) \subseteq Names
    BY DEF Configured
  <2>. QED BY <2>1, Facts DEF Init, StoresTyped, Scans, Passphrases
<1>4. LaunchesTyped
  BY Facts DEF Init, LaunchesTyped
<1>. QED BY <1>1, <1>2, <1>3, <1>4 DEF TypeInv

\* A writer goes on: the others are where they were.
LEMMA WriterGoesOn ==
  ASSUME TypeInv, NEW w \in Writers, NEW place \in Places,
         pc' = [pc EXCEPT ![w] = place], w \in Shell => place \in {"idle", "save"},
         op'[w] \in Operations, op' = [op EXCEPT ![w] = op'[w]],
         copy'[w] \in Secrets, copy' = [copy EXCEPT ![w] = copy'[w]],
         seen'[w] \in Scans, seen' = [seen EXCEPT ![w] = seen'[w]],
         draft'[w] \in Defaults, draft' = [draft EXCEPT ![w] = draft'[w]],
         folder' = folder, seen'[w].version <= folder,
         holding' \subseteq {r \in Requests : pc'[r] = "assign"},
         place \in {"idle", "assign"} => op'[w] = NoOp,
         place = "store" => op'[w].kind = "default",
         place \in {"save"} \cup Refreshing => op'[w].kind \in {"put", "delete", "rekey"},
         op'[w].kind = "put" => op'[w].name \in Names /\ op'[w].value \in Values
  PROVE  WritersTyped' /\ OperationsFit'
<1>1. \A v \in Writers : v # w =>
        /\ pc'[v] = pc[v] /\ op'[v] = op[v] /\ copy'[v] = copy[v] /\ seen'[v] = seen[v]
        /\ draft'[v] = draft[v]
  BY DEF TypeInv, WritersTyped
<1>2. pc'[w] = place
  BY DEF TypeInv, WritersTyped
<1>3. WritersTyped'
  BY <1>1, <1>2, Facts DEF TypeInv, WritersTyped
<1>4. OperationsFit'
  BY <1>1, <1>2 DEF TypeInv, OperationsFit
<1>. QED BY <1>3, <1>4

LEMMA HoldingStays ==
  ASSUME TypeInv, NEW w \in Writers, NEW place \in Places, pc' = [pc EXCEPT ![w] = place],
         pc[w] # "assign" \/ holding' \subseteq holding \ {w}, holding' \subseteq holding
  PROVE  holding' \subseteq {r \in Requests : pc'[r] = "assign"}
BY Facts DEF TypeInv, WritersTyped

\* A request that is answered, or dies, leaves nothing.
LEMMA DoneTyped ==
  ASSUME TypeInv, NEW w \in Writers, Done(w), folder' = folder,
         pc[w] # "assign" \/ holding' \subseteq holding \ {w}, holding' \subseteq holding
  PROVE  WritersTyped' /\ OperationsFit'
<1>1. /\ pc' = [pc EXCEPT ![w] = "idle"]
      /\ op'[w] = NoOp /\ op' = [op EXCEPT ![w] = op'[w]]
      /\ copy'[w] = NoSecret /\ copy' = [copy EXCEPT ![w] = copy'[w]]
      /\ seen'[w] = NotSeen /\ seen' = [seen EXCEPT ![w] = seen'[w]]
      /\ draft'[w] = NoDraft /\ draft' = [draft EXCEPT ![w] = draft'[w]]
  BY DEF Done, TypeInv, WritersTyped
<1>2. holding' \subseteq {r \in Requests : pc'[r] = "assign"}
  BY <1>1, HoldingStays DEF Places
<1>3. folder \in Nat /\ seen'[w].version <= folder
  BY <1>1, Facts DEF TypeInv, StoresTyped
<1>4. op'[w].kind = "none"
  BY <1>1, Facts
<1>. QED BY <1>1, <1>2, <1>3, <1>4, Facts, WriterGoesOn DEF Places, Refreshing

LEMMA ChangedIsSecrets ==
  ASSUME TypeInv, NEW w \in Writers PROVE Changed(w) \in Secrets
<1>1. copy[w] \in Secrets /\ op[w].value \in Values \cup {Absent}
  BY DEF TypeInv, WritersTyped, Operations
<1>. QED BY <1>1 DEF Changed, Secrets

\* The steps of a refresh move one request and change at most its copy or its scan.
LEMMA RefreshTyped ==
  ASSUME TypeInv, NEW r \in Requests, Reload(r) \/ Clear(r) \/ Update(r) \/ Scan(r)
  PROVE  WritersTyped' /\ OperationsFit'
<1>. USE Facts
<1>1. PICK place \in Refreshing :
        /\ pc' = [pc EXCEPT ![r] = place] /\ pc[r] \in Refreshing
        /\ UNCHANGED <<op, draft, holding, folder>>
  BY DEF Reload, Clear, Update, Scan, Go, Refreshing
<1>2. /\ copy'[r] \in Secrets /\ copy' = [copy EXCEPT ![r] = copy'[r]]
  <2>1. store.secrets \in Secrets /\ copy \in [Writers -> Secrets]
    BY DEF TypeInv, StoresTyped, WritersTyped
  <2>. QED BY <2>1 DEF Reload, Clear, Update, Scan
<1>3. /\ seen'[r] \in Scans /\ seen' = [seen EXCEPT ![r] = seen'[r]] /\ seen'[r].version <= folder
  <2>1. seen \in [Writers -> Scans] /\ folder \in Nat /\ seen[r].version <= folder
    BY DEF TypeInv, StoresTyped, WritersTyped
  <2>2. Configured(memory) \subseteq Names
    BY ConfiguredIs
  <2>3. CASE Scan(r)
    <3>1. PICK s : /\ s = [configured |-> Configured(memory), version |-> folder]
                   /\ seen' = [seen EXCEPT ![r] = s]
      BY <2>3 DEF Scan
    <3>2. s \in Scans /\ s.version = folder
      BY <2>1, <2>2, <3>1 DEF Scans
    <3>3. seen'[r] = s /\ s.version <= folder
      BY <2>1, <3>1, <3>2
    <3>4. seen' = [seen EXCEPT ![r] = seen'[r]]
      BY <3>1, <3>3
    <3>. QED BY <3>2, <3>3, <3>4
  <2>4. CASE UNCHANGED seen
    BY <2>1, <2>4
  <2>. QED BY <2>3, <2>4 DEF Reload, Clear, Update
<1>4. holding' \subseteq {s \in Requests : pc'[s] = "assign"}
  BY <1>1, HoldingStays DEF Places, Refreshing
<1>5. op'[r] \in Operations /\ op' = [op EXCEPT ![r] = op'[r]]
      /\ draft'[r] \in Defaults /\ draft' = [draft EXCEPT ![r] = draft'[r]]
  BY <1>1 DEF TypeInv, WritersTyped
<1>6. /\ op'[r].kind \in {"put", "delete", "rekey"}
      /\ op'[r].kind = "put" => op'[r].name \in Names /\ op'[r].value \in Values
  BY <1>1 DEF TypeInv, OperationsFit
<1>. HIDE DEF Refreshing
<1>7. place \in Places /\ place \notin {"idle", "assign", "store", "save"}
  BY <1>1 DEF Places, Refreshing
<1>8. WritersTyped' /\ OperationsFit'
  BY <1>1, <1>2, <1>3, <1>4, <1>5, <1>6, <1>7, WriterGoesOn
<1>. QED BY <1>8

LEMMA LoadTyped ==
  ASSUME TypeInv, NEW w \in Writers,
         NEW k \in Kinds, NEW n \in Names, NEW v \in Values \cup {Absent},
         Load(w, k, n, v)
  PROVE  WritersTyped' /\ OperationsFit'
<1>. USE Facts
<1>1. PICK place \in {"reload", "save"} :
        /\ pc' = [pc EXCEPT ![w] = place] /\ pc[w] = "idle" /\ (w \in Shell => place = "save")
  <2>1. /\ pc' = [pc EXCEPT ![w] =
                     IF k = "delete" /\ store.secrets[n] = Absent THEN "reload" ELSE "save"]
        /\ pc[w] = "idle"
    BY DEF Load, Go
  <2>2. w \in Shell => ~(k = "delete" /\ store.secrets[n] = Absent)
    BY DEF Load
  <2>. QED BY <2>1, <2>2
<1>2. PICK o : /\ o = [kind |-> k, name |-> IF k = "rekey" THEN Absent ELSE n, value |-> v]
               /\ op' = [op EXCEPT ![w] = o]
  BY DEF Load
<1>3. o \in Operations /\ o.kind = k /\ o.value = v /\ (k # "rekey" => o.name = n)
  BY <1>2 DEF Operations
<1>4. k \in {"put", "delete", "rekey"} /\ (k = "put" => v \in Values)
  BY DEF Load
<1>5. op'[w] = o
  BY <1>2 DEF TypeInv, WritersTyped
<1>6. copy'[w] \in Secrets /\ copy' = [copy EXCEPT ![w] = copy'[w]]
  BY DEF Load, TypeInv, StoresTyped, WritersTyped
<1>7. /\ seen'[w] \in Scans /\ seen' = [seen EXCEPT ![w] = seen'[w]] /\ seen'[w].version <= folder
      /\ draft'[w] \in Defaults /\ draft' = [draft EXCEPT ![w] = draft'[w]]
      /\ UNCHANGED <<holding, folder>>
  BY DEF Load, TypeInv, WritersTyped
<1>8. holding' \subseteq {r \in Requests : pc'[r] = "assign"}
  BY <1>1, <1>7, HoldingStays DEF Places, Refreshing
<1>9. place \in Places /\ place \notin {"idle", "assign", "store"}
  BY <1>1 DEF Places, Refreshing
<1>10. /\ op'[w] \in Operations /\ op' = [op EXCEPT ![w] = op'[w]]
       /\ op'[w].kind \in {"put", "delete", "rekey"}
       /\ op'[w].kind = "put" => op'[w].name \in Names /\ op'[w].value \in Values
  BY <1>2, <1>3, <1>4, <1>5
<1>11. /\ pc' = [pc EXCEPT ![w] = place] /\ (w \in Shell => place \in {"idle", "save"})
       /\ folder' = folder
  BY <1>1, <1>7
<1>. QED BY <1>6, <1>7, <1>8, <1>9, <1>10, <1>11, WriterGoesOn

LEMMA SaveTyped ==
  ASSUME TypeInv, NEW w \in Writers, Save(w) PROVE WritersTyped' /\ OperationsFit'
<1>. USE Facts
<1>1. CASE Done(w)
  BY <1>1, DoneTyped DEF Save
<1>2. CASE ~Done(w)
  <2>1. /\ w \notin Shell /\ pc[w] = "save" /\ pc' = [pc EXCEPT ![w] = "reload"]
        /\ UNCHANGED <<op, copy, seen, draft, holding, folder>>
    BY <1>2 DEF Save, Go
  <2>2. holding' \subseteq {r \in Requests : pc'[r] = "assign"}
    BY <2>1, HoldingStays DEF Places, Refreshing
  <2>3. /\ op'[w] \in Operations /\ op' = [op EXCEPT ![w] = op'[w]]
        /\ copy'[w] \in Secrets /\ copy' = [copy EXCEPT ![w] = copy'[w]]
        /\ seen'[w] \in Scans /\ seen' = [seen EXCEPT ![w] = seen'[w]] /\ seen'[w].version <= folder
        /\ draft'[w] \in Defaults /\ draft' = [draft EXCEPT ![w] = draft'[w]]
    BY <2>1 DEF TypeInv, WritersTyped
  <2>4. /\ op'[w].kind \in {"put", "delete", "rekey"}
        /\ op'[w].kind = "put" => op'[w].name \in Names /\ op'[w].value \in Values
    BY <2>1 DEF TypeInv, OperationsFit
  <2>5. "reload" \in Places
    BY DEF Places, Refreshing
  <2>. QED BY <2>1, <2>2, <2>3, <2>4, <2>5, WriterGoesOn
<1>. QED BY <1>1, <1>2

LEMMA RescanTyped ==
  ASSUME TypeInv, NEW r \in Requests, Rescan(r) PROVE WritersTyped' /\ OperationsFit'
<1>. USE Facts
<1>1. /\ pc[r] = "idle" /\ pc' = [pc EXCEPT ![r] = "assign"]
      /\ UNCHANGED <<op, copy, draft, folder>> /\ holding' = holding \cup {r}
  BY DEF Rescan, Go
<1>2. PICK s : s = [configured |-> {}, version |-> folder] /\ seen' = [seen EXCEPT ![r] = s]
  BY DEF Rescan
<1>3. folder \in Nat /\ s \in Scans /\ s.version = folder
  BY <1>2 DEF Scans, TypeInv, StoresTyped
<1>4. /\ op'[r] = NoOp /\ op' = [op EXCEPT ![r] = op'[r]]
      /\ copy'[r] \in Secrets /\ copy' = [copy EXCEPT ![r] = copy'[r]]
      /\ seen'[r] = s /\ seen' = [seen EXCEPT ![r] = seen'[r]]
      /\ draft'[r] \in Defaults /\ draft' = [draft EXCEPT ![r] = draft'[r]]
  BY <1>1, <1>2 DEF TypeInv, WritersTyped, OperationsFit
<1>5. holding' \subseteq {q \in Requests : pc'[q] = "assign"}
  BY <1>1 DEF TypeInv, WritersTyped
<1>6. op'[r].kind = "none" /\ "assign" \in Places /\ "assign" \notin Refreshing
  BY <1>4 DEF Places, Refreshing
<1>7. op'[r] \in Operations /\ seen'[r].version <= folder /\ seen'[r] \in Scans
  BY <1>3, <1>4
<1>8. WritersTyped' /\ OperationsFit'
  BY <1>1, <1>4, <1>5, <1>6, <1>7, WriterGoesOn
<1>. QED BY <1>8

LEMMA MergeTyped ==
  ASSUME TypeInv, NEW r \in Requests, Merge(r) PROVE WritersTyped' /\ OperationsFit'
<1>. USE Facts
<1>1. /\ pc[r] = "idle" /\ pc' = [pc EXCEPT ![r] = "store"]
      /\ UNCHANGED <<copy, seen, holding, folder>>
  BY DEF Merge, Go
<1>2. PICK o : o = [NoOp EXCEPT !.kind = "default"] /\ op' = [op EXCEPT ![r] = o]
  BY DEF Merge
<1>3. o \in Operations /\ o.kind = "default"
  BY <1>2 DEF NoOp, Operations, Kinds
<1>4. PICK d : d \in Defaults /\ draft' = [draft EXCEPT ![r] = d]
  <2>1. PICK given \in Bodies :
          draft' = [draft EXCEPT ![r] = [f \in Fields |-> IF given[f] # Absent THEN given[f]
                      ELSE IF defaults[f] # Absent THEN defaults[f] ELSE Builtin[f]]]
    BY DEF Merge
  <2>2. given \in Defaults /\ defaults \in Defaults
    BY DEF TypeInv, StoresTyped
  <2>. QED BY <2>1, <2>2 DEF Defaults
<1>5. /\ op'[r] = o /\ op' = [op EXCEPT ![r] = op'[r]]
      /\ copy'[r] \in Secrets /\ copy' = [copy EXCEPT ![r] = copy'[r]]
      /\ seen'[r] \in Scans /\ seen' = [seen EXCEPT ![r] = seen'[r]] /\ seen'[r].version <= folder
      /\ draft'[r] = d /\ draft' = [draft EXCEPT ![r] = draft'[r]]
  BY <1>1, <1>2, <1>4 DEF TypeInv, WritersTyped
<1>6. holding' \subseteq {q \in Requests : pc'[q] = "assign"}
  BY <1>1, HoldingStays DEF Places
<1>7. "store" \in Places /\ "store" \notin Refreshing
  BY DEF Places, Refreshing
<1>8. op'[r] \in Operations /\ op'[r].kind = "default" /\ draft'[r] \in Defaults
  BY <1>3, <1>4, <1>5
<1>. QED BY <1>1, <1>5, <1>6, <1>7, <1>8, WriterGoesOn

LEMMA WritersStep == TypeInv /\ [Next]_vars => WritersTyped' /\ OperationsFit'
<1>. SUFFICES ASSUME TypeInv, [Next]_vars PROVE WritersTyped' /\ OperationsFit'
  OBVIOUS
<1>. USE Facts
<1>1. ASSUME NEW w \in Writers, Write(w) PROVE WritersTyped' /\ OperationsFit'
  BY <1>1, SaveTyped, LoadTyped DEF Write
<1>2. ASSUME NEW w \in Writers, Fails(w) PROVE WritersTyped' /\ OperationsFit'
  BY <1>2, DoneTyped DEF Fails
<1>3. ASSUME NEW r \in Requests, Refresh(r) PROVE WritersTyped' /\ OperationsFit'
  <2>1. CASE Publish(r)
    BY <2>1, DoneTyped DEF Publish
  <2>. QED BY <1>3, <2>1, RefreshTyped DEF Refresh
<1>4. ASSUME NEW r \in Requests, Assign(r) PROVE WritersTyped' /\ OperationsFit'
  BY <1>4, DoneTyped DEF Assign
<1>5. ASSUME NEW r \in Requests, StoreDefaults(r) PROVE WritersTyped' /\ OperationsFit'
  BY <1>5, DoneTyped DEF StoreDefaults
<1>6. CASE UNCHANGED <<requestVars, folder>>
  BY <1>6 DEF TypeInv, WritersTyped, OperationsFit, requestVars
<1>7. CASE Edit
  BY <1>7 DEF TypeInv, WritersTyped, OperationsFit, StoresTyped, requestVars, Edit, Scans
<1>8. CASE Restart
  <2>1. /\ pc' = [w \in Writers |-> IF w \in Requests THEN "idle" ELSE pc[w]]
        /\ op' = [w \in Writers |-> IF w \in Requests THEN NoOp ELSE op[w]]
        /\ draft' = [w \in Writers |-> IF w \in Requests THEN NoDraft ELSE draft[w]]
        /\ copy' = [w \in Writers |-> IF w \in Requests THEN NoSecret ELSE copy[w]]
        /\ seen' = [w \in Writers |-> IF w \in Requests THEN NotSeen ELSE seen[w]]
        /\ holding' = {} /\ folder' = folder /\ folder \in Nat
    BY <1>8 DEF Restart, Created, TypeInv, StoresTyped
  <2>2. WritersTyped'
    BY <2>1 DEF TypeInv, WritersTyped, Places
  <2>3. OperationsFit'
    BY <2>1 DEF TypeInv, OperationsFit, Refreshing
  <2>. QED BY <2>2, <2>3
<1>9. ASSUME NEW l \in Launches, Launch(l) \/ CopyKeys(l) \/ Inject(l)
      PROVE  UNCHANGED <<requestVars, folder>>
  BY <1>9 DEF Launch, CopyKeys, Inject
<1>10. UNCHANGED vars => UNCHANGED <<requestVars, folder>>
  BY DEF vars
<1>. QED
  BY <1>1, <1>2, <1>3, <1>4, <1>5, <1>6, <1>7, <1>8, <1>9, <1>10, RescanTyped, MergeTyped
  DEF Next

LEMMA StoresStep == TypeInv /\ [Next]_vars => StoresTyped'
<1>. SUFFICES ASSUME TypeInv, [Next]_vars PROVE StoresTyped'
  OBVIOUS
<1>. USE Facts
<1>t. StoresTyped
  BY DEF TypeInv
<1>1. ASSUME NEW w \in Writers, Save(w) PROVE StoresTyped'
  <2>1. Changed(w) \in Secrets
    BY ChangedIsSecrets
  <2>2. PICK p \in Passphrases : store' = [secrets |-> Changed(w), passphrase |-> p]
    BY <1>1, <1>t DEF Save, StoresTyped, Passphrases
  <2>3. store' \in [secrets : Secrets, passphrase : Passphrases]
    BY <2>1, <2>2
  <2>4. UNCHANGED <<passphrase, memory, defaults, folder, rescanned, registry, promised, calm,
                    inForce>>
    BY <1>1 DEF Save, defaultVars
  <2>. QED BY <1>t, <2>3, <2>4 DEF StoresTyped
<1>2. ASSUME NEW w \in Writers, NEW k \in Kinds, NEW n \in Names, NEW v \in Values \cup {Absent},
             Load(w, k, n, v)
      PROVE  StoresTyped'
  <2>1. UNCHANGED <<store, passphrase, memory, defaults, folder, rescanned, registry, inForce>>
    BY <1>2 DEF Load, defaultVars
  <2>2. calm' \in BOOLEAN
    BY <1>2 DEF Load, Begins
  <2>3. promised' \in [Names -> Values \cup {Unsure}]
    BY <1>2, <1>t DEF Load, StoresTyped
  <2>. QED BY <1>t, <2>1, <2>2, <2>3 DEF StoresTyped
<1>3. ASSUME NEW w \in Writers, Fails(w) PROVE StoresTyped'
  BY <1>3, <1>t DEF Fails, StoresTyped, defaultVars
<1>4. ASSUME NEW r \in Requests, Reload(r) \/ Scan(r) PROVE StoresTyped'
  BY <1>4, <1>t DEF Reload, Scan, StoresTyped, defaultVars
<1>5. ASSUME NEW r \in Requests, Clear(r) PROVE StoresTyped'
  BY <1>5, <1>t DEF Clear, StoresTyped, defaultVars
<1>6. ASSUME NEW r \in Requests, Update(r) PROVE StoresTyped'
  <2>1. copy[r] \in Secrets /\ memory \in Secrets
    BY <1>t DEF TypeInv, WritersTyped, StoresTyped
  <2>2. memory' \in Secrets
    BY <1>6, <2>1 DEF Update, Secrets
  <2>3. UNCHANGED <<store, passphrase, defaults, folder, rescanned, registry, promised, calm,
                    inForce>>
    BY <1>6 DEF Update, defaultVars
  <2>. QED BY <1>t, <2>2, <2>3 DEF StoresTyped
<1>7. ASSUME NEW r \in Requests, Publish(r) PROVE StoresTyped'
  <2>1. registry' \in Scans /\ registry'.version <= folder
    BY <1>7 DEF Publish, TypeInv, WritersTyped
  <2>2. op[r].kind = "put" => op[r].value \in Values
    BY DEF TypeInv, OperationsFit
  <2>3. promised' \in [Names -> Values \cup {Unsure}]
    BY <1>7, <1>t, <2>2 DEF Publish, StoresTyped
  <2>4. UNCHANGED <<store, passphrase, memory, defaults, folder, rescanned, calm, inForce>>
    BY <1>7 DEF Publish, defaultVars
  <2>. QED BY <1>t, <2>1, <2>3, <2>4 DEF StoresTyped
<1>8. ASSUME NEW r \in Requests, Rescan(r) PROVE StoresTyped'
  BY <1>8, <1>t DEF Rescan, Begins, StoresTyped, defaultVars
<1>9. ASSUME NEW r \in Requests, Assign(r) PROVE StoresTyped'
  <2>1. seen[r].version \in 0 .. folder
    BY <1>t DEF TypeInv, WritersTyped, StoresTyped, Scans
  <2>2. registry' \in Scans /\ registry'.version <= folder
    BY <1>9, <1>t, <2>1 DEF Assign, StoresTyped, Scans
  <2>3. rescanned' \in 0 .. folder
    BY <1>9, <1>t, <2>1 DEF Assign, StoresTyped
  <2>4. UNCHANGED <<store, passphrase, memory, defaults, folder, promised, calm, inForce>>
    BY <1>9 DEF Assign, defaultVars
  <2>. QED BY <1>t, <2>2, <2>3, <2>4 DEF StoresTyped
<1>10. ASSUME NEW r \in Requests, Merge(r) PROVE StoresTyped'
  <2>1. UNCHANGED <<store, passphrase, memory, defaults, folder, rescanned, registry, promised>>
    BY <1>10 DEF Merge
  <2>2. calm' \in BOOLEAN /\ DOMAIN inForce' = Fields
    BY <1>10 DEF Merge, Begins
  <2>. QED BY <1>t, <2>1, <2>2 DEF StoresTyped
<1>11. ASSUME NEW r \in Requests, StoreDefaults(r) PROVE StoresTyped'
  <2>1. draft[r] \in Defaults
    BY DEF TypeInv, WritersTyped
  <2>2. UNCHANGED <<store, passphrase, memory, folder, rescanned, registry, promised, calm>>
    BY <1>11 DEF StoreDefaults
  <2>3. defaults' \in Defaults /\ DOMAIN inForce' = Fields
    BY <1>11, <2>1 DEF StoreDefaults
  <2>. QED BY <1>t, <2>2, <2>3 DEF StoresTyped
<1>12. ASSUME NEW l \in Launches, Launch(l) \/ CopyKeys(l) \/ Inject(l) PROVE StoresTyped'
  BY <1>12, <1>t DEF Launch, CopyKeys, Inject, StoresTyped, defaultVars
<1>13. CASE Edit
  <2>1. /\ folder' = folder + 1 /\ folder \in Nat /\ rescanned \in 0 .. folder
        /\ registry.version \in Nat /\ registry.version <= folder
    BY <1>13, <1>t DEF Edit, StoresTyped, Scans
  <2>2. folder' \in Nat /\ rescanned \in 0 .. folder' /\ registry.version <= folder'
    BY <2>1
  <2>3. UNCHANGED <<store, passphrase, memory, defaults, rescanned, registry, promised, calm,
                    inForce>>
    BY <1>13 DEF Edit, defaultVars
  <2>. QED BY <1>t, <2>2, <2>3 DEF StoresTyped
<1>14. CASE Restart
  <2>1. /\ UNCHANGED <<store, folder, defaults, inForce, promised, calm>>
        /\ passphrase' = store.passphrase /\ memory' = store.secrets /\ rescanned' = folder
        /\ registry' = [configured |-> Configured(store.secrets), version |-> folder]
    BY <1>14 DEF Restart, Created, defaultVars
  <2>2. Configured(store.secrets) \subseteq Names
    BY ConfiguredIs
  <2>3. registry' \in Scans /\ registry'.version <= folder
    BY <1>t, <2>1, <2>2 DEF Scans, StoresTyped
  <2>4. passphrase' \in Passphrases /\ memory' \in Secrets /\ rescanned' \in 0 .. folder
    BY <1>t, <2>1 DEF StoresTyped
  <2>. QED BY <1>t, <2>1, <2>3, <2>4 DEF StoresTyped
<1>15. CASE UNCHANGED vars
  BY <1>15, <1>t DEF vars, StoresTyped, defaultVars
<1>. QED
  BY <1>1, <1>2, <1>3, <1>4, <1>5, <1>6, <1>7, <1>8, <1>9, <1>10, <1>11, <1>12, <1>13, <1>14, <1>15
  DEF Next, Write, Refresh

\* Only a launch and a restart concern what was injected.
LEMMA LaunchesAside ==
  [Next]_vars =>
    \/ UNCHANGED launchVars
    \/ Restart
    \/ \E l \in Launches : Launch(l) \/ CopyKeys(l) \/ Inject(l)
<1>. SUFFICES ASSUME [Next]_vars, ~Restart,
                     ~(\E l \in Launches : Launch(l) \/ CopyKeys(l) \/ Inject(l))
              PROVE  UNCHANGED launchVars
  OBVIOUS
<1>1. ASSUME NEW w \in Writers, Write(w) \/ Fails(w) PROVE UNCHANGED launchVars
  BY <1>1 DEF Write, Save, Load, Fails
<1>2. ASSUME NEW r \in Requests,
             Refresh(r) \/ Rescan(r) \/ Assign(r) \/ Merge(r) \/ StoreDefaults(r)
      PROVE  UNCHANGED launchVars
  BY <1>2 DEF Refresh, Reload, Clear, Update, Scan, Publish, Rescan, Assign, Merge, StoreDefaults
<1>3. CASE Edit  BY <1>3 DEF Edit
<1>4. CASE UNCHANGED vars  BY <1>4 DEF vars
<1>. QED BY <1>1, <1>2, <1>3, <1>4 DEF Next

\* What a launch is given: the required keys as they are in memory, or nothing.
LEMMA InjectGives ==
  ASSUME TypeInv, NEW l \in Launches, Inject(l)
  PROVE  \E given \in Secrets :
           /\ injected' = [injected EXCEPT ![l] = given]
           /\ \/ given = NoSecret
              \/ /\ Configured(memory) # {} /\ launch'[l] = "running"
                 /\ \A n \in Names : given[n] = IF n \in Required THEN memory[n] ELSE Absent
<1>1. /\ memory \in Secrets
      /\ launch \in [Launches -> {"idle", "admitted", "copying", "running", "raised"}]
  BY DEF TypeInv, StoresTyped, LaunchesTyped
<1>. DEFINE changed == size[l] > 0 /\ size[l] # Cardinality(Configured(memory))
            given == [n \in Names |->
                        IF n \in Required /\ size[l] > 0 /\ ~changed THEN memory[n] ELSE Absent]
<1>2. /\ injected' = [injected EXCEPT ![l] = given]
      /\ launch' = [launch EXCEPT ![l] = IF changed THEN "raised" ELSE "running"]
  BY DEF Inject, LaunchTo
<1>3. given \in Secrets
  BY <1>1, Facts DEF Secrets
<1>4. CASE size[l] > 0 /\ ~changed
  <2>1. Cardinality(Configured(memory)) > 0
    BY <1>4
  <2>2. Configured(memory) # {}
    BY <2>1, FS_EmptySet
  <2>3. launch'[l] = "running"
    BY <1>1, <1>2, <1>4
  <2>4. \A n \in Names : given[n] = IF n \in Required THEN memory[n] ELSE Absent
    BY <1>4
  <2>. HIDE DEF given, changed
  <2>. QED BY <1>2, <1>3, <2>2, <2>3, <2>4
<1>5. CASE ~(size[l] > 0 /\ ~changed)
  <2>1. given = NoSecret
    BY <1>5 DEF NoSecret
  <2>. HIDE DEF given, changed
  <2>. QED BY <1>2, <1>3, <2>1
<1>. QED BY <1>4, <1>5

LEMMA LaunchesStep == TypeInv /\ [Next]_vars => LaunchesTyped'
<1>. SUFFICES ASSUME TypeInv, [Next]_vars PROVE LaunchesTyped'
  OBVIOUS
<1>t. LaunchesTyped
  BY DEF TypeInv
<1>1. CASE UNCHANGED launchVars
  BY <1>1, <1>t DEF LaunchesTyped, launchVars
<1>2. CASE Restart
  BY <1>2, <1>t, Facts DEF Restart, Created, LaunchesTyped
<1>3. ASSUME NEW l \in Launches, Launch(l) PROVE LaunchesTyped'
  <2>1. /\ launch[l] = "idle" /\ launch' = [launch EXCEPT ![l] = "admitted"]
        /\ UNCHANGED <<size, injected>>
    BY <1>3 DEF Launch, LaunchTo
  <2>. QED BY <1>t, <2>1 DEF LaunchesTyped
<1>4. ASSUME NEW l \in Launches, CopyKeys(l) PROVE LaunchesTyped'
  <2>1. /\ launch[l] = "admitted" /\ launch' = [launch EXCEPT ![l] = "copying"]
        /\ DOMAIN size' = DOMAIN size /\ injected' = injected
    BY <1>4 DEF CopyKeys, LaunchTo
  <2>. QED BY <1>t, <2>1 DEF LaunchesTyped
<1>5. ASSUME NEW l \in Launches, Inject(l) PROVE LaunchesTyped'
  <2>1. PICK next \in {"raised", "running"} :
          /\ launch[l] = "copying" /\ launch' = [launch EXCEPT ![l] = next]
          /\ DOMAIN size' = DOMAIN size
    BY <1>5 DEF Inject, LaunchTo
  <2>2. PICK given \in Secrets :
          injected' = [injected EXCEPT ![l] = given] /\ (given # NoSecret => launch'[l] = "running")
    BY <1>5, InjectGives
  <2>. QED BY <1>t, <2>1, <2>2 DEF LaunchesTyped
<1>. QED BY <1>1, <1>2, <1>3, <1>4, <1>5, LaunchesAside

LEMMA TypesAreKept == TypeInv /\ [Next]_vars => TypeInv'
BY WritersStep, StoresStep, LaunchesStep DEF TypeInv

LEMMA TypeOKHolds == TypeInv => TypeOK
<1>. SUFFICES ASSUME TypeInv PROVE TypeOK
  OBVIOUS
<1>. USE Facts
<1>1. /\ store.secrets \in Secrets /\ memory \in Secrets
      /\ {store.passphrase, passphrase} \subseteq Passphrases
      /\ registry.configured \subseteq Names /\ registry.version \in 0 .. folder
      /\ calm \in BOOLEAN /\ defaults \in Defaults
  BY DEF TypeInv, StoresTyped, Scans
<1>2. draft \in [Writers -> Defaults] /\ holding \subseteq {r \in Requests : pc[r] = "assign"}
  BY DEF TypeInv, WritersTyped
<1>3. ASSUME NEW w \in Writers
      PROVE  copy[w] \in Secrets /\ (op[w] # NoOp <=> pc[w] \notin {"idle", "assign"})
  <2>1. copy[w] \in Secrets /\ pc[w] \in Places
    BY DEF TypeInv, WritersTyped
  <2>2. pc[w] \notin {"idle", "assign"} => op[w].kind # "none"
    BY <2>1 DEF TypeInv, OperationsFit, Places, Refreshing
  <2>3. pc[w] \in {"idle", "assign"} => op[w] = NoOp
    BY DEF TypeInv, OperationsFit
  <2>. QED BY <2>1, <2>2, <2>3
<1>4. \A l \in Launches : injected[l] # NoSecret => launch[l] = "running"
  BY DEF TypeInv, LaunchesTyped
<1>. QED BY <1>1, <1>2, <1>3, <1>4 DEF TypeOK

-------------------------------------------------------------------------------
(* The keys. *)

LEMMA KeysStep == TypeInv /\ KeysInv /\ [Next]_vars => KeysInv'
<1>. SUFFICES ASSUME TypeInv, KeysInv, [Next]_vars PROVE KeysInv'
  OBVIOUS
<1>. USE Facts
<1>t. /\ pc \in [Writers -> Places] /\ copy \in [Writers -> Secrets] /\ memory \in Secrets
      /\ \A w \in Shell : pc[w] \in {"idle", "save"}
  BY DEF TypeInv, WritersTyped, StoresTyped
\* A step that moves one writer, and neither to nor from the mapping in memory.
<1>0. ASSUME UNCHANGED <<store, memory, kept>>, NEW w \in Writers,
             NEW place \in Places \ {"update"}, pc[w] # "update", pc' = [pc EXCEPT ![w] = place],
             \A r \in Requests : r # w => copy'[r] = copy[r],
             place = "clear" => kept \subseteq Configured(copy'[w])
      PROVE  KeysInv'
  <2>1. \A r \in Requests : pc'[r] = IF r = w THEN place ELSE pc[r]
    BY <1>0, <1>t
  <2>2. \A r \in Requests : pc'[r] \in {"clear", "update"} => kept \subseteq Configured(copy'[r])
    BY <1>0, <2>1 DEF KeysInv, Configured
  <2>3. (\A r \in Requests : pc'[r] # "update") => \A r \in Requests : pc[r] # "update"
    BY <1>0, <2>1
  <2>. QED BY <1>0, <2>2, <2>3 DEF KeysInv, Configured
<1>1. ASSUME NEW w \in Writers, Save(w) PROVE KeysInv'
  <2>1. store'.secrets = Changed(w) /\ kept' = kept \cap Configured(Changed(w)) /\ memory' = memory
    BY <1>1 DEF Save
  <2>2. PICK place \in {"idle", "reload"} : pc[w] = "save" /\ pc' = [pc EXCEPT ![w] = place]
    BY <1>1 DEF Save, Done, Go
  <2>3. \A r \in Requests : r # w => copy'[r] = copy[r]
    BY <1>1, <1>t DEF Save, Done
  <2>4. \A r \in Requests : pc'[r] = IF r = w THEN place ELSE pc[r]
    BY <2>2, <1>t
  <2>5. \A r \in Requests : pc'[r] \in {"clear", "update"} => kept' \subseteq Configured(copy'[r])
    BY <2>1, <2>2, <2>3, <2>4 DEF KeysInv, Configured
  <2>6. (\A r \in Requests : pc'[r] # "update") => \A r \in Requests : pc[r] # "update"
    BY <2>2, <2>4
  <2>. QED BY <2>1, <2>5, <2>6 DEF KeysInv, Configured
<1>2. ASSUME NEW w \in Writers, NEW k \in Kinds, NEW n \in Names, NEW v \in Values \cup {Absent},
             Load(w, k, n, v)
      PROVE  KeysInv'
  <2>1. PICK place \in {"reload", "save"} : pc[w] = "idle" /\ pc' = [pc EXCEPT ![w] = place]
    BY <1>2 DEF Load, Go
  <2>2. UNCHANGED <<store, memory, kept>> /\ \A r \in Requests : r # w => copy'[r] = copy[r]
    BY <1>2, <1>t DEF Load
  <2>. QED BY <2>1, <2>2, <1>0 DEF Places, Refreshing
<1>3. ASSUME NEW w \in Writers, Done(w), UNCHANGED <<store, memory, kept>>, pc[w] # "update"
      PROVE  KeysInv'
  BY <1>3, <1>0, <1>t DEF Done, Places
<1>4. ASSUME NEW r \in Requests, Refresh(r) PROVE KeysInv'
  <2>1. CASE Reload(r)
    <3>1. /\ pc[r] = "reload" /\ pc' = [pc EXCEPT ![r] = "clear"]
          /\ UNCHANGED <<store, memory, kept>>
          /\ copy'[r] = store.secrets /\ \A q \in Requests : q # r => copy'[q] = copy[q]
      BY <2>1, <1>t DEF Reload, Go
    <3>2. kept \subseteq Configured(copy'[r])
      BY <3>1 DEF KeysInv, Configured
    <3>. QED BY <3>1, <3>2, <1>0 DEF Places, Refreshing
  <2>2. CASE Clear(r)
    <3>1. /\ pc[r] = "clear" /\ pc' = [pc EXCEPT ![r] = "update"] /\ memory' = NoSecret
          /\ UNCHANGED <<store, kept, copy>>
      BY <2>2 DEF Clear, Go
    <3>2. \A q \in Requests : pc'[q] = IF q = r THEN "update" ELSE pc[q]
      BY <3>1, <1>t
    <3>3. \A q \in Requests : pc'[q] \in {"clear", "update"} => kept \subseteq Configured(copy[q])
      BY <3>1, <3>2 DEF KeysInv
    <3>. QED BY <3>1, <3>2, <3>3 DEF KeysInv, Configured
  <2>3. CASE Update(r)
    <3>1. /\ pc[r] = "update" /\ pc' = [pc EXCEPT ![r] = "scan"] /\ UNCHANGED <<store, kept, copy>>
          /\ memory' = [n \in Names |-> IF copy[r][n] # Absent THEN copy[r][n] ELSE memory[n]]
      BY <2>3 DEF Update, Go
    <3>2. kept \subseteq Configured(memory')
      BY <3>1 DEF KeysInv, Configured
    <3>3. \A q \in Requests : pc'[q] \in {"clear", "update"} => kept \subseteq Configured(copy[q])
      BY <3>1, <1>t DEF KeysInv
    <3>. QED BY <3>1, <3>2, <3>3 DEF KeysInv, Configured
  <2>4. CASE Scan(r)
    <3>1. /\ pc[r] = "scan" /\ pc' = [pc EXCEPT ![r] = "publish"]
          /\ UNCHANGED <<store, memory, kept, copy>>
      BY <2>4 DEF Scan, Go
    <3>. QED BY <3>1, <1>0 DEF Places, Refreshing
  <2>5. CASE Publish(r)
    BY <2>5, <1>3 DEF Publish
  <2>. QED BY <1>4, <2>1, <2>2, <2>3, <2>4, <2>5 DEF Refresh
<1>5. ASSUME NEW r \in Requests, Rescan(r) \/ Merge(r) PROVE KeysInv'
  <2>1. PICK place \in {"assign", "store"} :
          /\ pc[r] = "idle" /\ pc' = [pc EXCEPT ![r] = place]
          /\ UNCHANGED <<store, memory, kept, copy>>
    BY <1>5 DEF Rescan, Merge, Go
  <2>. QED BY <2>1, <1>0 DEF Places, Refreshing
<1>6. ASSUME NEW r \in Requests, Assign(r) \/ StoreDefaults(r) PROVE KeysInv'
  BY <1>6, <1>3 DEF Assign, StoreDefaults
<1>7. ASSUME NEW w \in Writers, Fails(w) PROVE KeysInv'
  BY <1>7, <1>3 DEF Fails
<1>8. CASE UNCHANGED <<store, memory, kept, requestVars>>
  BY <1>8 DEF KeysInv, Configured, requestVars
<1>9. CASE Restart
  <2>1. /\ store' = store /\ memory' = store.secrets /\ kept' = Configured(store.secrets)
        /\ \A r \in Requests : pc'[r] = "idle"
    BY <1>9 DEF Restart, Created
  <2>. QED BY <2>1 DEF KeysInv, Configured
<1>10. ASSUME NEW l \in Launches, Launch(l) \/ CopyKeys(l) \/ Inject(l)
       PROVE  UNCHANGED <<store, memory, kept, requestVars>>
  BY <1>10 DEF Launch, CopyKeys, Inject
<1>11. Edit \/ UNCHANGED vars => UNCHANGED <<store, memory, kept, requestVars>>
  BY DEF vars, Edit
<1>. QED BY <1>1, <1>2, <1>4, <1>5, <1>6, <1>7, <1>8, <1>9, <1>10, <1>11 DEF Next, Write

LEMMA HalfStep == TypeInv /\ KeysInv /\ NeverHalfTheKeys /\ [Next]_vars => NeverHalfTheKeys'
<1>. SUFFICES ASSUME TypeInv, KeysInv, NeverHalfTheKeys, [Next]_vars, Required \subseteq kept',
                     NEW m \in Launches
              PROVE  Configured(injected'[m]) \in {{}, Required}
  BY DEF NeverHalfTheKeys, Configured
<1>0. Required \subseteq Names
  BY SettingsAssumption DEF SettingsAssumption
<1>1. CASE Restart
  BY <1>1, NothingConfigured DEF Restart, Created
<1>2. CASE ~Restart
  <2>1. kept' \subseteq kept
    <3>1. ASSUME NEW w \in Writers, Write(w) \/ Fails(w) PROVE kept' \subseteq kept
      BY <3>1 DEF Write, Save, Load, Fails
    <3>2. ASSUME NEW r \in Requests,
                 Refresh(r) \/ Rescan(r) \/ Assign(r) \/ Merge(r) \/ StoreDefaults(r)
          PROVE  kept' \subseteq kept
      BY <3>2 DEF Refresh, Reload, Clear, Update, Scan, Publish, Rescan, Assign, Merge,
         StoreDefaults
    <3>3. ASSUME NEW l \in Launches, Launch(l) \/ CopyKeys(l) \/ Inject(l)
              PROVE kept' \subseteq kept
      BY <3>3 DEF Launch, CopyKeys, Inject
    <3>4. Edit \/ UNCHANGED vars => kept' \subseteq kept
      BY DEF Edit, vars
    <3>. QED BY <1>2, <3>1, <3>2, <3>3, <3>4 DEF Next
  <2>2. Required \subseteq kept /\ Configured(injected[m]) \in {{}, Required}
    BY <2>1 DEF NeverHalfTheKeys
  <2>3. CASE UNCHANGED injected
    BY <2>2, <2>3
  <2>4. ASSUME NEW l \in Launches, Inject(l) PROVE Configured(injected'[m]) \in {{}, Required}
    <3>1. PICK given \in Secrets :
            /\ injected' = [injected EXCEPT ![l] = given]
            /\ \/ given = NoSecret
               \/ /\ Configured(memory) # {}
                  /\ \A n \in Names : given[n] = IF n \in Required THEN memory[n] ELSE Absent
      BY <2>4, InjectGives
    <3>2. injected'[m] = IF m = l THEN given ELSE injected[m]
      BY <3>1 DEF TypeInv, LaunchesTyped
    <3>3. ASSUME given # NoSecret PROVE Configured(given) = Required
      <4>1. kept \subseteq Configured(memory)
        BY <3>1, <3>3, NothingConfigured DEF KeysInv
      <4>. QED BY <1>0, <2>2, <3>1, <3>3, <4>1 DEF Configured
    <3>. QED BY <2>2, <3>2, <3>3, NothingConfigured
  <2>5. ASSUME NEW l \in Launches, Launch(l) \/ CopyKeys(l) PROVE UNCHANGED injected
    BY <2>5 DEF Launch, CopyKeys
  <2>. QED BY <1>2, <2>3, <2>4, <2>5, LaunchesAside DEF launchVars
<1>. QED BY <1>1, <1>2

\* The steps of one writer.
Acts(w) ==
  \/ Write(w) \/ Fails(w)
  \/ w \in Requests /\ (Refresh(w) \/ Rescan(w) \/ Assign(w) \/ Merge(w) \/ StoreDefaults(w))

\* While operations follow one another, nobody else is under way.
LEMMA OneActs ==
  ASSUME TypeInv, calm => Alone, calm', NEW w \in Writers, Acts(w)
  PROVE  calm /\ Alone /\ (\A v \in Writers : v # w => pc[v] = "idle" /\ pc'[v] = "idle")
<1>1. PICK place : pc' = [pc EXCEPT ![w] = place]
  BY DEF Acts, Write, Save, Load, Fails, Refresh, Reload, Clear, Update, Scan, Publish, Rescan,
         Assign, Merge, StoreDefaults, Go, Done
<1>2. CASE pc[w] = "idle"
  <2>1. Begins(w)
    BY <1>2 DEF Acts, Write, Save, Load, Fails, Refresh, Reload, Clear, Update, Scan, Publish,
       Rescan,
                Assign, Merge, StoreDefaults, Go
  <2>2. calm /\ \A v \in Writers : pc[v] = "idle"
    BY <2>1 DEF Begins
  <2>. QED BY <1>1, <2>2 DEF TypeInv, WritersTyped
<1>3. CASE pc[w] # "idle"
  <2>1. calm' = calm
    BY <1>3 DEF Acts, Write, Save, Load, Fails, Refresh, Reload, Clear, Update, Scan, Publish,
       Rescan,
                Assign, Merge, StoreDefaults, Go
  <2>2. \A v \in Writers : v # w => pc[v] = "idle"
    BY <1>3, <2>1 DEF Alone
  <2>. QED BY <1>1, <2>1, <2>2 DEF TypeInv, WritersTyped
<1>. QED BY <1>2, <1>3

LEMMA AloneStep == TypeInv /\ (calm => Alone) /\ [Next]_vars => (calm' => calm /\ Alone /\ Alone')
<1>. SUFFICES ASSUME TypeInv, calm => Alone, [Next]_vars, calm' PROVE calm /\ Alone /\ Alone'
  OBVIOUS
<1>1. ASSUME NEW w \in Writers, Acts(w) PROVE calm /\ Alone /\ Alone'
  BY <1>1, OneActs DEF Alone
<1>2. CASE UNCHANGED <<pc, calm>>
  BY <1>2 DEF Alone
<1>3. CASE Restart
  <2>1. calm' = calm /\ pc' = [w \in Writers |-> IF w \in Requests THEN "idle" ELSE pc[w]]
    BY <1>3 DEF Restart
  <2>. QED BY <2>1 DEF Alone
<1>4. ASSUME NEW l \in Launches, Launch(l) \/ CopyKeys(l) \/ Inject(l) PROVE UNCHANGED <<pc, calm>>
  BY <1>4 DEF Launch, CopyKeys, Inject, requestVars
<1>5. Edit \/ UNCHANGED vars => UNCHANGED <<pc, calm>>
  BY DEF Edit, vars, requestVars
<1>. QED BY <1>1, <1>2, <1>3, <1>4, <1>5, Facts DEF Next, Acts

\* A step that writes neither the store nor the mapping, by a request that goes somewhere else.
LEMMA KeysAside ==
  ASSUME KeysAnswered, UNCHANGED <<store, memory, promised>>,
         registry'.configured = registry.configured,
         NEW w \in Writers, pc[w] # "update", pc'[w] \notin {"save"} \cup Refreshing,
         \A v \in Writers : v # w => pc[v] = "idle" /\ pc'[v] = "idle"
  PROVE  KeysAnswered'
<1>1. \A r \in Writers : pc[r] # "update" /\ pc'[r] \notin {"save"} \cup Refreshing
  BY DEF Refreshing
<1>. QED BY <1>1, Facts DEF KeysAnswered, Refreshing

LEMMA KeysAnsweredStep ==
  ASSUME TypeInv, KeysAnswered, NEW w \in Writers, Acts(w),
         \A v \in Writers : v # w => pc[v] = "idle" /\ pc'[v] = "idle"
  PROVE  KeysAnswered'
<1>. USE Facts
<1>t. /\ pc \in [Writers -> Places] /\ store.secrets \in Secrets /\ memory \in Secrets
      /\ copy \in [Writers -> Secrets] /\ op \in [Writers -> Operations]
      /\ promised \in [Names -> Values \cup {Unsure}] /\ seen \in [Writers -> Scans]
      /\ (op[w].kind = "put" => op[w].name \in Names /\ op[w].value \in Values)
  BY DEF TypeInv, WritersTyped, StoresTyped, OperationsFit
<1>o. \A r \in Requests : r = w \/ (pc[r] = "idle" /\ pc'[r] = "idle")
  OBVIOUS
<1>1. CASE Save(w)
  <2>1. /\ store'.secrets = Changed(w) /\ UNCHANGED <<memory, promised, registry>> /\ pc[w] = "save"
    BY <1>1 DEF Save
  <2>2. copy[w] = store.secrets /\ (op[w].kind # "rekey" => promised[op[w].name] = Unsure)
    BY <2>1 DEF KeysAnswered
  <2>3. \A n \in Names : promised[n] \in Values => Changed(w)[n] = store.secrets[n]
    BY <1>t, <2>2 DEF Changed, Secrets
  <2>4. \/ pc'[w] = "idle"
        \/ pc'[w] = "reload" /\ op' = op
    BY <1>1, <1>t DEF Save, Done, Go
  <2>5. op[w].kind = "put" => Changed(w)[op[w].name] = op[w].value
    BY <1>t, <2>2 DEF Changed, Secrets
  <2>6. \A n \in Names : promised[n] \in Values =>
          store.secrets[n] = promised[n] /\ n \in registry.configured /\ memory[n] = promised[n]
    BY <1>o, <2>1 DEF KeysAnswered
  <2>7. \A n \in Names : promised'[n] \in Values =>
          /\ store'.secrets[n] = promised'[n] /\ n \in registry'.configured
          /\ memory'[n] = promised'[n]
    BY <2>1, <2>3, <2>6
  <2>8. \A v \in Writers : pc'[v] # "save"
    BY <2>4
  <2>9. \A r \in Requests :
          /\ pc'[r] \notin {"clear", "update", "scan", "publish"}
          /\ pc'[r] = "reload" /\ op'[r].kind = "put" => store'.secrets[op'[r].name] = op'[r].value
    BY <1>o, <2>1, <2>4, <2>5
  <2>. QED BY <2>7, <2>8, <2>9 DEF KeysAnswered, Refreshing
<1>2. ASSUME NEW k \in Kinds, NEW n \in Names, NEW v \in Values \cup {Absent}, Load(w, k, n, v)
      PROVE  KeysAnswered'
  <2>1. /\ pc[w] = "idle" /\ UNCHANGED <<store, memory, registry>> /\ copy'[w] = store.secrets
        /\ promised' = IF k = "rekey" THEN promised ELSE [promised EXCEPT ![n] = Unsure]
    BY <1>2, <1>t DEF Load, Go
  <2>2. PICK o : /\ o = [kind |-> k, name |-> IF k = "rekey" THEN Absent ELSE n, value |-> v]
                 /\ op' = [op EXCEPT ![w] = o]
    BY <1>2 DEF Load
  <2>3. op'[w].kind = k /\ (k # "rekey" => op'[w].name = n)
    BY <1>t, <2>2
  <2>4. pc'[w] = "save" \/ (pc'[w] = "reload" /\ k = "delete")
    BY <1>2, <1>t DEF Load, Go
  <2>5. \A m \in Names : promised'[m] \in Values => promised[m] = promised'[m]
    BY <1>t, <2>1
  <2>6. k # "rekey" => promised'[n] = Unsure
    BY <1>t, <2>1
  <2>7. \A m \in Names : promised[m] \in Values =>
          store.secrets[m] = promised[m] /\ m \in registry.configured /\ memory[m] = promised[m]
    BY <1>o, <2>1 DEF KeysAnswered
  <2>8. \A m \in Names : promised'[m] \in Values =>
          /\ store'.secrets[m] = promised'[m] /\ m \in registry'.configured
          /\ memory'[m] = promised'[m]
    BY <2>1, <2>5, <2>7
  <2>9. \A x \in Writers : pc'[x] = "save" =>
          copy'[x] = store'.secrets /\ (op'[x].kind # "rekey" => promised'[op'[x].name] = Unsure)
    BY <2>1, <2>3, <2>6
  <2>10. \A r \in Requests :
           /\ pc'[r] \notin {"clear", "update", "scan", "publish"}
           /\ pc'[r] \in Refreshing => op'[r].kind # "put"
    BY <1>o, <2>3, <2>4 DEF Refreshing
  <2>. QED BY <2>8, <2>9, <2>10 DEF KeysAnswered
<1>3. CASE Fails(w)
  <2>1. /\ UNCHANGED <<store, memory, registry, promised>> /\ pc[w] # "update" /\ pc'[w] = "idle"
    BY <1>3, <1>t DEF Fails, Done
  <2>. QED BY <2>1, KeysAside DEF Refreshing
<1>4. CASE w \in Requests /\ Reload(w)
  <2>1. /\ pc[w] = "reload" /\ pc'[w] = "clear" /\ copy'[w] = store.secrets
        /\ UNCHANGED <<store, memory, registry, promised, op>>
    BY <1>4, <1>t DEF Reload, Go
  <2>. QED BY <1>o, <2>1 DEF KeysAnswered, Refreshing
<1>5. CASE w \in Requests /\ Clear(w)
  <2>1. /\ pc[w] = "clear" /\ pc'[w] = "update" /\ memory' = NoSecret
        /\ UNCHANGED <<store, registry, promised, op, copy>>
    BY <1>5, <1>t DEF Clear, Go
  <2>2. \A n \in Names : promised'[n] \in Values =>
          /\ store'.secrets[n] = promised'[n] /\ n \in registry'.configured
          /\ (\A r \in Requests : pc'[r] # "update") => memory'[n] = promised'[n]
    BY <1>5, <2>1 DEF KeysAnswered
  <2>3. \A v \in Writers : pc'[v] # "save"
    BY <2>1
  <2>4. \A r \in Requests : r = w \/ pc'[r] \notin Refreshing
    BY <1>o DEF Refreshing
  <2>5. /\ op'[w].kind = "put" => store'.secrets[op'[w].name] = op'[w].value
        /\ copy'[w] = store'.secrets
    BY <1>5, <2>1 DEF KeysAnswered, Refreshing
  <2>. QED BY <2>1, <2>2, <2>3, <2>4, <2>5 DEF KeysAnswered, Refreshing
<1>6. CASE w \in Requests /\ Update(w)
  <2>1. /\ pc[w] = "update" /\ pc'[w] = "scan" /\ UNCHANGED <<store, registry, promised, op, copy>>
        /\ memory' = [n \in Names |-> IF copy[w][n] # Absent THEN copy[w][n] ELSE memory[n]]
    BY <1>6, <1>t DEF Update, Go
  <2>2. memory = NoSecret /\ copy[w] = store.secrets
    BY <1>6, <2>1 DEF KeysAnswered
  <2>3. memory' = store.secrets
    <3>1. memory' = [n \in Names |-> store.secrets[n]]
      BY <2>1, <2>2 DEF NoSecret
    <3>. QED BY <1>t, <3>1 DEF Secrets
  <2>. QED BY <1>o, <2>1, <2>3 DEF KeysAnswered, Refreshing
<1>7. CASE w \in Requests /\ Scan(w)
  <2>1. /\ pc[w] = "scan" /\ pc'[w] = "publish"
        /\ UNCHANGED <<store, memory, registry, promised, op, copy>>
        /\ seen'[w].configured = Configured(memory)
    BY <1>7, <1>t DEF Scan, Go
  <2>2. Configured(memory)' = Configured(memory)
    BY <2>1 DEF Configured
  <2>. QED BY <1>o, <2>1, <2>2 DEF KeysAnswered, Refreshing
<1>8. CASE w \in Requests /\ Publish(w)
  <2>1. /\ pc[w] = "publish" /\ pc'[w] = "idle" /\ UNCHANGED <<store, memory>>
        /\ registry' = seen[w]
    BY <1>8, <1>t DEF Publish, Done
  <2>2. memory = store.secrets /\ seen[w].configured = Configured(memory)
    BY <1>8, <2>1 DEF KeysAnswered
  <2>3. \A n \in Names : promised'[n] \in Values =>
          \/ promised[n] = promised'[n]
          \/ n = op[w].name /\ op[w].kind = "put" /\ promised'[n] = op[w].value
    BY <1>8, <1>t DEF Publish
  <2>4. \A n \in Names : promised'[n] \in Values => store.secrets[n] = promised'[n]
    BY <1>8, <2>1, <2>3 DEF KeysAnswered, Refreshing
  <2>5. \A n \in Names : promised'[n] \in Values =>
          n \in registry'.configured /\ memory[n] = promised'[n]
    BY <2>1, <2>2, <2>4, ConfiguredIs
  <2>. QED BY <1>o, <2>1, <2>4, <2>5 DEF KeysAnswered, Refreshing
<1>9. CASE w \in Requests /\ (Rescan(w) \/ Merge(w))
  <2>1. /\ UNCHANGED <<store, memory, registry, promised>> /\ pc[w] = "idle"
        /\ pc'[w] \in {"assign", "store"}
    BY <1>9, <1>t DEF Rescan, Merge, Go
  <2>. QED BY <2>1, KeysAside DEF Refreshing
<1>10. CASE w \in Requests /\ (Assign(w) \/ StoreDefaults(w))
  <2>1. /\ UNCHANGED <<store, memory, promised>> /\ pc[w] # "update" /\ pc'[w] = "idle"
    BY <1>10, <1>t DEF Assign, StoreDefaults, Done
  <2>2. registry'.configured = registry.configured
    BY <1>10 DEF Assign, StoreDefaults, TypeInv, StoresTyped, Scans
  <2>. QED BY <2>1, <2>2, KeysAside DEF Refreshing
<1>. QED BY <1>1, <1>2, <1>3, <1>4, <1>5, <1>6, <1>7, <1>8, <1>9, <1>10 DEF Acts, Write, Refresh

LEMMA ScanAnsweredStep ==
  ASSUME TypeInv, ScanAnswered, NEW w \in Writers, Acts(w),
         \A v \in Writers : v # w => pc[v] = "idle" /\ pc'[v] = "idle"
  PROVE  ScanAnswered'
<1>. USE Facts
<1>t. /\ pc \in [Writers -> Places] /\ seen \in [Writers -> Scans]
      /\ folder \in Nat /\ rescanned \in 0 .. folder /\ seen[w].version \in Nat
      /\ registry \in Scans /\ registry.version \in Nat
  BY DEF TypeInv, WritersTyped, StoresTyped, Scans
<1>o. \A r \in Requests : r = w \/ (pc[r] = "idle" /\ pc'[r] = "idle")
  OBVIOUS
<1>1. CASE UNCHANGED <<registry, rescanned>> /\ pc'[w] \notin {"publish", "assign"}
  BY <1>o, <1>1 DEF ScanAnswered
<1>2. CASE w \in Requests /\ Scan(w)
  <2>1. /\ pc'[w] = "publish" /\ seen'[w].version = folder /\ UNCHANGED <<registry, rescanned>>
    BY <1>2, <1>t DEF Scan, Go
  <2>. QED BY <1>o, <1>t, <2>1 DEF ScanAnswered
<1>3. CASE w \in Requests /\ Rescan(w)
  <2>1. /\ pc'[w] = "assign" /\ seen'[w].version = folder /\ UNCHANGED <<registry, rescanned>>
        /\ w \in holding'
    BY <1>3, <1>t DEF Rescan, Go
  <2>. QED BY <1>o, <1>t, <2>1 DEF ScanAnswered
<1>4. CASE w \in Requests /\ Publish(w)
  <2>1. /\ pc[w] = "publish" /\ pc'[w] = "idle" /\ registry' = seen[w] /\ rescanned' = rescanned
    BY <1>4, <1>t DEF Publish, Done
  <2>. QED BY <1>4, <1>o, <1>t, <2>1 DEF ScanAnswered
<1>5. CASE w \in Requests /\ Assign(w)
  <2>1. pc[w] = "assign" /\ pc'[w] = "idle"
    BY <1>5, <1>t DEF Assign, Done
  <2>2. w \in holding /\ rescanned <= seen[w].version
    BY <1>5, <2>1 DEF ScanAnswered
  <2>3. registry'.version = seen[w].version
    BY <1>5, <1>t, <2>2 DEF Assign, Scans
  <2>4. rescanned' = IF seen[w].version > rescanned THEN seen[w].version ELSE rescanned
    BY <1>5 DEF Assign
  <2>5. rescanned' <= registry'.version
    BY <1>t, <2>2, <2>3, <2>4
  <2>. QED BY <1>o, <2>1, <2>5 DEF ScanAnswered
<1>6. ASSUME ~ (w \in Requests /\ (Scan(w) \/ Rescan(w) \/ Publish(w) \/ Assign(w)))
      PROVE  UNCHANGED <<registry, rescanned>> /\ pc'[w] \notin {"publish", "assign"}
  <2>1. UNCHANGED <<registry, rescanned>>
    BY <1>6 DEF Acts, Write, Save, Load, Fails, Refresh, Reload, Clear, Update, Merge, StoreDefaults
  <2>2. PICK place : pc' = [pc EXCEPT ![w] = place] /\ place \notin {"publish", "assign"}
    BY <1>6 DEF Acts, Write, Save, Load, Fails, Refresh, Reload, Clear, Update, Merge,
       StoreDefaults,
                Done, Go
  <2>. QED BY <1>t, <2>1, <2>2
<1>. QED BY <1>1, <1>2, <1>3, <1>4, <1>5, <1>6

LEMMA DefaultsAnsweredStep ==
  ASSUME TypeInv, DefaultsAnswered, NEW w \in Writers, Acts(w),
         \A v \in Writers : v # w => pc[v] = "idle" /\ pc'[v] = "idle"
  PROVE  DefaultsAnswered'
<1>. USE Facts
<1>t. /\ pc \in [Writers -> Places] /\ draft \in [Writers -> Defaults] /\ DOMAIN inForce = Fields
      /\ defaults \in Defaults
  BY DEF TypeInv, WritersTyped, StoresTyped
<1>o. \A r \in Requests : r = w \/ (pc[r] = "idle" /\ pc'[r] = "idle")
  OBVIOUS
<1>1. CASE UNCHANGED <<defaults, inForce>> /\ pc'[w] # "store"
  BY <1>o, <1>1 DEF DefaultsAnswered, StoredOr
<1>2. CASE w \in Requests /\ Merge(w)
  <2>1. pc'[w] = "store" /\ defaults' = defaults
    BY <1>2, <1>t DEF Merge, Go
  <2>2. PICK given \in Bodies :
          /\ draft' = [draft EXCEPT ![w] = [f \in Fields |-> IF given[f] # Absent THEN given[f]
                         ELSE IF defaults[f] # Absent THEN defaults[f] ELSE Builtin[f]]]
          /\ inForce' = [f \in Fields |-> IF given[f] # Absent THEN Unsure ELSE inForce[f]]
    BY <1>2 DEF Merge
  <2>3. \A f \in Fields : /\ draft'[w][f] = IF given[f] # Absent THEN given[f] ELSE StoredOr(f)
                          /\ StoredOr(f) # Absent /\ StoredOr(f)' = StoredOr(f)
    BY <1>t, <2>1, <2>2 DEF StoredOr
  <2>. QED BY <1>o, <2>1, <2>2, <2>3 DEF DefaultsAnswered
<1>3. CASE w \in Requests /\ StoreDefaults(w)
  <2>1. /\ pc[w] = "store" /\ pc'[w] = "idle" /\ defaults' = draft[w]
        /\ \A f \in Fields : inForce'[f] = IF inForce[f] = Unsure THEN draft[w][f] ELSE inForce[f]
    BY <1>3, <1>t DEF StoreDefaults, Done
  <2>2. \A f \in Fields :
          /\ draft[w][f] # Absent
          /\ inForce[f] # Unsure /\ Environ[f] = Absent =>
               draft[w][f] = StoredOr(f) /\ StoredOr(f) = inForce[f]
    BY <1>3, <2>1 DEF DefaultsAnswered
  <2>3. \A f \in Fields : inForce'[f] # Unsure /\ Environ[f] = Absent => StoredOr(f)' = inForce'[f]
    BY <2>1, <2>2 DEF StoredOr
  <2>. QED BY <1>o, <2>1, <2>3 DEF DefaultsAnswered
<1>4. ASSUME ~ (w \in Requests /\ (Merge(w) \/ StoreDefaults(w)))
      PROVE  UNCHANGED <<defaults, inForce>> /\ pc'[w] # "store"
  <2>1. UNCHANGED <<defaults, inForce>>
    BY <1>4 DEF Acts, Write, Save, Load, Fails, Refresh, Reload, Clear, Update, Scan, Publish,
       Rescan,
                Assign, defaultVars
  <2>2. PICK place : pc' = [pc EXCEPT ![w] = place] /\ place # "store"
    BY <1>4 DEF Acts, Write, Save, Load, Fails, Refresh, Reload, Clear, Update, Scan, Publish,
       Rescan,
                Assign, Done, Go
  <2>. QED BY <1>t, <2>1, <2>2
<1>. QED BY <1>1, <1>2, <1>3, <1>4

LEMMA CalmStep == TypeInv /\ CalmInv /\ [Next]_vars => CalmInv'
<1>. SUFFICES ASSUME TypeInv, CalmInv, [Next]_vars, calm' PROVE CalmInv'
  BY DEF CalmInv
<1>. USE Facts
<1>1. calm /\ Alone /\ Alone' /\ KeysAnswered /\ ScanAnswered /\ DefaultsAnswered
  BY AloneStep DEF CalmInv
<1>2. ASSUME NEW w \in Writers, Acts(w) PROVE KeysAnswered' /\ ScanAnswered' /\ DefaultsAnswered'
  BY <1>1, <1>2, OneActs, KeysAnsweredStep, ScanAnsweredStep, DefaultsAnsweredStep
<1>3. CASE UNCHANGED <<store, memory, registry, promised, rescanned, requestVars, defaultVars>>
  <2>1. KeysAnswered'
    BY <1>1, <1>3 DEF KeysAnswered, requestVars, Configured
  <2>2. ScanAnswered' /\ DefaultsAnswered'
    BY <1>1, <1>3 DEF ScanAnswered, DefaultsAnswered, StoredOr, requestVars, defaultVars
  <2>. QED BY <1>1, <2>1, <2>2 DEF CalmInv
<1>4. CASE Restart
  <2>1. /\ UNCHANGED <<store, folder, defaultVars, promised>>
        /\ memory' = store.secrets /\ rescanned' = folder
        /\ registry' = [configured |-> Configured(store.secrets), version |-> folder]
        /\ \A w \in Requests : pc'[w] = "idle"
        /\ \A w \in Writers : w \notin Requests =>
             pc'[w] = pc[w] /\ op'[w] = op[w] /\ copy'[w] = copy[w]
    BY <1>4 DEF Restart, Created
  <2>2. \A n \in Names : promised[n] \in Values =>
          /\ store'.secrets[n] = promised'[n] /\ n \in registry'.configured
          /\ memory'[n] = promised'[n]
    BY <1>1, <2>1, ConfiguredIs DEF KeysAnswered
  <2>3. \A w \in Writers : pc'[w] = "save" =>
          copy'[w] = store'.secrets /\ (op'[w].kind # "rekey" => promised'[op'[w].name] = Unsure)
    BY <1>1, <2>1 DEF KeysAnswered
  <2>4. KeysAnswered'
    BY <2>1, <2>2, <2>3 DEF KeysAnswered, Refreshing
  <2>5. folder \in Nat
    BY DEF TypeInv, StoresTyped
  <2>6. ScanAnswered'
    BY <2>1, <2>5 DEF ScanAnswered
  <2>7. DefaultsAnswered'
    BY <1>1, <2>1 DEF DefaultsAnswered, StoredOr, defaultVars
  <2>. QED BY <1>1, <2>4, <2>6, <2>7 DEF CalmInv
<1>5. ASSUME NEW l \in Launches, Launch(l) \/ CopyKeys(l) \/ Inject(l)
      PROVE  UNCHANGED <<store, memory, registry, promised, rescanned, requestVars, defaultVars>>
  BY <1>5 DEF Launch, CopyKeys, Inject
<1>6. Edit \/ UNCHANGED vars =>
        UNCHANGED <<store, memory, registry, promised, rescanned, requestVars, defaultVars>>
  BY DEF Edit, vars
<1>. QED BY <1>1, <1>2, <1>3, <1>4, <1>5, <1>6 DEF Next, Acts, CalmInv

LEMMA SettingsBegin == Init => SettingsIInv
<1>. SUFFICES ASSUME Init PROVE SettingsIInv
  OBVIOUS
<1>. USE Facts
<1>1. TypeInv
  BY InitTyped
<1>2. KeysInv
  BY DEF Init, KeysInv, Configured
<1>3. NeverHalfTheKeys
  BY NothingConfigured DEF Init, NeverHalfTheKeys
<1>4. Alone /\ KeysAnswered /\ ScanAnswered
  BY DEF Init, Alone, KeysAnswered, ScanAnswered, Refreshing
<1>5. DefaultsAnswered
  BY DEF Init, DefaultsAnswered, StoredOr, Effective, Resolve
<1>. QED BY <1>1, <1>2, <1>3, <1>4, <1>5 DEF SettingsIInv, CalmInv

LEMMA SettingsAlways == Spec => []SettingsIInv
<1>1. SettingsIInv /\ [Next]_vars => SettingsIInv'
  BY TypesAreKept, KeysStep, HalfStep, CalmStep DEF SettingsIInv
<1>. QED BY <1>1, SettingsBegin, PTL DEF Spec

-------------------------------------------------------------------------------
(* The theorems. *)

\* A key that was in the store all the while is usable whenever no request is under way,
\* for any number of requests and whatever fails: _refresh_secrets loses none.
THEOREM KeysAreNotLost == Spec => []SettingsInv
<1>1. SettingsIInv => SettingsInv
  <2>. SUFFICES ASSUME SettingsIInv PROVE SettingsInv
    OBVIOUS
  <2>1. TypeOK
    BY TypeOKHolds DEF SettingsIInv
  <2>2. KeysAreKept
    BY DEF SettingsIInv, KeysInv, KeysAreKept, AtRest
  <2>. QED BY <2>1, <2>2 DEF SettingsInv
<1>. QED BY <1>1, SettingsAlways, PTL

\* The run thread copies all keys a workflow requires or none, while they stay in the store,
\* although requests empty and fill the mapping it copies.
THEOREM KeysComeTogether == Spec => []NeverHalfTheKeys
BY SettingsAlways, PTL DEF SettingsIInv

\* While operations follow one another, what put_secret, rescan and put_defaults answered is
\* what runs are given, over failures, edits of the folder and restarts.
THEOREM AnswersAreInForce == Spec => []AnsweredIsInForce
<1>1. SettingsIInv => AnsweredIsInForce
  <2>. SUFFICES ASSUME SettingsIInv, calm, AtRest PROVE AnsweredIsInForce
    BY DEF AnsweredIsInForce
  <2>1. KeysAnswered /\ ScanAnswered /\ DefaultsAnswered /\ TypeInv
    BY DEF SettingsIInv, CalmInv
  <2>2. \A n \in Names :
          promised[n] \in Values => memory[n] = promised[n] /\ n \in registry.configured
    BY <2>1 DEF KeysAnswered, AtRest
  <2>3. rescanned = folder => registry.version = folder
    <3>1. registry.version \in Nat /\ registry.version <= folder /\ folder \in Nat
      BY <2>1 DEF TypeInv, StoresTyped, Scans
    <3>. QED BY <2>1, <3>1 DEF ScanAnswered
  <2>4. \A f \in Fields : inForce[f] # Unsure =>
          Effective(f) = IF Environ[f] # Absent THEN Environ[f] ELSE inForce[f]
    BY <2>1 DEF DefaultsAnswered, StoredOr, Effective, Resolve
  <2>. QED BY <2>2, <2>3, <2>4 DEF AnsweredIsInForce
<1>. QED BY <1>1, SettingsAlways, PTL

-------------------------------------------------------------------------------
(* The event stream: its variables, of which streamPc is the pc of EventStream. *)

VARIABLES recorded, readable, writing, torn, ended, settled, streamPc, emitted, snapshot

Stream == INSTANCE EventStream WITH pc <- streamPc

(***************************************************************************)
(* The inductive invariant: what a read has found is still there, and the  *)
(* read after the status has found all that the status found.              *)
(***************************************************************************)
ReadsAreOld == emitted <= snapshot /\ snapshot <= readable

RestIsWhole ==
  /\ ended => settled <= readable
  /\ streamPc \in {"rest", "sendRest", "closed"} => ended
  /\ streamPc \in {"sendRest", "closed"} => settled <= snapshot
  /\ streamPc = "closed" => emitted = snapshot

StreamInv ==
  /\ Stream!TypeOK /\ ReadsAreOld /\ RestIsWhole
  /\ readable <= recorded /\ (~torn => readable = recorded)

LEMMA StreamBegins == Stream!Init => StreamInv
<1> SUFFICES ASSUME Stream!Init PROVE StreamInv
  OBVIOUS
<1>1. Stream!TypeOK
  BY DEF Stream!Init, Stream!TypeOK
<1>2. ReadsAreOld /\ readable <= recorded
  BY DEF Stream!Init, ReadsAreOld
<1>3. RestIsWhole
  BY DEF Stream!Init, RestIsWhole
<1>4. QED
  BY <1>1, <1>2, <1>3 DEF StreamInv, Stream!Init

\* The file grows at its end: no read becomes younger than it.
LEMMA AppendKeeps ==
  ASSUME StreamInv, Stream!BeginAppend \/ Stream!EndAppend
  PROVE  StreamInv'
<1>1. CASE Stream!BeginAppend
  BY <1>1 DEF StreamInv, Stream!TypeOK, ReadsAreOld, RestIsWhole, Stream!BeginAppend,
     Stream!statusVars, Stream!streamVars
<1>2. CASE Stream!EndAppend
  <2>1. readable \in Nat /\ recorded \in Nat /\ snapshot \in Nat /\ settled \in Nat
    BY DEF StreamInv, Stream!TypeOK
  <2>2. readable <= readable' /\ readable' \in Nat
    BY <1>2, <2>1 DEF Stream!EndAppend
  <2>3. Stream!TypeOK'
    <3>1. /\ writing' = FALSE /\ recorded' = recorded + 1
          /\ UNCHANGED <<torn, ended, settled, streamPc, emitted, snapshot>>
      BY <1>2 DEF Stream!EndAppend, Stream!statusVars, Stream!streamVars
    <3>2. recorded' \in Nat /\ settled' \in Nat /\ emitted' \in Nat /\ snapshot' \in Nat
      BY <2>1, <3>1 DEF StreamInv, Stream!TypeOK
    <3>3. /\ writing' \in BOOLEAN /\ torn' \in BOOLEAN /\ ended' \in BOOLEAN
          /\ streamPc' \in {"off", "poll", "send", "rest", "sendRest", "closed"}
      BY <3>1, Zenon DEF StreamInv, Stream!TypeOK
    <3>4. QED
      BY <2>2, <3>2, <3>3 DEF Stream!TypeOK
  <2>4. ReadsAreOld'
    BY <1>2, <2>1, <2>2 DEF StreamInv, ReadsAreOld, Stream!EndAppend, Stream!streamVars
  <2>5. RestIsWhole'
    BY <1>2, <2>1, <2>2 DEF StreamInv, RestIsWhole, Stream!EndAppend, Stream!statusVars,
       Stream!streamVars
  <2>6. readable' <= recorded' /\ (~torn' => readable' = recorded')
    BY <1>2, <2>1 DEF StreamInv, Stream!EndAppend
  <2>7. QED
    BY <2>3, <2>4, <2>5, <2>6 DEF StreamInv
<1>3. QED
  BY <1>1, <1>2

\* The status and the deaths of the app.
LEMMA RunKeeps ==
  ASSUME StreamInv, Stream!Settle \/ Stream!Die
  PROVE  StreamInv'
<1>1. CASE Stream!Settle
  BY <1>1 DEF StreamInv, Stream!TypeOK, ReadsAreOld, RestIsWhole, Stream!Settle, Stream!fileVars,
     Stream!streamVars
<1>2. CASE Stream!Die
  <2>1. /\ torn' = (torn \/ writing) /\ writing' = FALSE
        /\ streamPc' = "off" /\ emitted' = 0 /\ snapshot' = 0
        /\ UNCHANGED <<recorded, readable, ended, settled>>
    BY <1>2 DEF Stream!Die, Stream!statusVars
  <2>2. writing' \in BOOLEAN /\ torn' \in BOOLEAN /\ ended' \in BOOLEAN
    BY <2>1, Zenon DEF StreamInv, Stream!TypeOK
  <2>3. Stream!TypeOK'
    BY <2>1, <2>2 DEF StreamInv, Stream!TypeOK
  <2>4. ReadsAreOld' /\ RestIsWhole'
    BY <2>1 DEF StreamInv, Stream!TypeOK, ReadsAreOld, RestIsWhole
  <2>5. ~torn' => ~torn
    BY <2>1, Zenon
  <2>6. readable' <= recorded' /\ (~torn' => readable' = recorded')
    BY <2>1, <2>5 DEF StreamInv
  <2>7. QED
    BY <2>3, <2>4, <2>6 DEF StreamInv
<1>3. QED
  BY <1>1, <1>2

\* The steps of the stream; the one that matters is the read after the status.
LEMMA StreamerKeeps ==
  ASSUME StreamInv,
         \/ Stream!Connect \/ Stream!Poll \/ Stream!Send \/ Stream!Look
         \/ Stream!ReadRest \/ Stream!Close \/ Stream!Disconnect
  PROVE  StreamInv'
<1> USE DEF StreamInv, Stream!TypeOK, ReadsAreOld, RestIsWhole, Stream!Go, Stream!fileVars,
Stream!statusVars
<1>1. CASE Stream!Connect
  BY <1>1 DEF Stream!Connect
<1>2. CASE Stream!Poll
  BY <1>2 DEF Stream!Poll
<1>3. CASE Stream!Send
  BY <1>3 DEF Stream!Send
<1>4. CASE Stream!Look
  BY <1>4 DEF Stream!Look
<1>5. CASE Stream!ReadRest
  BY <1>5 DEF Stream!ReadRest
<1>6. CASE Stream!Close
  BY <1>6 DEF Stream!Close
<1>7. CASE Stream!Disconnect
  BY <1>7 DEF Stream!Disconnect
<1>8. QED
  BY <1>1, <1>2, <1>3, <1>4, <1>5, <1>6, <1>7

LEMMA StreamStep == StreamInv /\ [Stream!Next]_(Stream!vars) => StreamInv'
<1> SUFFICES ASSUME StreamInv, [Stream!Next]_(Stream!vars) PROVE StreamInv'
  OBVIOUS
<1>1. CASE Stream!BeginAppend \/ Stream!EndAppend
  BY <1>1, AppendKeeps
<1>2. CASE Stream!Settle \/ Stream!Die
  BY <1>2, RunKeeps
<1>3. CASE \/ Stream!Connect \/ Stream!Poll \/ Stream!Send \/ Stream!Look
           \/ Stream!ReadRest \/ Stream!Close \/ Stream!Disconnect
  BY <1>3, StreamerKeeps
<1>4. CASE UNCHANGED Stream!vars
  BY <1>4 DEF StreamInv, Stream!TypeOK, ReadsAreOld, RestIsWhole, Stream!vars, Stream!fileVars,
     Stream!statusVars, Stream!streamVars
<1>5. QED
  BY <1>1, <1>2, <1>3, <1>4 DEF Stream!Next

LEMMA StreamAlways == Stream!Spec => []StreamInv
  BY StreamBegins, StreamStep, PTL DEF Stream!Spec

\* The stream that _sse_event_stream ends after a terminal status has sent every event that
\* could be read when the run got that status: the second read, after the status, is what makes
\* it so.
THEOREM StreamLosesNothing == Stream!Spec => []Stream!NothingIsLost
<1>1. StreamInv => Stream!NothingIsLost
  BY DEF StreamInv, Stream!TypeOK, RestIsWhole, Stream!NothingIsLost
<1>2. QED
  BY <1>1, StreamAlways, PTL

\* read_events and the count of what was sent never name an event that is not in the file, and
\* without a death in the middle of append_event they come to all of them.
THEOREM StreamSendsTheFile == Stream!Spec => []Stream!OnlyWhatIsRecorded
<1>1. StreamInv => Stream!OnlyWhatIsRecorded
  BY DEF StreamInv, Stream!TypeOK, ReadsAreOld, Stream!OnlyWhatIsRecorded
<1>2. QED
  BY <1>1, StreamAlways, PTL
===============================================================================
