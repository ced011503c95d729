-------------------------------- MODULE Library --------------------------------
(***************************************************************************)
(* One namespace of the library: LibraryStore of sdk/sfvf/library.py, in     *)
(* each of the roles it is used in: the namespace of a workflow, written by  *)
(* the videos of its real runs through ctx.library; the overlay that the     *)
(* videos of one dry run share, layered over the real library; and the owner *)
(* pool, written by app/api/library.py together with its grants.json         *)
(* (sdk/sfvf/grants.py).  Blobs and descriptor sidecars, the derived         *)
(* catalog.json, aliases.json and grants.json are files read and replaced    *)
(* whole, without a lock: every read and every write is a step, and a writer *)
(* can be killed before any of them.  Of a descriptor the status and whether *)
(* it carries caveats are kept, of a catalogue entry the status, of a grant  *)
(* whether it lets one workflow in; a rescan is one read of items/.          *)
(***************************************************************************)
EXTENDS Naturals, FiniteSets

CONSTANTS
  Writer,   \* processes and threads that use the namespace
  Id,       \* contents, named by their hash
  Name,
  Roles,    \* the roles that are explored
  Reals,    \* the descriptors a real library beneath an overlay may hold
  MaxJobs,  \* bounds the calls, by role
  LibraryFaults, \* "kill": a writer dies; "lost": catalog.json is thrown away
  Null,
  Torn      \* a sidecar that is being copied into the overlay

Status == {"active", "superseded", "inactive"}
Descriptor == [status : Status, caveats : BOOLEAN]
Catalog == [Id -> Status \cup {Null}]
Aliases == [Name -> Id \cup {Null}]
Grants == [Id -> BOOLEAN \cup {Null}]

\* A call: what it does, the asset it is about, the name or the grant it sets, and the asset
\* it supersedes.
Call ==
  [kind : {"find", "put", "annotate", "update", "rename", "active", "inactive", "grant"},
   id : Id \cup {Null}, name : Name \cup {Null}, old : Id \cup {Null}, grant : BOOLEAN \cup {Null}]

ASSUME LibraryAssumption ==
  /\ Writer # {}
  /\ Roles \subseteq {"own", "owner", "overlay"} /\ MaxJobs \in [Roles -> Nat]
  /\ LibraryFaults \subseteq {"kill", "lost"} /\ Reals \subseteq Descriptor
  /\ Torn \notin Descriptor /\ Torn # Null
  /\ Null \notin Id \cup Name \cup Status \cup {"here", "real", "owner"} /\ Null \notin BOOLEAN
  /\ Null \notin Descriptor \cup Catalog \cup Aliases \cup Grants
  /\ Null \notin Call

VARIABLES
  role,              \* whose namespace this is
  beneath,           \* of an overlay: the descriptors of the real library, at rest
  blobFiles, partial, \* items/: the blobs, those among them that are being copied,
  sidecar,           \*   and of each id its descriptor, Null or Torn
  catalog,           \* catalog.json, or Null
  aliases,           \* aliases.json
  grants,            \* grants.json of the owner pool
  place, job,        \* of each writer: its position, its call
  jobs,              \* the calls made
  purpose,           \* what the catalogue is read or updated for
  known,             \* the asset was there before the put
  side, cat, als, grn, \* the file it read last and will write back, or Null
  calm               \* no call overlapped another so far, and no writer died

itemVars == <<blobFiles, partial, sidecar>>
fileVars == <<role, beneath, itemVars, catalog, aliases, grants>>
bufferVars == <<side, cat, als, grn>>
libraryVars == <<fileVars, place, job, jobs, purpose, known, bufferVars, calm>>

\* ctx.library writes assets; uploads, edits and grants are the owner's alone.
Put == [kind : {"put"}, id : Id, name : Name \cup {Null}, old : Id \cup {Null}, grant : {Null}]
Upload == [kind : {"put"}, id : Id, name : Name, old : {Null}, grant : BOOLEAN]
Change(kinds, names, grantees) ==
  [kind : kinds, id : Id, name : names, old : {Null}, grant : grantees]
Find == [kind |-> "find", id |-> Null, name |-> Null, old |-> Null, grant |-> Null]

OwnerJob ==
  {Find} \cup Upload \cup Change({"update"}, Name \cup {Null}, {Null})
         \cup Change({"rename"}, Name, {Null}) \cup Change({"active", "inactive"}, {Null}, {Null})
         \cup Change({"grant"}, {Null}, BOOLEAN)
WorkflowJob == {Find} \cup Put \cup Change({"annotate"}, {Null}, {Null})
Job == IF role = "owner" THEN OwnerJob ELSE WorkflowJob

\* A dry run writes to its overlay and reads the real library beneath it; a real run has none.
Layers ==
  /\ role \in Roles
  /\ beneath \in (IF role = "overlay" THEN [Id -> Reals \cup {Null}] ELSE [Id -> {Null}])

LibraryInit ==
  /\ Layers
  /\ blobFiles = {} /\ partial = {} /\ sidecar = [i \in Id |-> Null]
  /\ catalog = Null /\ aliases = [n \in Name |-> Null] /\ grants = [i \in Id |-> Null]
  /\ place = [w \in Writer |-> "idle"]
  /\ job = [w \in Writer |-> Null] /\ jobs = 0
  /\ purpose = [w \in Writer |-> "own"] /\ known = [w \in Writer |-> FALSE]
  /\ side = [w \in Writer |-> Null] /\ cat = [w \in Writer |-> Null]
  /\ als = [w \in Writer |-> Null] /\ grn = [w \in Writer |-> Null]
  /\ calm = TRUE

Idle(w) == place[w] = "idle"
GoTo(w, from, to) == place[w] = from /\ place' = [place EXCEPT ![w] = to]
Is(w, kinds) == job[w].kind \in kinds
Subject(w) == IF purpose[w] = "own" THEN job[w].id ELSE job[w].old

\* Where a call goes on once the catalogue is up to date, or was read.
Onward(w) ==
  CASE purpose[w] = "before" -> "put"
    [] purpose[w] = "copy" -> "amend"
    [] purpose[w] = "old" -> "alias"
    [] OTHER -> IF purpose[w] = "own" /\ Is(w, {"put"}) THEN "supersede" ELSE "end"

\* Where it goes on once its name is set, or has none: an upload is granted, an update goes on to
\* the descriptor, and a put of ctx.library asks the catalogue for the novel facets of a new asset.
Named(w) ==
  IF Is(w, {"update"}) THEN "amend" ELSE IF Is(w, {"rename"}) THEN "end"
  ELSE IF role = "owner" THEN "grant" ELSE IF known[w] \/ catalog # Null THEN "end" ELSE "scan"

\* A call goes on for what the catalogue is needed for next, or it returns.
Advance(w, from, to, next) ==
  /\ place[w] = from
  /\ place' = [place EXCEPT ![w] = IF to = "end" THEN "idle" ELSE to]
  /\ job' = [job EXCEPT ![w] = IF to = "end" THEN Null ELSE @]
  /\ known' = [known EXCEPT ![w] = to # "end" /\ @]
  /\ purpose' = [purpose EXCEPT ![w] = IF to = "end" THEN "own" ELSE next]

\* What find(status=None) returns from the catalogue; a torn sidecar among it raises.
Listed == {i \in Id : catalog # Null /\ catalog[i] # Null /\ sidecar[i] # Null}
FindRaises == \E i \in Listed : sidecar[i] = Torn

-------------------------------------------------------------------------------
(* A call begins, and ends.                                                *)

MayCall(w) == Idle(w) /\ jobs < MaxJobs[role]

Begin(w, j, to) ==
  /\ GoTo(w, "idle", to)
  /\ job' = [job EXCEPT ![w] = j] /\ jobs' = jobs + 1
  /\ calm' = (calm /\ \A v \in Writer : Idle(v))

\* put and put_value: a content that is described already keeps its descriptor.
StoreAsset(j) == IF sidecar[j.id] = Null THEN "blob" ELSE "heal"

\* An upload goes to the store; ctx.library first asks what is there, and rescans if need be.
BeginPut(w) ==
  /\ MayCall(w)
  /\ \E j \in Job :
       /\ j.kind = "put" /\ sidecar[j.id] # Torn
       /\ IF role # "owner" /\ catalog = Null
          THEN Begin(w, j, "scan") /\ purpose' = [purpose EXCEPT ![w] = "before"] /\ UNCHANGED known
          ELSE /\ role # "owner" => ~FindRaises
               /\ Begin(w, j, StoreAsset(j)) /\ UNCHANGED purpose
               /\ known' = [known EXCEPT ![w] = role # "owner" /\ j.id \in Listed]
  /\ UNCHANGED <<fileVars, bufferVars>>

\* The put goes on after the rescan.
GoOnPut(w) ==
  /\ GoTo(w, "put", StoreAsset(job[w]))
  /\ ~FindRaises /\ sidecar[job[w].id] # Torn
  /\ known' = [known EXCEPT ![w] = job[w].id \in Listed]
  /\ UNCHANGED <<fileVars, job, jobs, purpose, bufferVars, calm>>

\* annotate, deactivate and reactivate read the sidecar they will replace.
BeginEdit(w) ==
  /\ MayCall(w)
  /\ \E j \in Job :
       /\ j.kind \in {"annotate", "update", "active", "inactive"} /\ j.name = Null
       /\ sidecar[j.id] \notin {Null, Torn}
       /\ sidecar[j.id].status # j.kind
       /\ Begin(w, j, "edit")
       /\ side' = [side EXCEPT ![w] = sidecar[j.id]]
  /\ UNCHANGED <<fileVars, purpose, known, cat, als, grn>>

\* An edit in the owner pool names the asset first, if it has a name to set.
BeginRename(w) ==
  /\ MayCall(w)
  /\ \E j \in Job : /\ j.kind \in {"rename", "update"} /\ j.name # Null
                    /\ sidecar[j.id] # Null /\ Begin(w, j, "alias")
  /\ UNCHANGED <<fileVars, purpose, known, bufferVars>>

BeginGrant(w) ==
  /\ MayCall(w)
  /\ \E j \in Job : j.kind = "grant" /\ sidecar[j.id] # Null /\ Begin(w, j, "grant")
  /\ UNCHANGED <<fileVars, purpose, known, bufferVars>>

\* In a dry run the real asset is copied before it is annotated.
BeginCopy(w) ==
  /\ MayCall(w)
  /\ \E j \in Job :
       /\ j.kind = "annotate" /\ role = "overlay"
       /\ sidecar[j.id] = Null /\ beneath[j.id] # Null
       /\ Begin(w, j, "copy")
  /\ UNCHANGED <<fileVars, purpose, known, bufferVars>>

\* find and novel_facets rescan when there is no catalogue.
BeginFind(w) ==
  /\ MayCall(w) /\ catalog = Null /\ Begin(w, Find, "scan")
  /\ UNCHANGED <<fileVars, purpose, known, bufferVars>>

\* The call has raised, or its process is gone.
Gone(w) ==
  /\ place' = [place EXCEPT ![w] = "idle"] /\ job' = [job EXCEPT ![w] = Null]
  /\ purpose' = [purpose EXCEPT ![w] = "own"] /\ known' = [known EXCEPT ![w] = FALSE]
  /\ side' = [side EXCEPT ![w] = Null] /\ cat' = [cat EXCEPT ![w] = Null]
  /\ als' = [als EXCEPT ![w] = Null] /\ grn' = [grn EXCEPT ![w] = Null]
  /\ UNCHANGED <<fileVars, jobs>>

\* A sidecar that another video is copying is not JSON yet.
Raise(w) ==
  /\ \/ place[w] = "put" /\ FindRaises
     \/ place[w] \in {"put", "amend"} /\ sidecar[job[w].id] = Torn
     \/ place[w] = "supersede" /\ job[w].old # Null /\ sidecar[job[w].old] = Torn
  /\ Gone(w) /\ UNCHANGED calm

-------------------------------------------------------------------------------
(* items/                                                                  *)

WriteBlob(w) ==
  /\ GoTo(w, "blob", "describe")
  /\ blobFiles' = blobFiles \cup {job[w].id}
  /\ UNCHANGED <<role, beneath, partial, sidecar, catalog, aliases, grants, job, jobs, purpose,
                 known, bufferVars, calm>>

Fresh == [status |-> "active", caveats |-> FALSE]

\* Mutant: the descriptor is written before the blob.
DescribeFirst(w) ==
  /\ place[w] \in {"blob", "describe"} /\ place' = [place EXCEPT ![w] = "index"]
  /\ sidecar' = [sidecar EXCEPT ![job[w].id] = Fresh]
  /\ UNCHANGED <<role, beneath, blobFiles, partial, catalog, aliases, grants, job, jobs, purpose,
                 known, bufferVars, calm>>

Describe(w) ==
  /\ GoTo(w, "describe", "index")
  /\ sidecar' = [sidecar EXCEPT ![job[w].id] = Fresh]
  /\ UNCHANGED <<role, beneath, blobFiles, partial, catalog, aliases, grants, job, jobs, purpose,
                 known, bufferVars, calm>>

\* copyfile truncates and writes: the blob first, the sidecar second.
CopyBlob(w) ==
  /\ \/ GoTo(w, "copy", "copying") /\ partial' = partial \cup {job[w].id}
     \/ GoTo(w, "copying", "copied") /\ partial' = partial \ {job[w].id}
  /\ blobFiles' = blobFiles \cup {job[w].id}
  /\ UNCHANGED <<role, beneath, sidecar, catalog, aliases, grants, job, jobs, purpose,
                 known, bufferVars, calm>>

CopySidecar(w) ==
  /\ \/ GoTo(w, "copied", "torn") /\ sidecar' = [sidecar EXCEPT ![job[w].id] = Torn]
     \/ GoTo(w, "torn", "scan") /\ sidecar' = [sidecar EXCEPT ![job[w].id] = beneath[job[w].id]]
  /\ purpose' = [purpose EXCEPT ![w] = "copy"]
  /\ UNCHANGED <<role, beneath, blobFiles, partial, catalog, aliases, grants, job, jobs, known,
                 bufferVars, calm>>

\* The descriptor is read to be annotated, after the copy or the new name.
Amend(w) ==
  /\ GoTo(w, "amend", "edit")
  /\ sidecar[job[w].id] # Torn
  /\ side' = [side EXCEPT ![w] = sidecar[job[w].id]]
  /\ UNCHANGED <<fileVars, job, jobs, purpose, known, cat, als, grn, calm>>

Edited(w) ==
  CASE Is(w, {"annotate", "update"}) -> [side[w] EXCEPT !.caveats = TRUE]
    [] Is(w, {"active", "inactive"}) -> [side[w] EXCEPT !.status = job[w].kind]
    [] OTHER -> [side[w] EXCEPT !.status = "superseded"]

\* The edited sidecar is written; annotate rescans, a change of status updates one entry.
Edit(w) ==
  /\ GoTo(w, "edit", IF Is(w, {"annotate", "update"}) THEN "scan" ELSE "refresh")
  /\ sidecar' = [sidecar EXCEPT ![Subject(w)] = Edited(w)]
  /\ side' = [side EXCEPT ![w] = Null]
  /\ UNCHANGED <<role, beneath, blobFiles, partial, catalog, aliases, grants, job, jobs, purpose,
                 known, cat, als, grn, calm>>

Superseded(w) == job[w].old \notin {Null, job[w].id} /\ sidecar[job[w].old] # Null

\* Mutant: the superseded descriptor is replaced by a new one.
SupersedeAnew(w) ==
  /\ GoTo(w, "supersede", IF Superseded(w) THEN "edit" ELSE "alias")
  /\ purpose' = [purpose EXCEPT ![w] = IF Superseded(w) THEN "old" ELSE "own"]
  /\ side' = [side EXCEPT ![w] = IF Superseded(w) THEN Fresh ELSE Null]
  /\ UNCHANGED <<fileVars, job, jobs, known, cat, als, grn, calm>>

\* The asset a put supersedes is read, to be flipped.
Supersede(w) ==
  /\ GoTo(w, "supersede", IF Superseded(w) THEN "edit" ELSE "alias")
  /\ Superseded(w) => sidecar[job[w].old] # Torn
  /\ purpose' = [purpose EXCEPT ![w] = IF Superseded(w) THEN "old" ELSE "own"]
  /\ side' = [side EXCEPT ![w] = IF Superseded(w) THEN sidecar[job[w].old] ELSE Null]
  /\ UNCHANGED <<fileVars, job, jobs, known, cat, als, grn, calm>>

-------------------------------------------------------------------------------
(* catalog.json                                                            *)

Indexed(i) == catalog # Null /\ catalog[i] # Null

\* Mutant: a refresh takes the entry for current.
ReadCatalogLazily(w) ==
  /\ place[w] \in {"index", "heal", "refresh"}
  /\ place' = [place EXCEPT ![w] =
                 IF catalog = Null \/ (place[w] # "index" /\ ~Indexed(Subject(w))) THEN "scan"
                 ELSE IF place[w] = "index" THEN "catalog" ELSE Onward(w)]
  /\ cat' = [cat EXCEPT ![w] =
               IF place'[w] # "catalog" THEN Null
               ELSE [catalog EXCEPT ![Subject(w)] = "active"]]
  /\ UNCHANGED <<fileVars, job, jobs, purpose, known, side, als, grn, calm>>

\* The status a writer puts in an entry is that of the descriptor it just wrote.
NewStatus(w) ==
  IF place[w] = "index" THEN "active"
  ELSE IF Is(w, {"put"}) THEN "superseded" ELSE job[w].kind

\* A new asset is added and a changed one replaced; what is not indexed is left to a rescan.
ReadCatalog(w) ==
  /\ place[w] \in {"index", "heal", "refresh"}
  /\ place' = [place EXCEPT ![w] =
                 IF catalog = Null \/ (place[w] # "index" /\ ~Indexed(Subject(w))) THEN "scan"
                 ELSE IF place[w] = "heal" THEN Onward(w) ELSE "catalog"]
  /\ cat' = [cat EXCEPT ![w] = IF place'[w] # "catalog" THEN Null
                               ELSE [catalog EXCEPT ![Subject(w)] = NewStatus(w)]]
  /\ UNCHANGED <<fileVars, job, jobs, purpose, known, side, als, grn, calm>>

\* rebuild_catalog: the assets with a blob and a sidecar that can be read.
Scanned == [i \in Id |-> IF i \in blobFiles /\ sidecar[i] \notin {Null, Torn}
                         THEN sidecar[i].status ELSE Null]

Scan(w) ==
  /\ GoTo(w, "scan", "catalog")
  /\ cat' = [cat EXCEPT ![w] = Scanned]
  /\ UNCHANGED <<fileVars, job, jobs, purpose, known, side, als, grn, calm>>

WriteCatalog(w) ==
  /\ Advance(w, "catalog", Onward(w),
             IF purpose[w] \in {"before", "copy"} THEN "own" ELSE purpose[w])
  /\ catalog' = cat[w] /\ cat' = [cat EXCEPT ![w] = Null]
  /\ UNCHANGED <<role, beneath, itemVars, aliases, grants, jobs, side, als, grn, calm>>

LoseCatalog ==
  /\ "lost" \in LibraryFaults /\ catalog # Null
  /\ catalog' = Null
  /\ UNCHANGED <<role, beneath, itemVars, aliases, grants, place, job, jobs, purpose, known,
                 bufferVars, calm>>

-------------------------------------------------------------------------------
(* aliases.json and grants.json                                            *)

ReadAliases(w) ==
  /\ place[w] = "alias"
  /\ IF job[w].name = Null THEN Advance(w, "alias", Named(w), "after")
     ELSE GoTo(w, "alias", "name") /\ UNCHANGED <<job, known, purpose>>
  /\ als' = [als EXCEPT ![w] = IF job[w].name = Null THEN Null ELSE aliases]
  /\ UNCHANGED <<fileVars, jobs, side, cat, grn, calm>>

\* Mutant: a put writes its own name only.
WriteAliasesAnew(w) ==
  /\ Advance(w, "name", Named(w), IF Is(w, {"put"}) THEN "after" ELSE "own")
  /\ aliases' = [n \in Name |-> IF n = job[w].name THEN job[w].id ELSE Null]
  /\ als' = [als EXCEPT ![w] = Null]
  /\ UNCHANGED <<role, beneath, itemVars, catalog, grants, jobs, side, cat, grn, calm>>

\* A put adds its name, a rename also takes the others from the asset.
WriteAliases(w) ==
  /\ Advance(w, "name", Named(w), IF Is(w, {"put"}) THEN "after" ELSE "own")
  /\ aliases' = [n \in Name |-> IF n = job[w].name THEN job[w].id
                                ELSE IF Is(w, {"rename", "update"}) /\ als[w][n] = job[w].id
                                THEN Null
                                ELSE als[w][n]]
  /\ als' = [als EXCEPT ![w] = Null]
  /\ UNCHANGED <<role, beneath, itemVars, catalog, grants, jobs, side, cat, grn, calm>>

\* set_grant: the grants are read, and replaced; a write that keeps failing is a request that dies.
ReadGrants(w) ==
  /\ GoTo(w, "grant", "permit")
  /\ grn' = [grn EXCEPT ![w] = grants]
  /\ UNCHANGED <<fileVars, job, jobs, purpose, known, side, cat, als, calm>>

WriteGrants(w) ==
  /\ Advance(w, "permit", "end", "own")
  /\ grants' = [grn[w] EXCEPT ![job[w].id] = job[w].grant]
  /\ grn' = [grn EXCEPT ![w] = Null]
  /\ UNCHANGED <<role, beneath, itemVars, catalog, aliases, jobs, side, cat, als, calm>>

\* The process dies; another begins where it was.
KillWriter(w) == "kill" \in LibraryFaults /\ place[w] # "idle" /\ Gone(w) /\ calm' = FALSE

LibraryQuiescent == (\A w \in Writer : Idle(w)) /\ jobs = MaxJobs[role] /\ UNCHANGED libraryVars

LibraryNext ==
  \/ \E w \in Writer :
       \/ BeginPut(w) \/ GoOnPut(w) \/ BeginEdit(w) \/ BeginRename(w) \/ BeginGrant(w)
       \/ BeginCopy(w) \/ BeginFind(w) \/ Raise(w)
       \/ WriteBlob(w) \/ Describe(w) \/ CopyBlob(w) \/ CopySidecar(w)
       \/ Amend(w) \/ Edit(w) \/ Supersede(w)
       \/ ReadCatalog(w) \/ Scan(w) \/ WriteCatalog(w)
       \/ ReadAliases(w) \/ WriteAliases(w) \/ ReadGrants(w) \/ WriteGrants(w) \/ KillWriter(w)
  \/ LoseCatalog \/ LibraryQuiescent

LibrarySpec == LibraryInit /\ [][LibraryNext]_libraryVars

-------------------------------------------------------------------------------
(* What a workflow reads: the overlay, its own namespace, the owner pool.   *)

Matches(status, wanted) == wanted = Null \/ status = wanted

Catalogued == IF catalog = Null THEN Scanned ELSE catalog

\* LibraryStore.find in this namespace, and in the real one beneath it.
FindHere(wanted) ==
  {i \in Id : Catalogued[i] # Null /\ sidecar[i] # Null /\ Matches(Catalogued[i], wanted)}
FindReal(wanted) == {i \in Id : beneath[i] # Null /\ Matches(beneath[i].status, wanted)}

\* The overlay is authoritative for any id it holds, whether it matches or not.
FindOwn(wanted) == (FindReal(wanted) \ FindHere(Null)) \cup FindHere(wanted)
GetOwn(i) == IF sidecar[i] # Null THEN sidecar[i] ELSE beneath[i]

\* Of the owner pool a workflow sees what is granted to it; get and path skip the inactive.
GrantedTo(pool, allowed, wanted) == {i \in allowed : pool[i] # Null /\ Matches(pool[i], wanted)}
FindAll(pool, allowed, wanted) ==
  FindOwn(wanted) \cup (GrantedTo(pool, allowed, wanted) \ FindOwn(wanted))
PathFrom(pool, allowed, i) ==
  IF sidecar[i] # Null THEN "here" ELSE IF beneath[i] # Null THEN "real"
  ELSE IF i \in GrantedTo(pool, allowed, Null) /\ pool[i] # "inactive" THEN "owner" ELSE Null

-------------------------------------------------------------------------------
(* Properties.                                                             *)

LibraryTypeOK ==
  /\ role \in Roles /\ partial \subseteq blobFiles /\ blobFiles \subseteq Id
  /\ sidecar \in [Id -> Descriptor \cup {Null, Torn}]
  /\ catalog \in Catalog \cup {Null} /\ aliases \in Aliases /\ grants \in Grants
  /\ place \in [Writer -> {"idle", "put", "blob", "describe", "index", "heal", "copy", "copying",
                           "copied", "torn", "amend", "edit", "refresh", "scan", "catalog",
                           "supersede", "alias", "name", "grant", "permit"}]
  /\ \A w \in Writer : job[w] # Null <=> place[w] # "idle"
  /\ \A w \in Writer : job[w] # Null => job[w] \in Job
  /\ jobs \in 0 .. MaxJobs[role]
  /\ purpose \in [Writer -> {"before", "own", "copy", "old", "after"}] /\ calm \in BOOLEAN
  /\ \A w \in Writer :
       /\ side[w] \in Descriptor \cup {Null} /\ (side[w] # Null <=> place[w] = "edit")
       /\ cat[w] \in Catalog \cup {Null} /\ (cat[w] # Null <=> place[w] = "catalog")
       /\ als[w] \in Aliases \cup {Null} /\ (als[w] # Null <=> place[w] = "name")
       /\ grn[w] \in Grants \cup {Null} /\ (grn[w] # Null <=> place[w] = "permit")

\* Whatever writers die where, a descriptor, a name or a grant never outlives or precedes what
\* it is about: "sidecar with no blob: impossible under this ordering".  Outside an overlay,
\* where copies are not atomic, a blob is whole and a sidecar can be read.
NothingDangles ==
  /\ \A i \in Id : sidecar[i] # Null => i \in blobFiles
  /\ \A i \in Id : Indexed(i) \/ grants[i] # Null => sidecar[i] # Null
  /\ \A n \in Name : aliases[n] # Null => sidecar[aliases[n]] # Null
  /\ role # "overlay" => partial = {} /\ \A i \in Id : sidecar[i] # Torn

AtRest == calm /\ \A w \in Writer : Idle(w)

\* After calls that followed one another, thrown-away catalogues among them, the catalogue says
\* of every asset what its sidecar says: find(status="active") finds it and skips the superseded.
IndexFollows ==
  catalog # Null => \A i \in Id : catalog[i] = (IF sidecar[i] = Null THEN Null ELSE sidecar[i].status)

\* So a workflow finds what it can get, and with the status it gets it with, through the overlay
\* of a dry run too; and whatever the owner pool holds, what it finds there is granted to it, and
\* what is active has a path.
FindIsGet ==
  /\ \A wanted \in Status \cup {Null} :
       FindOwn(wanted) = {i \in Id : GetOwn(i) # Null /\ Matches(GetOwn(i).status, wanted)}
  /\ \A pool \in Catalog, allowed \in SUBSET Id : \A i \in FindAll(pool, allowed, "active") :
       /\ PathFrom(pool, allowed, i) # Null
       /\ i \in allowed \/ i \in FindOwn("active")

\* The index and the reads that go through it follow the descriptors.
CatalogFollows == AtRest => IndexFollows /\ FindIsGet

\* The invariant of a namespace: the files and what their writers hold are typed, and nothing
\* dangles.
LibraryInv == LibraryTypeOK /\ NothingDangles /\ CatalogFollows

\* While calls follow one another, caveats that were written stay, and what was superseded
\* stays so until it is reactivated or deactivated: an asset is never replaced in place.  In a
\* dry run that holds of what is read through the overlay, save for a content that is put again,
\* which the overlay describes anew.
DescriptorsAreKept ==
  [][calm' => \A i \in Id : GetOwn(i) \notin {Null, Torn} =>
       \/ GetOwn(i)' = Torn
       \/ \E w \in Writer : place[w] = "describe" /\ job[w].id = i
       \/ /\ GetOwn(i)' # Null
          /\ GetOwn(i).caveats => GetOwn(i)'.caveats
          /\ GetOwn(i).status = "superseded" /\ GetOwn(i)'.status # "superseded" =>
               \E w \in Writer :
                 job[w] # Null /\ Is(w, {"active", "inactive"}) /\ job[w].id = i]_libraryVars

\* While calls follow one another, a name keeps its asset until a call about that name, or a
\* rename of the asset, writes; and what was granted or denied stays so until a call about that
\* asset: no other grant, upload or edit widens or narrows who may use it.
NamesAndGrantsAreKept ==
  [][calm' =>
       /\ \A n \in Name : aliases[n] # Null /\ aliases'[n] # aliases[n] =>
            \E w \in Writer : /\ place[w] = "name" /\ place'[w] # "name"
                              /\ \/ job[w].name = n
                                 \/ Is(w, {"rename", "update"}) /\ job[w].id = aliases[n]
       /\ \A i \in Id : grants'[i] # grants[i] =>
            \E w \in Writer : /\ place[w] = "permit" /\ place'[w] # "permit"
                              /\ job[w].id = i /\ grants'[i] = job[w].grant]_libraryVars
===============================================================================
