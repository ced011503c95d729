------------------------------- MODULE StepCache -------------------------------
(***************************************************************************)
(* The content-addressed step cache: StepCache and evict_cheap of            *)
(* sdk/sfvf/cache.py, used by _Step of sdk/sfvf/context.py in the child      *)
(* processes of a run, and by run_request of the supervisor, which evicts    *)
(* when the children are gone.  One cache root; every file operation is a    *)
(* step, a child can be killed and the chassis can die between any two.      *)
(* Keys stand for step_key hashes, blobs for the contents they are named by. *)
(***************************************************************************)
EXTENDS Naturals, FiniteSetsExt

CONSTANTS
  Child,
  Key,
  Paid,       \* the keys of paid steps: the paid partition
  Value, BlobsOf,   \* what a step can return, and the files its value names
  MaxBytes,   \* the ceiling of the cheap partition; an entry or a blob has size 1
  MaxRuns,    \* bounds the runs
  Faults,     \* "kill": a child dies; "crash": the chassis dies while it evicts;
              \* "io": an entry cannot be read; "orphan": a child outlives its run
  None

ASSUME CacheAssumption ==
  /\ IsFiniteSet(Key) /\ Paid \subseteq Key
  /\ DOMAIN BlobsOf = Value /\ \A v \in Value : IsFiniteSet(BlobsOf[v])
  /\ MaxBytes \in Nat /\ MaxRuns \in Nat \ {0}
  /\ Faults \subseteq {"kill", "crash", "io", "orphan"}
  /\ None \notin Value

VARIABLES
  entries,   \* of each key: the stored value, or None; its file map is BlobsOf of the value
  blobs,     \* of each partition: the blob files
  older,     \* <<j, k>>: of the cheap entries j and k, j has the older last_used
  pc, key, value,  \* of each child: its position, step and value
  todo,      \* of each child: the files it still has to restore or store
  restored,  \* of each child: the files in its video directory
  phase,     \* of the run: "driving", "evicting", "over"
  doomed, kept,    \* evict_cheap: entries to remove, digests the surviving ones refer to
  sweep,     \* evict_cheap: it removes blobs: too much is stored and every entry was read
  runs

storeVars == <<entries, blobs, older>>
childVars == <<pc, key, value, todo, restored>>
evictVars == <<doomed, kept, sweep>>
vars == <<storeVars, childVars, evictVars, phase, runs>>

Part(k) == IF k \in Paid THEN "paid" ELSE "cheap"
Cheap == Key \ Paid
Stored(k) == entries[k] # None
InUse == {k \in Cheap : Stored(k)}
Refs(keys) == UNION {BlobsOf[entries[k]] : k \in {x \in keys : Stored(x)}}
Size(keys, files) == Cardinality({k \in keys : Stored(k)}) + Cardinality(files)

Init ==
  /\ entries = [k \in Key |-> None]
  /\ blobs = [p \in {"paid", "cheap"} |-> {}]
  /\ older = {}
  /\ pc = [c \in Child |-> "idle"]
  /\ key \in [Child -> Key]
  /\ value = [c \in Child |-> None]
  /\ todo = [c \in Child |-> {}]
  /\ restored = [c \in Child |-> {}]
  /\ phase = "driving"
  /\ doomed = {} /\ kept = {} /\ sweep = FALSE
  /\ runs = 1

-------------------------------------------------------------------------------
(* A child in ctx.step: get() on entry, put() on exit.                     *)

Go(c, from, to) == pc[c] = from /\ pc' = [pc EXCEPT ![c] = to]
Todo(c, files) == todo' = [todo EXCEPT ![c] = files]

\* get() reads the entry.
Lookup(c) ==
  /\ IF Stored(key[c])
     THEN /\ Go(c, "idle", "restore")
          /\ value' = [value EXCEPT ![c] = entries[key[c]]]
          /\ Todo(c, BlobsOf[entries[key[c]]])
     ELSE Go(c, "idle", "work") /\ UNCHANGED <<value, todo>>
  /\ UNCHANGED <<storeVars, evictVars, key, restored, phase, runs>>

\* copyfile of one blob; a blob that is not there raises, and the step fails.
Restore(c) ==
  /\ \E b \in todo[c] :
       IF b \in blobs[Part(key[c])]
       THEN /\ Go(c, "restore", "restore")
            /\ Todo(c, todo[c] \ {b})
            /\ restored' = [restored EXCEPT ![c] = @ \cup {b}]
       ELSE Go(c, "restore", "failed") /\ Todo(c, {}) /\ UNCHANGED restored
  /\ UNCHANGED <<storeVars, evictVars, key, value, phase, runs>>

AmongOthers(k) == {pair \in older : pair[1] # k /\ pair[2] # k}

WriteEntry(k, v) ==
  /\ entries' = [entries EXCEPT ![k] = v]
  /\ older' = IF k \in Paid THEN older ELSE AmongOthers(k) \cup ((InUse \ {k}) \X {k})

\* Mutant: the value is read again when the entry is stamped.
TouchRereads(c) ==
  /\ todo[c] = {} /\ Go(c, "restore", "done")
  /\ Stored(key[c])
  /\ value' = [value EXCEPT ![c] = entries[key[c]]]
  /\ WriteEntry(key[c], entries[key[c]])
  /\ UNCHANGED <<blobs, evictVars, key, todo, restored, phase, runs>>

\* get() writes the entry it read back with a new last_used.
Touch(c) ==
  /\ todo[c] = {} /\ Go(c, "restore", "done")
  /\ WriteEntry(key[c], value[c])
  /\ UNCHANGED <<blobs, evictVars, key, value, todo, restored, phase, runs>>

\* The step's own work: nothing is read of the cache and the result need not be the same twice.
Work(c) ==
  /\ Go(c, "work", "store")
  /\ \E v \in Value : /\ value' = [value EXCEPT ![c] = v]
                      /\ Todo(c, BlobsOf[v])
                      /\ restored' = [restored EXCEPT ![c] = BlobsOf[v]]
  /\ UNCHANGED <<storeVars, evictVars, key, phase, runs>>

\* put(): each blob (nothing is copied when it is there already), then the entry.
StoreBlob(c) ==
  /\ Go(c, "store", "store")
  /\ \E b \in todo[c] : /\ blobs' = [blobs EXCEPT ![Part(key[c])] = @ \cup {b}]
                        /\ Todo(c, todo[c] \ {b})
  /\ UNCHANGED <<entries, older, evictVars, key, value, restored, phase, runs>>

\* Mutant: the entry is written before its last blob.
StoreEntryFirst(c) ==
  /\ Cardinality(todo[c]) <= 1 /\ Go(c, "store", "done")
  /\ WriteEntry(key[c], value[c])
  /\ UNCHANGED <<blobs, evictVars, key, value, todo, restored, phase, runs>>

StoreEntry(c) ==
  /\ todo[c] = {} /\ Go(c, "store", "done")
  /\ WriteEntry(key[c], value[c])
  /\ UNCHANGED <<blobs, evictVars, key, value, todo, restored, phase, runs>>

\* The child goes on to another step, in context.map or after it.
NextStep(c) ==
  /\ phase = "driving" \/ "orphan" \in Faults
  /\ Go(c, "done", "idle")
  /\ \E k \in Key : key' = [key EXCEPT ![c] = k]
  /\ value' = [value EXCEPT ![c] = None]
  /\ restored' = [restored EXCEPT ![c] = {}]
  /\ UNCHANGED <<storeVars, evictVars, todo, phase, runs>>

Finished(c) == pc[c] \in {"done", "failed", "killed"}

Kill(c) ==
  /\ "kill" \in Faults /\ ~Finished(c)
  /\ pc' = [pc EXCEPT ![c] = "killed"]
  /\ UNCHANGED <<storeVars, evictVars, key, value, todo, restored, phase, runs>>

-------------------------------------------------------------------------------
(* evict_cheap, when the run ends.                                         *)

NotBefore(keys, j) == {k \in keys : <<k, j>> \notin older}

\* Mutant: an evicted entry is taken to free all its blobs, the shared ones too.
EvictedSparingly(keys) ==
  LET freed(j) == MapThenSumSet(LAMBDA k : 1 + Cardinality(BlobsOf[entries[k]]),
                                keys \ NotBefore(keys, j))
      fits(j) == Size(Cheap, blobs["cheap"]) <= MaxBytes + freed(j)
  IN  {k \in keys :
         \A j \in keys : k \in NotBefore(keys, j) /\ NotBefore(keys, j) # keys => ~fits(j)}

\* The least recently used entries go, one at least, until what the others refer to fits.
Evicted(keys) ==
  LET rest(j) == NotBefore(keys, j)
      fits(j) == Size(rest(j), Refs(rest(j)) \cap blobs["cheap"]) <= MaxBytes
  IN  {k \in keys : \A j \in keys : k \in rest(j) /\ rest(j) # keys => ~fits(j)}

\* The entries are read; one that cannot be read takes no part.
LoadEntries ==
  /\ phase = "driving"
  /\ \A c \in Child : Finished(c) \/ "orphan" \in Faults
  /\ \E unread \in SUBSET InUse :
       LET read == InUse \ unread
           over == Size(read, blobs["cheap"]) > MaxBytes
       IN  /\ unread = {} \/ "io" \in Faults
           /\ doomed' = IF over THEN Evicted(read) ELSE {}
           /\ kept' = IF over THEN Refs(read \ Evicted(read)) ELSE {}
           /\ sweep' = (over /\ unread = {})
  /\ phase' = "evicting"
  /\ UNCHANGED <<storeVars, childVars, runs>>

RemoveEntry ==
  /\ phase = "evicting"
  /\ \E k \in doomed : /\ doomed' = doomed \ {k}
                       /\ entries' = [entries EXCEPT ![k] = None]
                       /\ older' = AmongOthers(k)
  /\ UNCHANGED <<blobs, childVars, kept, sweep, phase, runs>>

Garbage == IF sweep THEN blobs["cheap"] \ kept ELSE {}

RemoveBlob ==
  /\ phase = "evicting" /\ doomed = {}
  /\ \E b \in Garbage : blobs' = [blobs EXCEPT !["cheap"] = @ \ {b}]
  /\ UNCHANGED <<entries, older, childVars, evictVars, phase, runs>>

EvictionEnds ==
  /\ phase = "evicting" /\ doomed = {} /\ Garbage = {}
  /\ phase' = "over"
  /\ UNCHANGED <<storeVars, childVars, evictVars, runs>>

\* The eviction raises and run_request goes on, or the chassis dies, then or earlier.
NoEviction ==
  /\ "crash" \in Faults /\ phase # "over"
  /\ \A c \in Child : Finished(c) \/ "orphan" \in Faults
  /\ phase' = "over" /\ doomed' = {}
  /\ UNCHANGED <<storeVars, childVars, kept, sweep, runs>>

\* The next run of the workflow: fresh children in fresh directories.
NextRun ==
  /\ phase = "over" /\ runs < MaxRuns
  /\ runs' = runs + 1
  /\ phase' = "driving"
  /\ LET left(c) == ~Finished(c)   \* a child of the last run that is still there
     IN  /\ pc' = [c \in Child |-> IF left(c) THEN pc[c] ELSE "idle"]
         /\ key' \in {f \in [Child -> Key] : \A c \in Child : left(c) => f[c] = key[c]}
         /\ value' = [c \in Child |-> IF left(c) THEN value[c] ELSE None]
         /\ todo' = [c \in Child |-> IF left(c) THEN todo[c] ELSE {}]
         /\ restored' = [c \in Child |-> IF left(c) THEN restored[c] ELSE {}]
  /\ doomed' = {} /\ kept' = {} /\ sweep' = FALSE
  /\ UNCHANGED storeVars

Quiescent == phase = "over" /\ runs = MaxRuns /\ UNCHANGED vars

Next ==
  \/ \E c \in Child : Lookup(c) \/ Restore(c) \/ Touch(c) \/ Work(c) \/ StoreBlob(c)
                      \/ StoreEntry(c) \/ NextStep(c) \/ Kill(c)
  \/ LoadEntries \/ RemoveEntry \/ RemoveBlob \/ EvictionEnds \/ NoEviction
  \/ NextRun \/ Quiescent

Spec == Init /\ [][Next]_vars

-------------------------------------------------------------------------------
(* Properties.                                                             *)

Blob == UNION {BlobsOf[v] : v \in Value}

TypeOK ==
  /\ entries \in [Key -> Value \cup {None}] /\ blobs \in [{"paid", "cheap"} -> SUBSET Blob]
  /\ older \subseteq InUse \X InUse
  /\ pc \in [Child -> {"idle", "restore", "work", "store", "done", "failed", "killed"}]
  /\ key \in [Child -> Key] /\ value \in [Child -> Value \cup {None}]
  /\ todo \in [Child -> SUBSET Blob] /\ restored \in [Child -> SUBSET Blob]
  /\ \A c \in Child : todo[c] # {} => value[c] # None
  /\ phase \in {"driving", "evicting", "over"}
  /\ doomed \subseteq Cheap /\ kept \subseteq Blob /\ sweep \in BOOLEAN /\ runs \in 1 .. MaxRuns

\* The cheap entries are in one order of last use, however their children took turns.
Ordered ==
  /\ \A j, k \in InUse : j # k => <<j, k>> \in older \/ <<k, j>> \in older
  /\ \A j, k \in InUse : <<j, k>> \in older => <<k, j>> \notin older
  /\ \A i, j, k \in InUse : <<i, j>> \in older /\ <<j, k>> \in older => <<i, k>> \in older

\* Two children storing one step, kills, evictions that die half-way or cannot read an
\* entry: no entry ever names a blob that is not there, so no later hit can fail on it.
NoDanglingEntry == \A k \in Key : Stored(k) => BlobsOf[entries[k]] \subseteq blobs[Part(k)]

\* The invariant of the cache: its state is typed, the order of the cheap entries is exact, and
\* no entry dangles.
CacheInv == TypeOK /\ Ordered /\ NoDanglingEntry

\* A hit gives the step one result whole: the value of one computation with that
\* computation's files, although another child stores the same step meanwhile.
HitIsWhole == \A c \in Child : pc[c] = "done" => restored[c] = BlobsOf[value[c]]

\* An eviction takes no entry and no file that was paid for, and, if it could read every
\* entry, leaves the cheap partition within its ceiling.
EvictionFits ==
  [][/\ \A k \in Paid : Stored(k) => entries'[k] # None /\ blobs["paid"] \subseteq blobs'["paid"]
     /\ phase = "evicting" /\ phase' = "over" /\ doomed = {} /\ Garbage = {} /\ sweep =>
          Size(Cheap, blobs["cheap"]) <= MaxBytes]_vars
===============================================================================
