---------------------------- MODULE StepCacheProofs ----------------------------
(***************************************************************************)
(* What is proved of the files that outlive a run.  Of the step cache, for *)
(* any number of children, steps, results and runs: no entry dangles, a    *)
(* hit is one result whole, paid results stay, and an eviction ends within *)
(* the ceiling; these theorems are about runs none of whose children       *)
(* outlives its run.  Of the library, for any number of writers, contents  *)
(* and names: nothing dangles, and while calls follow one another the      *)
(* index says what the descriptors say, and no call undoes another.        *)
(***************************************************************************)
EXTENDS StepCache, Library, FiniteSetTheorems, WellFoundedInduction, TLAPS

\* What a child has in hand, by where it is in ctx.step.
ChildInv(c) ==
  /\ pc[c] = "idle" => restored[c] = {}
  /\ pc[c] \in {"restore", "store", "done"} => value[c] # None
  /\ pc[c] = "restore" => /\ restored[c] \cup todo[c] = BlobsOf[value[c]]
                          /\ BlobsOf[value[c]] \subseteq blobs[Part(key[c])]
  /\ pc[c] = "store" => /\ restored[c] = BlobsOf[value[c]]
                        /\ BlobsOf[value[c]] \ todo[c] \subseteq blobs[Part(key[c])]
  /\ pc[c] = "done" => todo[c] = {} /\ restored[c] = BlobsOf[value[c]]

\* The chassis evicts when the children are gone.
PhaseInv ==
  /\ phase # "driving" => \A c \in Child : Finished(c)
  /\ phase # "evicting" => doomed = {}

\* What an eviction that sweeps will leave: the files of the entries that stay, and no more
\* than the ceiling.
EvictionInv ==
  phase = "evicting" /\ sweep =>
    /\ Refs(InUse \ doomed) \subseteq kept
    /\ Size(InUse \ doomed, kept \cap blobs["cheap"]) <= MaxBytes

StoreInv == TypeOK /\ Ordered /\ NoDanglingEntry /\ IsFiniteSet(blobs["cheap"])

CacheIInv == StoreInv /\ (\A c \in Child : ChildInv(c)) /\ PhaseInv /\ EvictionInv

LEMMA CacheFacts ==
  /\ IsFiniteSet(Key) /\ Paid \subseteq Key
  /\ MaxBytes \in Nat /\ MaxRuns \in Nat \ {0} /\ None \notin Value
  /\ DOMAIN BlobsOf = Value /\ \A v \in Value : BlobsOf[v] \subseteq Blob
BY CacheAssumption DEF CacheAssumption, Blob

-------------------------------------------------------------------------------
(***************************************************************************)
(* The order of last use.                                                  *)
(***************************************************************************)

\* Some entry of any that are stored is the least recently used of them.
LEMMA OldestExists ==
  ASSUME TypeOK, Ordered, NEW S \in SUBSET InUse, S # {}
  PROVE  \E x \in S : \A y \in S : y # x => <<x, y>> \in older
<1>. DEFINE upTo(x) == {y \in S : y = x \/ <<y, x>> \in older}
            family == {upTo(x) : x \in S}
<1>1. IsFiniteSet(S)
  BY CacheFacts, FS_Subset DEF InUse, Cheap
<1>2. PICK U \in family : \A W \in family : ~ (<<W, U>> \in StrictSubsetOrdering(S))
  <2>1. IsWellFoundedOn(StrictSubsetOrdering(S), FiniteSubsetsOf(S))
    BY FS_StrictSubsetOrderingWellFounded
  <2>2. family \subseteq FiniteSubsetsOf(S) /\ family # {}
    <3>1. family \subseteq SUBSET S
      OBVIOUS
    <3>2. FiniteSubsetsOf(S) = SUBSET S
      BY <1>1, FS_FiniteSubsetsOfFinite
    <3>3. family # {}
      OBVIOUS
    <3>. HIDE DEF family
    <3>. QED BY <3>1, <3>2, <3>3
  <2>. HIDE DEF family
  <2>. QED BY <2>1, <2>2, WFMin
<1>3. PICK x \in S : U = upTo(x)
  OBVIOUS
<1>4. ASSUME NEW y \in S, y # x, <<y, x>> \in older
      PROVE  FALSE
  <2>1. x \in upTo(x) /\ x \notin upTo(y)
    BY <1>4 DEF Ordered
  <2>2. upTo(y) \subseteq upTo(x)
    BY <1>4 DEF Ordered
  <2>3. upTo(y) \subseteq S /\ upTo(x) \subseteq S /\ upTo(y) \in family
    OBVIOUS
  <2>. QED BY <1>2, <1>3, <2>1, <2>2, <2>3 DEF StrictSubsetOrdering
<1>. QED BY <1>4 DEF Ordered

LEMMA SizeIs ==
  ASSUME NEW keys \in SUBSET InUse, NEW files, IsFiniteSet(files)
  PROVE  /\ Size(keys, files) = Cardinality(keys) + Cardinality(files)
         /\ Size(keys, files) \in Nat
         /\ \A k \in SUBSET keys, f \in SUBSET files : Size(k, f) <= Size(keys, files)
<1>1. \A k \in SUBSET keys : {x \in k : Stored(x)} = k
  BY DEF InUse
<1>2. IsFiniteSet(keys)
  BY CacheFacts, FS_Subset DEF InUse, Cheap
<1>3. \A k \in SUBSET keys : Cardinality(k) \in Nat /\ Cardinality(k) <= Cardinality(keys)
  BY <1>2, FS_Subset, FS_CardinalityType
<1>4. \A f \in SUBSET files : Cardinality(f) \in Nat /\ Cardinality(f) <= Cardinality(files)
  BY FS_Subset, FS_CardinalityType
<1>. QED BY <1>1, <1>3, <1>4 DEF Size

LEMMA RefsGrow ==
  ASSUME NEW keys, NEW k \in SUBSET keys
  PROVE  Refs(k) \subseteq Refs(keys)
BY DEF Refs

\* Evicting in the order of last use stops in time: what stays fits, whatever the entries share.
LEMMA EvictedFits ==
  ASSUME TypeOK, Ordered, IsFiniteSet(blobs["cheap"]), NEW keys \in SUBSET InUse
  PROVE  Size(keys \ Evicted(keys), Refs(keys \ Evicted(keys)) \cap blobs["cheap"]) <= MaxBytes
<1>. DEFINE rest(j) == NotBefore(keys, j)
            fits(j) == Size(rest(j), Refs(rest(j)) \cap blobs["cheap"]) <= MaxBytes
            S == keys \ Evicted(keys)
            J == {j \in keys : rest(j) # keys /\ fits(j)}
<1>1. \A files : IsFiniteSet(files \cap blobs["cheap"])
  BY FS_Subset
<1>2. \A k \in S : \E j \in J : k \in rest(j)
  BY DEF Evicted
<1>3. CASE S = {}
  <2>1. Refs(S) \cap blobs["cheap"] = {}
    BY <1>3 DEF Refs
  <2>2. Size({}, {}) = 0
    <3>1. {} \in SUBSET InUse /\ IsFiniteSet({}) /\ Cardinality({}) = 0
      BY FS_EmptySet
    <3>. QED BY <3>1, SizeIs
  <2>3. Size(S, Refs(S) \cap blobs["cheap"]) = 0
    <3>. HIDE DEF S
    <3>. QED BY <1>3, <2>1, <2>2
  <2>. QED BY <2>3, CacheFacts
<1>4. CASE S # {}
  <2>1. J # {} /\ J \in SUBSET InUse
    <3>. HIDE DEF S
    <3>. QED BY <1>2, <1>4
  <2>2. PICK i \in J : \A j \in J : j # i => <<i, j>> \in older
    <3>. HIDE DEF J
    <3>. QED BY <2>1, OldestExists
  <2>3. S \subseteq rest(i)
    <3>. SUFFICES ASSUME NEW k \in S, <<k, i>> \in older PROVE FALSE
      BY DEF NotBefore
    <3>1. PICK j \in J : <<k, j>> \notin older
      BY <1>2 DEF NotBefore
    <3>2. k \in InUse /\ i \in InUse /\ j \in InUse
      OBVIOUS
    <3>. QED BY <2>2, <3>1, <3>2 DEF Ordered
  <2>4. rest(i) \in SUBSET InUse /\ fits(i)
    BY DEF NotBefore
  <2>5. Refs(S) \cap blobs["cheap"] \subseteq Refs(rest(i)) \cap blobs["cheap"]
    <3>. HIDE DEF S
    <3>. QED BY <2>3, RefsGrow
  <2>6. /\ Size(S, Refs(S) \cap blobs["cheap"])
             <= Size(rest(i), Refs(rest(i)) \cap blobs["cheap"])
        /\ Size(rest(i), Refs(rest(i)) \cap blobs["cheap"]) \in Nat
        /\ Size(S, Refs(S) \cap blobs["cheap"]) \in Nat
    <3>1. S \in SUBSET InUse
      OBVIOUS
    <3>. HIDE DEF S, rest
    <3>. QED BY <1>1, <2>3, <2>4, <2>5, <3>1, SizeIs
  <2>. QED BY <2>4, <2>6, CacheFacts
<1>. QED BY <1>3, <1>4

-------------------------------------------------------------------------------
(***************************************************************************)
(* The store: writing an entry and removing one.                           *)
(***************************************************************************)

LEMMA WriteKeepsStore ==
  ASSUME StoreInv, NEW k \in Key, NEW v \in Value, BlobsOf[v] \subseteq blobs[Part(k)],
         WriteEntry(k, v), blobs' = blobs
  PROVE  /\ entries' \in [Key -> Value \cup {None}] /\ older' \subseteq InUse' \X InUse'
         /\ Ordered' /\ NoDanglingEntry' /\ IsFiniteSet(blobs'["cheap"])
<1>1. /\ entries' \in [Key -> Value \cup {None}]
      /\ entries'[k] = v /\ \A x \in Key : x # k => entries'[x] = entries[x]
  BY DEF StoreInv, TypeOK, WriteEntry
<1>2. InUse' = IF k \in Paid THEN InUse ELSE InUse \cup {k}
  BY <1>1, CacheFacts DEF InUse, Stored, Cheap
<1>3. NoDanglingEntry' /\ IsFiniteSet(blobs'["cheap"])
  BY <1>1 DEF StoreInv, NoDanglingEntry, Stored, Part
<1>4. CASE k \in Paid
  BY <1>1, <1>2, <1>3, <1>4 DEF WriteEntry, StoreInv, TypeOK, Ordered
<1>5. CASE k \notin Paid
  <2>1. \A i, j : <<i, j>> \in older' <=>
          \/ <<i, j>> \in older /\ i # k /\ j # k
          \/ i \in InUse /\ i # k /\ j = k
    BY <1>5 DEF WriteEntry, AmongOthers
  <2>2. older' \subseteq InUse' \X InUse'
    BY <1>2, <1>5 DEF WriteEntry, AmongOthers, StoreInv, TypeOK
  <2>3. Ordered'
    BY <1>2, <1>5, <2>1 DEF StoreInv, Ordered
  <2>. QED BY <1>1, <1>3, <2>2, <2>3
<1>. QED BY <1>4, <1>5

LEMMA RemoveKeepsStore ==
  ASSUME StoreInv, NEW k \in Cheap, entries' = [entries EXCEPT ![k] = None],
         older' = AmongOthers(k), blobs' = blobs
  PROVE  /\ entries' \in [Key -> Value \cup {None}] /\ older' \subseteq InUse' \X InUse'
         /\ Ordered' /\ NoDanglingEntry' /\ IsFiniteSet(blobs'["cheap"])
         /\ InUse' = InUse \ {k}
<1>1. /\ entries' \in [Key -> Value \cup {None}]
      /\ entries'[k] = None /\ \A x \in Key : x # k => entries'[x] = entries[x]
  BY DEF StoreInv, TypeOK, Cheap
<1>2. InUse' = InUse \ {k}
  BY <1>1 DEF InUse, Stored, Cheap
<1>3. NoDanglingEntry' /\ IsFiniteSet(blobs'["cheap"])
  BY <1>1 DEF StoreInv, NoDanglingEntry, Stored, Part
<1>4. \A i, j : <<i, j>> \in older' <=> <<i, j>> \in older /\ i # k /\ j # k
  BY DEF AmongOthers
<1>5. older' \subseteq InUse' \X InUse' /\ Ordered'
  BY <1>2, <1>4 DEF StoreInv, TypeOK, Ordered, AmongOthers
<1>. QED BY <1>1, <1>2, <1>3, <1>5

-------------------------------------------------------------------------------
(***************************************************************************)
(* The children.                                                           *)
(***************************************************************************)

BlobsStay == \A p \in {"paid", "cheap"} : blobs[p] \subseteq blobs'[p]

LEMMA OtherChild ==
  ASSUME NEW x \in Child, ChildInv(x), BlobsStay, pc'[x] = pc[x], key'[x] = key[x],
         value'[x] = value[x], todo'[x] = todo[x], restored'[x] = restored[x]
  PROVE  ChildInv(x)'
BY DEF ChildInv, BlobsStay, Part

ChildStep(c) == Lookup(c) \/ Restore(c) \/ Touch(c) \/ Work(c) \/ StoreBlob(c)
                \/ StoreEntry(c) \/ NextStep(c) \/ Kill(c)

LEMMA ChildMoves ==
  ASSUME "orphan" \notin Faults, CacheIInv, NEW c \in Child, ChildStep(c)
  PROVE  /\ phase = "driving" /\ UNCHANGED <<evictVars, phase, runs>>
         /\ \A x \in Child : x # c =>
              /\ pc'[x] = pc[x] /\ key'[x] = key[x] /\ value'[x] = value[x]
              /\ todo'[x] = todo[x] /\ restored'[x] = restored[x]
<1>1. phase = "driving"
  <2>1. NextStep(c) \/ ~Finished(c)
    BY DEF ChildStep, Lookup, Restore, Touch, Work, StoreBlob, StoreEntry, Kill, Go, Finished
  <2>. QED BY <2>1 DEF NextStep, CacheIInv, PhaseInv
<1>2. UNCHANGED <<evictVars, phase, runs>>
  BY DEF ChildStep, Lookup, Restore, Touch, Work, StoreBlob, StoreEntry, NextStep, Kill
<1>3. ASSUME NEW x \in Child, x # c
      PROVE  /\ pc'[x] = pc[x] /\ key'[x] = key[x] /\ value'[x] = value[x]
             /\ todo'[x] = todo[x] /\ restored'[x] = restored[x]
  BY <1>3 DEF ChildStep, Lookup, Restore, Touch, Work, StoreBlob, StoreEntry, NextStep, Kill, Go,
     Todo, CacheIInv, StoreInv, TypeOK
<1>. QED BY <1>1, <1>2, <1>3

\* The steps that leave the store alone.
LEMMA QuietStep ==
  ASSUME CacheIInv, NEW c \in Child, Lookup(c) \/ Restore(c) \/ Work(c) \/ NextStep(c) \/ Kill(c)
  PROVE  UNCHANGED storeVars /\ TypeOK' /\ ChildInv(c)'
<1>. USE CacheFacts
<1>0. TypeOK /\ ChildInv(c)
  BY DEF CacheIInv, StoreInv
<1>1. CASE Lookup(c)
  <2>1. CASE Stored(key[c])
    <3>1. /\ pc' = [pc EXCEPT ![c] = "restore"] /\ value' = [value EXCEPT ![c] = entries[key[c]]]
          /\ todo' = [todo EXCEPT ![c] = BlobsOf[entries[key[c]]]] /\ pc[c] = "idle"
          /\ UNCHANGED <<storeVars, evictVars, key, restored, phase, runs>>
      BY <1>1, <2>1 DEF Lookup, Go, Todo
    <3>2. /\ entries[key[c]] \in Value /\ key[c] \in Key
          /\ BlobsOf[entries[key[c]]] \subseteq blobs[Part(key[c])]
      BY <1>0, <2>1 DEF TypeOK, Stored, CacheIInv, StoreInv, NoDanglingEntry
    <3>3. TypeOK'
      BY <1>0, <3>1, <3>2 DEF TypeOK, storeVars, evictVars, InUse, Stored
    <3>4. ChildInv(c)'
      BY <1>0, <3>1, <3>2 DEF TypeOK, ChildInv, storeVars, Part
    <3>. QED BY <3>1, <3>3, <3>4
  <2>2. CASE ~Stored(key[c])
    <3>1. /\ pc' = [pc EXCEPT ![c] = "work"] /\ pc[c] = "idle"
          /\ UNCHANGED <<storeVars, evictVars, key, value, todo, restored, phase, runs>>
      BY <1>1, <2>2 DEF Lookup, Go
    <3>. QED BY <1>0, <3>1 DEF TypeOK, ChildInv, storeVars, evictVars, InUse, Stored, Part
  <2>. QED BY <2>1, <2>2
<1>2. CASE Restore(c)
  <2>1. PICK b \in todo[c] :
          IF b \in blobs[Part(key[c])]
          THEN /\ pc' = [pc EXCEPT ![c] = "restore"]
               /\ todo' = [todo EXCEPT ![c] = todo[c] \ {b}]
               /\ restored' = [restored EXCEPT ![c] = @ \cup {b}]
          ELSE /\ pc' = [pc EXCEPT ![c] = "failed"]
               /\ todo' = [todo EXCEPT ![c] = {}] /\ UNCHANGED restored
    BY <1>2 DEF Restore, Go, Todo
  <2>2. /\ pc[c] = "restore"
        /\ UNCHANGED <<storeVars, evictVars, key, value, phase, runs>>
    BY <1>2 DEF Restore, Go
  <2>3. TypeOK'
    <3>1. /\ \E p \in {"restore", "failed"} : pc' = [pc EXCEPT ![c] = p]
          /\ todo' = [todo EXCEPT ![c] = todo'[c]] /\ todo'[c] \subseteq todo[c]
          /\ restored' = [restored EXCEPT ![c] = restored'[c]]
          /\ restored'[c] \in SUBSET Blob
      BY <1>0, <2>1 DEF TypeOK
    <3>. QED BY <1>0, <2>2, <3>1 DEF TypeOK, storeVars, evictVars, InUse, Stored
  <2>4. ChildInv(c)'
    BY <1>0, <2>1, <2>2 DEF TypeOK, ChildInv, storeVars, Part
  <2>. QED BY <2>2, <2>3, <2>4
<1>3. CASE Work(c)
  <2>1. PICK v \in Value : /\ value' = [value EXCEPT ![c] = v]
                           /\ todo' = [todo EXCEPT ![c] = BlobsOf[v]]
                           /\ restored' = [restored EXCEPT ![c] = BlobsOf[v]]
    BY <1>3 DEF Work, Todo
  <2>2. /\ pc' = [pc EXCEPT ![c] = "store"]
        /\ UNCHANGED <<storeVars, evictVars, key, phase, runs>>
    BY <1>3 DEF Work, Go
  <2>3. TypeOK'
    BY <1>0, <2>1, <2>2 DEF TypeOK, storeVars, evictVars, InUse, Stored
  <2>4. ChildInv(c)'
    BY <1>0, <2>1, <2>2 DEF TypeOK, ChildInv, storeVars, Part
  <2>. QED BY <2>2, <2>3, <2>4
<1>4. CASE NextStep(c)
  <2>1. PICK k \in Key : key' = [key EXCEPT ![c] = k]
    BY <1>4 DEF NextStep
  <2>2. /\ pc' = [pc EXCEPT ![c] = "idle"] /\ pc[c] = "done"
        /\ value' = [value EXCEPT ![c] = None] /\ restored' = [restored EXCEPT ![c] = {}]
        /\ UNCHANGED <<storeVars, evictVars, todo, phase, runs>>
    BY <1>4 DEF NextStep, Go
  <2>3. TypeOK'
    BY <1>0, <2>1, <2>2 DEF TypeOK, ChildInv, storeVars, evictVars, InUse, Stored
  <2>4. ChildInv(c)'
    BY <1>0, <2>1, <2>2 DEF TypeOK, ChildInv, storeVars, Part
  <2>. QED BY <2>2, <2>3, <2>4
<1>5. CASE Kill(c)
  <2>1. /\ pc' = [pc EXCEPT ![c] = "killed"]
        /\ UNCHANGED <<storeVars, evictVars, key, value, todo, restored, phase, runs>>
    BY <1>5 DEF Kill
  <2>. QED BY <1>0, <2>1 DEF TypeOK, ChildInv, storeVars, evictVars, InUse, Stored, Part
<1>. QED BY <1>1, <1>2, <1>3, <1>4, <1>5

LEMMA StoreBlobStep ==
  ASSUME CacheIInv, NEW c \in Child, StoreBlob(c)
  PROVE  StoreInv' /\ ChildInv(c)' /\ BlobsStay /\ UNCHANGED <<entries, older>>
<1>. DEFINE p == Part(key[c])
<1>0. TypeOK /\ ChildInv(c) /\ StoreInv
  BY DEF CacheIInv, StoreInv
<1>1. PICK b \in todo[c] : /\ blobs' = [blobs EXCEPT ![p] = @ \cup {b}]
                           /\ todo' = [todo EXCEPT ![c] = todo[c] \ {b}]
  BY DEF StoreBlob, Todo
<1>2. /\ pc[c] = "store" /\ pc' = [pc EXCEPT ![c] = "store"]
      /\ UNCHANGED <<entries, older, evictVars, key, value, restored, phase, runs>>
  BY DEF StoreBlob, Go
<1>3. p \in {"paid", "cheap"} /\ b \in Blob
  BY <1>0 DEF Part, TypeOK
<1>4. BlobsStay /\ blobs' \in [{"paid", "cheap"} -> SUBSET Blob] /\ b \in blobs'[p]
  BY <1>0, <1>1, <1>3 DEF TypeOK, BlobsStay
<1>5. TypeOK'
  BY <1>0, <1>1, <1>2, <1>4 DEF TypeOK, evictVars, InUse, Stored
<1>6. Ordered' /\ NoDanglingEntry'
  BY <1>0, <1>2, <1>4 DEF StoreInv, Ordered, InUse, NoDanglingEntry, Stored, BlobsStay, Part
<1>7. IsFiniteSet(blobs'["cheap"])
  <2>1. blobs'["cheap"] = blobs["cheap"] \/ blobs'["cheap"] = blobs["cheap"] \cup {b}
    BY <1>0, <1>1, <1>3 DEF TypeOK
  <2>. QED BY <1>0, <2>1, FS_AddElement DEF StoreInv
<1>8. ChildInv(c)'
  <2>1. BlobsOf[value[c]] \ todo'[c] \subseteq blobs'[p]
    BY <1>0, <1>1, <1>2, <1>3, <1>4 DEF TypeOK, ChildInv, BlobsStay
  <2>. QED BY <1>0, <1>2, <2>1 DEF TypeOK, ChildInv, Part
<1>. QED BY <1>2, <1>4, <1>5, <1>6, <1>7, <1>8 DEF StoreInv

LEMMA EntryStep ==
  ASSUME CacheIInv, NEW c \in Child, Touch(c) \/ StoreEntry(c)
  PROVE  /\ StoreInv' /\ ChildInv(c)' /\ UNCHANGED blobs
         /\ \A k \in Key : Stored(k) => entries'[k] # None
<1>0. TypeOK /\ ChildInv(c) /\ StoreInv
  BY DEF CacheIInv, StoreInv
<1>1. /\ WriteEntry(key[c], value[c]) /\ todo[c] = {}
      /\ pc[c] \in {"restore", "store"} /\ pc' = [pc EXCEPT ![c] = "done"]
      /\ UNCHANGED <<blobs, evictVars, key, value, todo, restored, phase, runs>>
  BY DEF Touch, StoreEntry, Go
<1>2. /\ value[c] \in Value /\ key[c] \in Key
      /\ BlobsOf[value[c]] \subseteq blobs[Part(key[c])] /\ restored[c] = BlobsOf[value[c]]
  BY <1>0, <1>1 DEF TypeOK, ChildInv
<1>3. /\ entries' \in [Key -> Value \cup {None}] /\ older' \subseteq InUse' \X InUse'
      /\ Ordered' /\ NoDanglingEntry' /\ IsFiniteSet(blobs'["cheap"])
  BY <1>0, <1>1, <1>2, WriteKeepsStore
<1>4. TypeOK'
  BY <1>0, <1>1, <1>3 DEF TypeOK, evictVars
<1>5. ChildInv(c)'
  BY <1>0, <1>1, <1>2 DEF TypeOK, ChildInv
<1>6. \A k \in Key : Stored(k) => entries'[k] # None
  BY <1>0, <1>1, <1>2, CacheFacts DEF WriteEntry, TypeOK, Stored
<1>. QED BY <1>1, <1>3, <1>4, <1>5, <1>6 DEF StoreInv

PaidStays ==
  \A k \in Paid : Stored(k) => entries'[k] # None /\ blobs["paid"] \subseteq blobs'["paid"]

LEMMA ChildKeeps ==
  ASSUME "orphan" \notin Faults, CacheIInv, NEW c \in Child, ChildStep(c)
  PROVE  CacheIInv' /\ PaidStays
<1>1. /\ StoreInv' /\ ChildInv(c)' /\ BlobsStay /\ \A k \in Key : Stored(k) => entries'[k] # None
  <2>1. CASE Lookup(c) \/ Restore(c) \/ Work(c) \/ NextStep(c) \/ Kill(c)
    <3>1. UNCHANGED storeVars /\ TypeOK' /\ ChildInv(c)'
      BY <2>1, QuietStep
    <3>. QED BY <3>1 DEF CacheIInv, StoreInv, storeVars, Ordered, NoDanglingEntry, InUse, Stored,
       BlobsStay
  <2>2. CASE StoreBlob(c)
    BY <2>2, StoreBlobStep DEF Stored
  <2>3. CASE Touch(c) \/ StoreEntry(c)
    BY <2>3, EntryStep DEF BlobsStay
  <2>. QED BY <2>1, <2>2, <2>3 DEF ChildStep
<1>2. \A x \in Child : ChildInv(x)'
  BY <1>1, ChildMoves, OtherChild DEF CacheIInv
<1>3. PhaseInv' /\ EvictionInv'
  BY ChildMoves DEF CacheIInv, PhaseInv, EvictionInv, evictVars
<1>4. PaidStays
  BY <1>1, CacheFacts DEF PaidStays, BlobsStay
<1>. QED BY <1>1, <1>2, <1>3, <1>4 DEF CacheIInv

-------------------------------------------------------------------------------
(***************************************************************************)
(* The chassis.                                                            *)
(***************************************************************************)

\* The children stand still, and the files of their steps stay.
LEMMA ChildrenStay ==
  ASSUME CacheIInv, UNCHANGED childVars,
         phase # "driving" \/ BlobsStay
  PROVE  \A c \in Child : ChildInv(c)'
<1>. SUFFICES ASSUME NEW c \in Child PROVE ChildInv(c)'
  OBVIOUS
<1>1. ChildInv(c) /\ key[c] \in Key
  BY DEF CacheIInv, StoreInv, TypeOK
<1>2. phase # "driving" => pc[c] \notin {"idle", "restore", "work", "store"}
  BY DEF CacheIInv, PhaseInv, Finished
<1>. QED BY <1>1, <1>2 DEF ChildInv, childVars, BlobsStay, Part

LEMMA LoadStep ==
  ASSUME "orphan" \notin Faults, CacheIInv, LoadEntries
  PROVE  CacheIInv' /\ PaidStays
<1>0. StoreInv /\ TypeOK /\ Ordered /\ IsFiniteSet(blobs["cheap"])
  BY DEF CacheIInv, StoreInv
<1>1. PICK unread \in SUBSET InUse :
        LET read == InUse \ unread
            over == Size(read, blobs["cheap"]) > MaxBytes
        IN  /\ unread = {} \/ "io" \in Faults
            /\ doomed' = IF over THEN Evicted(read) ELSE {}
            /\ kept' = IF over THEN Refs(read \ Evicted(read)) ELSE {}
            /\ sweep' = (over /\ unread = {})
  BY DEF LoadEntries
<1>. DEFINE read == InUse \ unread
            over == Size(read, blobs["cheap"]) > MaxBytes
<1>2. /\ phase' = "evicting" /\ UNCHANGED <<storeVars, childVars, runs>>
      /\ \A c \in Child : Finished(c)
  BY DEF LoadEntries
<1>3. InUse' = InUse /\ \A keys : Refs(keys)' = Refs(keys)
  BY <1>2 DEF InUse, Refs, Stored, storeVars
<1>4. doomed' \subseteq Cheap /\ kept' \subseteq Blob /\ sweep' \in BOOLEAN
  <2>1. doomed' \subseteq InUse
    BY <1>1 DEF Evicted
  <2>2. Refs(read \ Evicted(read)) \subseteq Blob
    <3>1. \A keys \in SUBSET Key : Refs(keys) \subseteq Blob
      <4>1. \A k \in Key : Stored(k) => BlobsOf[entries[k]] \subseteq Blob
        BY <1>0, CacheFacts DEF TypeOK, Stored
      <4>. QED BY <4>1 DEF Refs
    <3>2. read \ Evicted(read) \in SUBSET Key
      BY DEF InUse, Cheap
    <3>. QED BY <3>1, <3>2
  <2>. QED BY <1>1, <2>1, <2>2 DEF InUse
<1>5. TypeOK'
  BY <1>0, <1>2, <1>3, <1>4 DEF TypeOK, storeVars, childVars
<1>6. StoreInv'
  BY <1>0, <1>2, <1>3, <1>5 DEF StoreInv, Ordered, NoDanglingEntry, Stored, storeVars
<1>7. \A c \in Child : ChildInv(c)'
  BY <1>2, ChildrenStay DEF storeVars, BlobsStay
<1>8. PhaseInv'
  BY <1>2 DEF PhaseInv, childVars, Finished
<1>9. EvictionInv'
  <2>1. SUFFICES ASSUME sweep'
                 PROVE  /\ Refs(InUse \ doomed') \subseteq kept'
                        /\ Size(InUse \ doomed', kept' \cap blobs["cheap"]) <= MaxBytes
    BY <1>2, <1>3 DEF EvictionInv, Size, Stored, storeVars, Refs
  <2>2. /\ read = InUse
        /\ doomed' = Evicted(InUse) /\ kept' = Refs(InUse \ Evicted(InUse))
    BY <1>1, <2>1
  <2>. QED BY <1>0, <2>2, EvictedFits
<1>10. PaidStays
  BY <1>2 DEF PaidStays, storeVars, Stored
<1>. QED BY <1>6, <1>7, <1>8, <1>9, <1>10 DEF CacheIInv

LEMMA RemoveEntryStep ==
  ASSUME CacheIInv, RemoveEntry
  PROVE  CacheIInv' /\ PaidStays
<1>0. StoreInv /\ TypeOK
  BY DEF CacheIInv, StoreInv
<1>1. PICK k \in doomed : /\ doomed' = doomed \ {k}
                          /\ entries' = [entries EXCEPT ![k] = None]
                          /\ older' = AmongOthers(k)
  BY DEF RemoveEntry
<1>2. phase = "evicting" /\ UNCHANGED <<blobs, childVars, kept, sweep, phase, runs>>
  BY DEF RemoveEntry
<1>3. k \in Cheap
  BY <1>0 DEF TypeOK
<1>4. /\ entries' \in [Key -> Value \cup {None}] /\ older' \subseteq InUse' \X InUse'
      /\ Ordered' /\ NoDanglingEntry' /\ IsFiniteSet(blobs'["cheap"])
      /\ InUse' = InUse \ {k}
  BY <1>0, <1>1, <1>2, <1>3, RemoveKeepsStore
<1>5. StoreInv'
  <2>1. TypeOK'
    BY <1>0, <1>1, <1>2, <1>4 DEF TypeOK, childVars
  <2>. QED BY <1>4, <2>1 DEF StoreInv
<1>6. \A c \in Child : ChildInv(c)'
  BY <1>2, ChildrenStay
<1>7. PhaseInv'
  BY <1>2 DEF CacheIInv, PhaseInv, childVars, Finished
<1>8. EvictionInv'
  <2>1. PICK S : S = InUse \ doomed /\ InUse' \ doomed' = S
    BY <1>1, <1>4
  <2>2. \A x \in S : entries'[x] = entries[x]
    BY <1>0, <1>1, <2>1 DEF TypeOK
  <2>3. SUFFICES ASSUME sweep
                 PROVE  /\ UNION {BlobsOf[entries'[x]] : x \in {y \in S : entries'[y] # None}}
                             \subseteq kept
                        /\ Cardinality({y \in S : entries'[y] # None})
                             + Cardinality(kept \cap blobs["cheap"]) <= MaxBytes
    BY <1>2, <2>1 DEF EvictionInv, Refs, Size, Stored
  <2>4. /\ UNION {BlobsOf[entries[x]] : x \in {y \in S : entries[y] # None}} \subseteq kept
        /\ Cardinality({y \in S : entries[y] # None})
             + Cardinality(kept \cap blobs["cheap"]) <= MaxBytes
    BY <1>2, <2>1, <2>3 DEF CacheIInv, EvictionInv, Refs, Size, Stored
  <2>5. {y \in S : entries'[y] # None} = {y \in S : entries[y] # None}
    BY <2>2
  <2>. QED BY <2>2, <2>4, <2>5
<1>9. PaidStays
  BY <1>0, <1>1, <1>2, <1>3 DEF PaidStays, Stored, TypeOK, Cheap
<1>. QED BY <1>5, <1>6, <1>7, <1>8, <1>9 DEF CacheIInv

LEMMA RemoveBlobStep ==
  ASSUME CacheIInv, RemoveBlob
  PROVE  CacheIInv' /\ PaidStays
<1>0. StoreInv /\ TypeOK /\ NoDanglingEntry
  BY DEF CacheIInv, StoreInv
<1>1. PICK b \in Garbage : blobs' = [blobs EXCEPT !["cheap"] = @ \ {b}]
  BY DEF RemoveBlob
<1>2. /\ phase = "evicting" /\ doomed = {} /\ sweep /\ b \notin kept
      /\ UNCHANGED <<entries, older, childVars, evictVars, phase, runs>>
  BY <1>1 DEF RemoveBlob, Garbage
<1>3. /\ blobs' \in [{"paid", "cheap"} -> SUBSET Blob]
      /\ blobs'["paid"] = blobs["paid"] /\ blobs'["cheap"] = blobs["cheap"] \ {b}
  BY <1>0, <1>1 DEF TypeOK
<1>4. InUse' = InUse /\ \A k : Stored(k)' = Stored(k)
  BY <1>2 DEF InUse, Stored
<1>5. /\ Refs(InUse) \subseteq kept
      /\ Size(InUse, kept \cap blobs["cheap"]) <= MaxBytes
  BY <1>2 DEF CacheIInv, EvictionInv
<1>6. NoDanglingEntry'
  <2>. SUFFICES ASSUME NEW k \in Key, Stored(k)
                PROVE  BlobsOf[entries[k]] \subseteq blobs'[Part(k)]
    BY <1>2, <1>4 DEF NoDanglingEntry, Part
  <2>1. BlobsOf[entries[k]] \subseteq blobs[Part(k)]
    BY <1>0 DEF NoDanglingEntry
  <2>2. CASE k \in Paid
    BY <1>3, <2>1, <2>2 DEF Part
  <2>3. CASE k \notin Paid
    <3>1. BlobsOf[entries[k]] \subseteq Refs(InUse)
      BY <2>3 DEF InUse, Cheap, Refs
    <3>. QED BY <1>2, <1>3, <1>5, <2>1, <2>3, <3>1 DEF Part
  <2>. QED BY <2>2, <2>3
<1>7. StoreInv'
  <2>1. TypeOK'
    BY <1>0, <1>2, <1>3, <1>4 DEF TypeOK, childVars, evictVars
  <2>2. IsFiniteSet(blobs'["cheap"])
    BY <1>0, <1>3, FS_Subset DEF StoreInv
  <2>3. Ordered'
    BY <1>0, <1>2, <1>4 DEF StoreInv, Ordered
  <2>. QED BY <1>6, <2>1, <2>2, <2>3 DEF StoreInv
<1>8. \A c \in Child : ChildInv(c)'
  BY <1>2, ChildrenStay
<1>9. PhaseInv'
  BY <1>2 DEF CacheIInv, PhaseInv, childVars, evictVars, Finished
<1>10. EvictionInv'
  <2>1. kept \cap blobs'["cheap"] = kept \cap blobs["cheap"]
    BY <1>2, <1>3
  <2>. QED BY <1>2, <1>4, <1>5, <2>1 DEF EvictionInv, evictVars, Refs, Size, Stored
<1>11. PaidStays
  BY <1>2, <1>3 DEF PaidStays, Stored
<1>. QED BY <1>7, <1>8, <1>9, <1>10, <1>11 DEF CacheIInv

\* The phases of the chassis end and begin.
LEMMA PhaseStep ==
  ASSUME "orphan" \notin Faults, CacheIInv, EvictionEnds \/ NoEviction \/ NextRun
  PROVE  CacheIInv' /\ PaidStays
<1>0. StoreInv /\ TypeOK
  BY DEF CacheIInv, StoreInv
<1>1. UNCHANGED storeVars /\ InUse' = InUse /\ \A k : Stored(k)' = Stored(k)
  BY DEF EvictionEnds, NoEviction, NextRun, storeVars, InUse, Stored
<1>2. PaidStays
  BY <1>1 DEF PaidStays, storeVars, Stored
<1>3. TypeOK' => StoreInv'
  BY <1>0, <1>1 DEF StoreInv, storeVars, Ordered, NoDanglingEntry
<1>4. CASE EvictionEnds \/ NoEviction
  <2>1. /\ UNCHANGED <<childVars, kept, sweep, runs>> /\ phase' = "over" /\ doomed' = {}
        /\ \A c \in Child : Finished(c)
    BY <1>4 DEF EvictionEnds, NoEviction, evictVars, CacheIInv, PhaseInv
  <2>2. TypeOK'
    BY <1>0, <1>1, <2>1 DEF TypeOK, storeVars, childVars
  <2>3. \A c \in Child : ChildInv(c)'
    BY <1>1, <2>1, ChildrenStay DEF storeVars, BlobsStay
  <2>4. PhaseInv' /\ EvictionInv'
    BY <2>1 DEF PhaseInv, EvictionInv, childVars, Finished
  <2>. QED BY <1>2, <1>3, <2>2, <2>3, <2>4 DEF CacheIInv
<1>5. CASE NextRun
  <2>1. \A c \in Child : Finished(c)
    BY <1>5 DEF NextRun, CacheIInv, PhaseInv
  <2>2. /\ phase' = "driving" /\ doomed' = {} /\ kept' = {} /\ sweep' = FALSE
        /\ runs < MaxRuns /\ runs' = runs + 1 /\ key' \in [Child -> Key]
        /\ pc' = [c \in Child |-> "idle"] /\ value' = [c \in Child |-> None]
        /\ todo' = [c \in Child |-> {}] /\ restored' = [c \in Child |-> {}]
    BY <1>5, <2>1 DEF NextRun
  <2>3. runs' \in 1 .. MaxRuns
    BY <1>0, <2>2, CacheFacts DEF TypeOK
  <2>4. TypeOK'
    BY <1>0, <1>1, <2>2, <2>3 DEF TypeOK, storeVars
  <2>5. \A c \in Child : ChildInv(c)'
    BY <2>2 DEF ChildInv
  <2>6. PhaseInv' /\ EvictionInv'
    BY <2>2 DEF PhaseInv, EvictionInv
  <2>. QED BY <1>2, <1>3, <2>4, <2>5, <2>6 DEF CacheIInv
<1>. QED BY <1>4, <1>5

LEMMA CacheBegins == Init => CacheIInv
<1>. SUFFICES ASSUME Init PROVE CacheIInv
  OBVIOUS
<1>1. InUse = {} /\ \A k \in Key : ~Stored(k)
  BY CacheFacts DEF Init, InUse, Stored, Cheap
<1>2. TypeOK
  <2>1. 1 \in 1 .. MaxRuns
    BY CacheFacts
  <2>. QED BY <1>1, <2>1 DEF Init, TypeOK
<1>3. IsFiniteSet(blobs["cheap"])
  BY FS_EmptySet DEF Init
<1>. QED BY <1>1, <1>2, <1>3
         DEF Init, CacheIInv, StoreInv, Ordered, NoDanglingEntry, ChildInv, PhaseInv, EvictionInv

LEMMA CacheStep ==
  ASSUME "orphan" \notin Faults, CacheIInv, [Next]_vars
  PROVE  CacheIInv' /\ PaidStays
<1>1. CASE UNCHANGED vars
  BY <1>1 DEF vars, storeVars, childVars, evictVars, CacheIInv, StoreInv, TypeOK, Ordered,
     NoDanglingEntry, ChildInv, PhaseInv, EvictionInv, PaidStays, InUse, Stored, Finished, Refs,
     Size
<1>. QED BY <1>1, ChildKeeps, LoadStep, RemoveEntryStep, RemoveBlobStep, PhaseStep
         DEF Next, ChildStep, Quiescent

-------------------------------------------------------------------------------
(***************************************************************************)
(* The theorems.                                                           *)
(***************************************************************************)

LEMMA CacheAlways == "orphan" \notin Faults => (Spec => []CacheIInv)
<1>. SUFFICES ASSUME "orphan" \notin Faults PROVE Spec => []CacheIInv
  OBVIOUS
<1>1. CacheIInv /\ [Next]_vars => CacheIInv'
  BY CacheStep
<1>. QED BY <1>1, CacheBegins, PTL DEF Spec

\* Children that store one step at a time or twice at once, kills, unreadable entries and
\* evictions that die half-way: no entry ever names a blob that is not there, and the cheap
\* entries stay in one order of last use.
THEOREM CacheIsSound == "orphan" \notin Faults => (Spec => []CacheInv)
<1>1. CacheIInv => CacheInv
  BY DEF CacheIInv, StoreInv, CacheInv
<1>. QED BY <1>1, CacheAlways, PTL

\* A hit hands out the value and the files of one computation, whatever is stored meanwhile.
THEOREM HitsAreWhole == "orphan" \notin Faults => (Spec => []HitIsWhole)
<1>1. CacheIInv => HitIsWhole
  BY DEF CacheIInv, ChildInv, HitIsWhole
<1>. QED BY <1>1, CacheAlways, PTL

\* No step takes what was paid for, and an eviction that could read every entry ends within the
\* ceiling, however its entries share their files.
THEOREM EvictionKeepsItsWord == "orphan" \notin Faults => (Spec => EvictionFits)
<1>. SUFFICES ASSUME "orphan" \notin Faults PROVE Spec => EvictionFits
  OBVIOUS
<1>1. ASSUME CacheIInv, [Next]_vars
      PROVE  [/\ \A k \in Paid : Stored(k) =>
                   entries'[k] # None /\ blobs["paid"] \subseteq blobs'["paid"]
              /\ phase = "evicting" /\ phase' = "over" /\ doomed = {} /\ Garbage = {} /\ sweep =>
                   Size(Cheap, blobs["cheap"]) <= MaxBytes]_vars
  <2>1. PaidStays
    BY <1>1, CacheStep
  <2>2. ASSUME phase = "evicting", doomed = {}, Garbage = {}, sweep
        PROVE  Size(Cheap, blobs["cheap"]) <= MaxBytes
    <3>1. kept \cap blobs["cheap"] = blobs["cheap"]
      BY <2>2 DEF Garbage
    <3>2. Size(Cheap, blobs["cheap"]) = Size(InUse, blobs["cheap"])
      <4>1. {k \in InUse : Stored(k)} = {k \in Cheap : Stored(k)}
        BY DEF InUse
      <4>. QED BY <4>1 DEF Size
    <3>. QED BY <1>1, <2>2, <3>1, <3>2 DEF CacheIInv, EvictionInv
  <2>. QED BY <2>1, <2>2 DEF PaidStays
<1>. QED BY <1>1, CacheAlways, PTL DEF Spec, EvictionFits

-------------------------------------------------------------------------------
(***************************************************************************)
(* The library.                                                            *)
(***************************************************************************)
USE LibraryAssumption

\* Of what a writer holds and where it stands: the file it read is there while it will be written.
Place ==
  {"idle", "put", "blob", "describe", "index", "heal", "copy", "copying", "copied", "torn",
   "amend", "edit", "refresh", "scan", "catalog", "supersede", "alias", "name", "grant", "permit"}

Arrays ==
  /\ place \in [Writer -> Place] /\ job \in [Writer -> Job \cup {Null}]
  /\ purpose \in [Writer -> {"before", "own", "copy", "old", "after"}]
  /\ known \in [Writer -> BOOLEAN]
  /\ side \in [Writer -> Descriptor \cup {Null}]
  /\ cat \in [Writer -> Catalog \cup {Null}]
  /\ als \in [Writer -> Aliases \cup {Null}]
  /\ grn \in [Writer -> Grants \cup {Null}]

Files ==
  /\ role \in Roles /\ beneath \in [Id -> Descriptor \cup {Null}]
  /\ role # "overlay" => \A i \in Id : beneath[i] = Null
  /\ partial \subseteq blobFiles /\ blobFiles \subseteq Id
  /\ sidecar \in [Id -> Descriptor \cup {Null, Torn}]
  /\ catalog \in Catalog \cup {Null} /\ aliases \in Aliases /\ grants \in Grants
  /\ jobs \in 0 .. MaxJobs[role] /\ calm \in BOOLEAN

HoldsOK(w) ==
  /\ job[w] # Null <=> place[w] # "idle"
  /\ side[w] # Null <=> place[w] = "edit"
  /\ cat[w] # Null <=> place[w] = "catalog"
  /\ als[w] # Null <=> place[w] = "name"
  /\ grn[w] # Null <=> place[w] = "permit"

\* Which calls come where, and for what.
Calls(w, kinds) == job[w] # Null /\ job[w].kind \in kinds

PlaceOK(w) ==
  /\ place[w] = "idle" => purpose[w] = "own"
  /\ place[w] \in {"put", "blob", "describe", "index", "heal", "supersede"} =>
       Calls(w, {"put"}) /\ purpose[w] = "own"
  /\ place[w] \in {"copy", "copying", "copied", "torn"} =>
       /\ Calls(w, {"annotate"}) /\ role = "overlay" /\ purpose[w] \in {"own", "copy"}
       /\ beneath[job[w].id] # Null
  /\ place[w] = "amend" => Calls(w, {"annotate", "update"}) /\ purpose[w] = "own"
  /\ place[w] = "edit" =>
       \/ purpose[w] = "own" /\ Calls(w, {"annotate", "update", "active", "inactive"})
       \/ purpose[w] = "old" /\ Calls(w, {"put"}) /\ job[w].old \in Id
  /\ place[w] = "refresh" =>
       \/ purpose[w] = "own" /\ Calls(w, {"active", "inactive"})
       \/ purpose[w] = "old" /\ Calls(w, {"put"}) /\ job[w].old \in Id
  /\ place[w] \in {"alias", "name"} =>
       \/ Calls(w, {"put"}) /\ purpose[w] \in {"own", "old"}
       \/ Calls(w, {"rename", "update"}) /\ purpose[w] = "own" /\ job[w].name # Null
  /\ place[w] = "name" => job[w].name # Null
  /\ place[w] \in {"grant", "permit"} => role = "owner" /\ Calls(w, {"put", "grant"})
  /\ place[w] \in {"scan", "catalog"} =>
       /\ purpose[w] \in {"before", "old", "after"} => Calls(w, {"put"})
       /\ purpose[w] = "copy" => Calls(w, {"annotate"})
       /\ purpose[w] = "own" => ~Calls(w, {"rename", "grant"})

\* Where what a call is about is described already, and what a writer holds is.
Settled(w) ==
  \/ place[w] \in {"index", "heal", "torn", "amend", "edit", "refresh", "supersede",
               "alias", "name", "grant", "permit"}
  \/ place[w] \in {"scan", "catalog"} /\ purpose[w] # "before" /\ ~Calls(w, {"find"})

HeldOK(w) ==
  /\ place[w] \in {"describe", "copying", "copied", "torn"} => job[w].id \in blobFiles
  /\ Settled(w) => sidecar[job[w].id] # Null
  /\ place[w] \in {"edit", "refresh"} => sidecar[Subject(w)] # Null
  /\ place[w] = "catalog" => \A i \in Id : cat[w][i] # Null => sidecar[i] # Null
  /\ place[w] = "name" => \A n \in Name : als[w][n] # Null => sidecar[als[w][n]] # Null
  /\ place[w] = "permit" => \A i \in Id : grn[w][i] # Null => sidecar[i] # Null

\* While calls follow one another: what the one writer holds is what is there, and the catalogue
\* says what the sidecars say but between a change and its entry.
StatusOf(i) == IF sidecar[i] = Null THEN Null ELSE sidecar[i].status

CalmOK(w) ==
  /\ place[w] # "torn" => \A i \in Id : sidecar[i] # Torn
  /\ place[w] = "torn" => \A i \in Id : sidecar[i] = Torn <=> i = job[w].id
  /\ place[w] \notin {"index", "refresh", "torn", "scan", "catalog"} /\ catalog # Null =>
       \A i \in Id : catalog[i] = StatusOf(i)
  /\ place[w] \in {"index", "refresh"} /\ catalog # Null =>
       \A i \in Id \ {Subject(w)} : catalog[i] = StatusOf(i)
  /\ place[w] \in {"index", "refresh"} => sidecar[Subject(w)].status = NewStatus(w)
  /\ place[w] = "catalog" => \A i \in Id : cat[w][i] = StatusOf(i)
  /\ place[w] = "edit" => side[w] = sidecar[Subject(w)]
  /\ place[w] = "name" => als[w] = aliases
  /\ place[w] = "permit" => grn[w] = grants

Alone(w) == \A v \in Writer : place[v] # "idle" => v = w

CalmInv ==
  calm => /\ \A w \in Writer : place[w] # "idle" => Alone(w)
          /\ \A w \in Writer : Alone(w) => CalmOK(w)

WriterOK(w) == HoldsOK(w) /\ PlaceOK(w) /\ HeldOK(w)

NamespaceInv == Files /\ Arrays /\ NothingDangles /\ CalmInv /\ \A w \in Writer : WriterOK(w)

\* A step of one writer, with what it has to keep.
Grown ==
  /\ role' = role /\ beneath' = beneath /\ blobFiles \subseteq blobFiles'
  /\ \A i \in Id : sidecar[i] # Null => sidecar'[i] # Null

Others(w) ==
  \A v \in Writer \ {w} :
    /\ place'[v] = place[v] /\ job'[v] = job[v] /\ purpose'[v] = purpose[v]
    /\ side'[v] = side[v] /\ cat'[v] = cat[v] /\ als'[v] = als[v] /\ grn'[v] = grn[v]

OthersIdle(w) == \A v \in Writer \ {w} : place[v] = "idle"

Step(w) ==
  /\ Files' /\ Arrays' /\ NothingDangles' /\ Grown /\ Others(w) /\ WriterOK(w)'
  /\ calm' => calm /\ OthersIdle(w) /\ CalmOK(w)'

\* What a call is made of.
LEMMA CallShape ==
  ASSUME NEW j \in Job
  PROVE  /\ j # Null
         /\ j.kind \in {"find", "put", "update", "rename", "active", "inactive", "grant",
                        "annotate"}
         /\ j.kind # "find" => j.id \in Id
         /\ j.name \in Name \cup {Null} /\ j.old \in Id \cup {Null}
         /\ j.grant \in BOOLEAN \cup {Null}
         /\ j.kind = "rename" => j.name \in Name
         /\ role = "owner" \/ j.kind \in {"find", "put", "annotate"}
<1>1. j \in Call
  BY DEF Job, OwnerJob, WorkflowJob, Put, Upload, Change, Find, Call
<1>2. j # Null
  BY <1>1 DEF LibraryAssumption
<1>3. CASE j = Find
  BY <1>2, <1>3 DEF Find
<1>4. CASE role = "owner" /\ j \in Upload
  BY <1>2, <1>4 DEF Upload
<1>5. CASE role = "owner" /\ j \in Change({"update"}, Name \cup {Null}, {Null})
  BY <1>2, <1>5 DEF Change
<1>6. CASE role = "owner" /\ j \in Change({"rename"}, Name, {Null})
  BY <1>2, <1>6 DEF Change
<1>7. CASE role = "owner" /\ j \in Change({"active", "inactive"}, {Null}, {Null})
  BY <1>2, <1>7 DEF Change
<1>8. CASE role = "owner" /\ j \in Change({"grant"}, {Null}, BOOLEAN)
  BY <1>2, <1>8 DEF Change
<1>9. CASE j \in Put
  BY <1>2, <1>9 DEF Put
<1>10. CASE j \in Change({"annotate"}, {Null}, {Null})
  BY <1>2, <1>10 DEF Change
<1>. QED BY <1>3, <1>4, <1>5, <1>6, <1>7, <1>8, <1>9, <1>10
   DEF Job, OwnerJob, WorkflowJob

LEMMA CallsAlike ==
  ASSUME role' = role
  PROVE  Job' = Job
BY DEF Job

LEMMA Typing ==
  ASSUME Files, Arrays, \A w \in Writer : HoldsOK(w)
  PROVE  LibraryTypeOK
BY DEF Files, Arrays, HoldsOK, LibraryTypeOK, Place

LEMMA OthersPlaced ==
  ASSUME NEW w \in Writer, NEW v \in Writer \ {w}, Others(w), Grown, PlaceOK(v)
  PROVE  PlaceOK(v)'
<1>1. /\ place'[v] = place[v] /\ job'[v] = job[v] /\ purpose'[v] = purpose[v]
      /\ role' = role /\ beneath' = beneath
  BY DEF Others, Grown
<1>2. \A kinds : Calls(v, kinds)' <=> Calls(v, kinds)
  BY <1>1 DEF Calls
<1>. QED BY <1>1, <1>2 DEF PlaceOK

LEMMA OthersHold ==
  ASSUME Files, Arrays, NEW w \in Writer, NEW v \in Writer \ {w},
         Others(w), Grown, HoldsOK(v), PlaceOK(v), HeldOK(v)
  PROVE  HoldsOK(v)' /\ HeldOK(v)'
<1>1. /\ place'[v] = place[v] /\ job'[v] = job[v] /\ purpose'[v] = purpose[v]
      /\ side'[v] = side[v] /\ cat'[v] = cat[v] /\ als'[v] = als[v] /\ grn'[v] = grn[v]
  BY DEF Others
<1>2. HoldsOK(v)'
  BY <1>1 DEF HoldsOK
<1>3. Subject(v)' = Subject(v) /\ (Settled(v)' <=> Settled(v))
  BY <1>1 DEF Subject, Settled, Calls
<1>4. job[v] # Null => job[v] \in Job
  BY DEF Arrays
<1>5. Settled(v) => job[v].id \in Id
  BY <1>4, CallShape DEF Settled, PlaceOK, Calls, HoldsOK
<1>6. place[v] \in {"edit", "refresh"} => Subject(v) \in Id
  BY <1>4, <1>5, CallShape DEF Subject, PlaceOK, Settled
<1>7. /\ place[v] = "catalog" => cat[v] \in Catalog
      /\ place[v] = "name" => als[v] \in Aliases
      /\ place[v] = "permit" => grn[v] \in Grants
  BY DEF Arrays, HoldsOK
<1>8. place[v] \in {"describe", "copying", "copied", "torn"} => job'[v].id \in blobFiles'
  BY <1>1 DEF HeldOK, Grown
<1>9. Settled(v) => sidecar'[job'[v].id] # Null
  BY <1>1, <1>5 DEF HeldOK, Grown
<1>10. place[v] \in {"edit", "refresh"} => sidecar'[Subject(v)] # Null
  BY <1>6 DEF HeldOK, Grown
<1>11. place[v] = "catalog" => \A i \in Id : cat'[v][i] # Null => sidecar'[i] # Null
  BY <1>1, <1>7 DEF HeldOK, Grown
<1>12. place[v] = "name" => \A n \in Name : als'[v][n] # Null => sidecar'[als'[v][n]] # Null
  BY <1>1, <1>7 DEF HeldOK, Grown, Aliases
<1>13. place[v] = "permit" => \A i \in Id : grn'[v][i] # Null => sidecar'[i] # Null
  BY <1>1, <1>7 DEF HeldOK, Grown
<1>. QED BY <1>1, <1>2, <1>3, <1>8, <1>9, <1>10, <1>11, <1>12, <1>13 DEF HeldOK

\* The writer of a step is the one that may hold something, while calls follow one another.
LEMMA CalmKept ==
  ASSUME NEW w \in Writer, Others(w), calm' => OthersIdle(w) /\ CalmOK(w)'
  PROVE  CalmInv'
<1>1. SUFFICES ASSUME calm', OthersIdle(w), CalmOK(w)'
               PROVE  /\ \A v \in Writer : place'[v] # "idle" => Alone(v)'
                      /\ \A v \in Writer : Alone(v)' => CalmOK(v)'
  BY DEF CalmInv
<1>2. \A v \in Writer \ {w} : place'[v] = "idle"
  BY <1>1 DEF OthersIdle, Others
<1>3. \A v \in Writer : place'[v] # "idle" => Alone(v)'
  BY <1>2 DEF Alone
<1>4. ASSUME NEW v \in Writer, Alone(v)' PROVE CalmOK(v)'
  <2>1. CASE v = w
    BY <1>1, <2>1
  <2>2. CASE v # w
    <3>1. place'[v] = "idle" /\ place'[w] = "idle"
      BY <1>2, <1>4, <2>2 DEF Alone
    <3>. QED BY <1>1, <3>1 DEF CalmOK, StatusOf
  <2>. QED BY <2>1, <2>2
<1>. QED BY <1>3, <1>4

LEMMA StepKeeps ==
  ASSUME NamespaceInv, NEW w \in Writer, Step(w)
  PROVE  NamespaceInv'
<1>1. \A v \in Writer \ {w} : WriterOK(v)'
  BY OthersPlaced, OthersHold DEF WriterOK, NamespaceInv, Step
<1>2. \A v \in Writer : WriterOK(v)'
  BY <1>1 DEF Step
<1>3. CalmInv'
  BY CalmKept DEF Step
<1>. QED BY <1>2, <1>3 DEF NamespaceInv, Step

LEMMA CalmNow ==
  ASSUME NamespaceInv, calm, NEW w \in Writer,
         place[w] # "idle" \/ \A v \in Writer : Idle(v)
  PROVE  OthersIdle(w) /\ CalmOK(w)
<1>1. Alone(w)
  BY DEF NamespaceInv, CalmInv, Idle, Alone
<1>. QED BY <1>1 DEF NamespaceInv, CalmInv, Alone, OthersIdle

LEMMA Working ==
  ASSUME NamespaceInv, NEW w \in Writer, place[w] # "idle"
  PROVE  /\ job[w] \in Job /\ job[w] # Null
         /\ job[w].name \in Name \cup {Null} /\ job[w].old \in Id \cup {Null}
         /\ job[w].grant \in BOOLEAN \cup {Null}
         /\ job[w].kind \in {"find", "put", "update", "rename", "active", "inactive", "grant",
                             "annotate"}
         /\ job[w].kind # "find" => job[w].id \in Id
         /\ place[w] \notin {"scan", "catalog"} => job[w].id \in Id
         /\ place[w] \in {"index", "heal", "edit", "refresh"} => Subject(w) \in Id
         /\ HoldsOK(w) /\ PlaceOK(w) /\ HeldOK(w)
<1>1. HoldsOK(w) /\ PlaceOK(w) /\ HeldOK(w)
  BY DEF NamespaceInv, WriterOK
<1>2. job[w] \in Job /\ job[w] # Null
  BY <1>1 DEF NamespaceInv, Arrays, HoldsOK
<1>3. /\ job[w].name \in Name \cup {Null} /\ job[w].old \in Id \cup {Null}
      /\ job[w].grant \in BOOLEAN \cup {Null}
      /\ job[w].kind \in {"find", "put", "update", "rename", "active", "inactive", "grant",
                          "annotate"}
      /\ job[w].kind # "find" => job[w].id \in Id
  BY <1>2, CallShape
<1>4. place[w] \notin {"scan", "catalog"} => job[w].kind # "find"
  BY <1>1 DEF PlaceOK, Calls, Place, NamespaceInv, Arrays
<1>5. place[w] \in {"index", "heal", "edit", "refresh"} => Subject(w) \in Id
  BY <1>1, <1>3, <1>4 DEF PlaceOK, Subject
<1>. QED BY <1>1, <1>2, <1>3, <1>4, <1>5

\* A step that leaves the files alone.
LEMMA FilesKept ==
  ASSUME NamespaceInv, UNCHANGED fileVars,
        jobs' \in 0 .. MaxJobs[role], calm' \in BOOLEAN
  PROVE  Files' /\ NothingDangles' /\ Grown
<1>1. /\ role' = role /\ beneath' = beneath /\ blobFiles' = blobFiles /\ partial' = partial
      /\ sidecar' = sidecar /\ catalog' = catalog /\ aliases' = aliases /\ grants' = grants
  BY DEF fileVars, itemVars
<1>2. Files'
  BY <1>1 DEF Files, NamespaceInv
<1>3. NothingDangles'
  BY <1>1 DEF NothingDangles, NamespaceInv, Indexed
<1>4. Grown
  BY <1>1 DEF Grown
<1>. QED BY <1>2, <1>3, <1>4

LEMMA AmendKeeps ==
  ASSUME NamespaceInv, NEW w \in Writer, Amend(w)
  PROVE  Step(w)
<1>1. /\ place[w] = "amend" /\ place' = [place EXCEPT ![w] = "edit"] /\ sidecar[job[w].id] # Torn
      /\ side' = [side EXCEPT ![w] = sidecar[job[w].id]]
      /\ UNCHANGED <<job, jobs, purpose, known, cat, als, grn, calm>> /\ UNCHANGED fileVars
  BY DEF Amend, GoTo
<1>2. Files' /\ NothingDangles' /\ Grown
  BY <1>1, FilesKept DEF NamespaceInv, Files
<1>3. /\ job[w].id \in Id /\ sidecar[job[w].id] \in Descriptor
      /\ role' = role /\ sidecar' = sidecar
  BY <1>1, Working DEF NamespaceInv, Files, HeldOK, Settled, fileVars, itemVars
<1>4. Arrays'
  BY <1>1, <1>3, CallsAlike DEF NamespaceInv, Arrays, Place
<1>5. Others(w)
  BY <1>1 DEF Others, NamespaceInv, Arrays
<1>6. place'[w] = "edit" /\ side'[w] = sidecar[job[w].id]
  BY <1>1 DEF NamespaceInv, Arrays
<1>7. HoldsOK(w)'
  BY <1>1, <1>3, <1>6, Working DEF HoldsOK, LibraryAssumption
<1>8. PlaceOK(w)'
  BY <1>1, <1>6, Working DEF PlaceOK, Calls
<1>9. HeldOK(w)'
  BY <1>1, <1>3, <1>6, <1>8, Working DEF HeldOK, Settled, Subject, PlaceOK, Calls
<1>10. ASSUME calm' PROVE calm /\ OthersIdle(w) /\ CalmOK(w)'
  BY <1>1, <1>3, <1>6, <1>10, CalmNow, Working DEF CalmOK, Subject, PlaceOK, StatusOf, fileVars,
     itemVars
<1>. QED BY <1>2, <1>4, <1>5, <1>7, <1>8, <1>9, <1>10 DEF Step, WriterOK

LEMMA DescribeKeeps ==
  ASSUME NamespaceInv, NEW w \in Writer, Describe(w)
  PROVE  Step(w)
<1>1. /\ place[w] = "describe" /\ place' = [place EXCEPT ![w] = "index"]
      /\ sidecar' = [sidecar EXCEPT ![job[w].id] = Fresh]
      /\ UNCHANGED <<role, beneath, blobFiles, partial, catalog, aliases, grants, job, jobs,
                     purpose, known, side, cat, als, grn, calm>>
  BY DEF Describe, GoTo, bufferVars
<1>2. /\ job[w].id \in Id /\ job[w].id \in blobFiles
      /\ Fresh \in Descriptor /\ Fresh.status = "active"
  BY <1>1, Working DEF HeldOK, Fresh, Descriptor, Status
<1>3. sidecar'[job[w].id] = Fresh /\ \A i \in Id : i # job[w].id => sidecar'[i] = sidecar[i]
  BY <1>1, <1>2 DEF NamespaceInv, Files
<1>4. Fresh # Null /\ Fresh # Torn
  BY <1>2 DEF LibraryAssumption
<1>5. Files'
  BY <1>1, <1>2 DEF NamespaceInv, Files
<1>6. Grown
  BY <1>1, <1>3, <1>4 DEF Grown
<1>7. NothingDangles'
  BY <1>1, <1>2, <1>3, <1>4 DEF NamespaceInv, NothingDangles, Indexed, Files, Aliases
<1>8. Arrays'
  BY <1>1, CallsAlike DEF NamespaceInv, Arrays, Place
<1>9. Others(w)
  BY <1>1 DEF Others, NamespaceInv, Arrays
<1>10. place'[w] = "index"
  BY <1>1 DEF NamespaceInv, Arrays
<1>11. HoldsOK(w)'
  BY <1>1, <1>10, Working DEF HoldsOK
<1>12. PlaceOK(w)'
  BY <1>1, <1>10, Working DEF PlaceOK, Calls
<1>13. HeldOK(w)'
  BY <1>1, <1>3, <1>4, <1>10 DEF HeldOK, Settled
<1>14. ASSUME calm' PROVE calm /\ OthersIdle(w) /\ CalmOK(w)'
  <2>1. calm /\ OthersIdle(w) /\ CalmOK(w)
    BY <1>1, <1>14, CalmNow
  <2>2. Subject(w)' = job[w].id /\ NewStatus(w)' = "active"
    BY <1>1, <1>10, Working DEF Subject, NewStatus, PlaceOK
  <2>3. CalmOK(w)'
    BY <1>1, <1>2, <1>3, <1>4, <1>10, <2>1, <2>2 DEF CalmOK, StatusOf
  <2>. QED BY <2>1, <2>3
<1>. QED BY <1>5, <1>6, <1>7, <1>8, <1>9, <1>11, <1>12, <1>13, <1>14 DEF Step, WriterOK

\* A step that leaves the files alone, from where the catalogue says what the sidecars say.
LEMMA CalmSame ==
  ASSUME NEW w \in Writer, CalmOK(w), UNCHANGED fileVars,
         place[w] \notin {"index", "refresh", "torn", "scan", "catalog"},
         place'[w] \notin {"index", "refresh", "torn", "catalog"},
         place'[w] = "edit" => side'[w] = sidecar[Subject(w)'],
         place'[w] = "name" => als'[w] = aliases,
         place'[w] = "permit" => grn'[w] = grants
  PROVE  CalmOK(w)'
BY DEF CalmOK, StatusOf, fileVars, itemVars

-----------------------------------------------------------------------------
\* The calls begin.
LEMMA Begun ==
  ASSUME NamespaceInv, NEW w \in Writer, NEW j \in Job,
        NEW to \in Place, to # "idle",
        MayCall(w), Begin(w, j, to), UNCHANGED fileVars
  PROVE  /\ place[w] = "idle" /\ purpose[w] = "own" /\ HoldsOK(w)
         /\ place'[w] = to /\ job'[w] = j
         /\ place' \in [Writer -> Place] /\ job' \in [Writer -> Job' \cup {Null}]
         /\ \A v \in Writer \ {w} : place'[v] = place[v] /\ job'[v] = job[v]
         /\ Files' /\ NothingDangles' /\ Grown
         /\ calm' => calm /\ OthersIdle(w) /\ CalmOK(w)
<1>1. /\ place[w] = "idle" /\ place' = [place EXCEPT ![w] = to] /\ job' = [job EXCEPT ![w] = j]
      /\ jobs < MaxJobs[role] /\ jobs' = jobs + 1
      /\ calm' = (calm /\ \A v \in Writer : Idle(v))
  BY DEF Begin, MayCall, GoTo
<1>2. purpose[w] = "own" /\ HoldsOK(w)
  BY <1>1 DEF NamespaceInv, WriterOK, PlaceOK
<1>3. jobs' \in 0 .. MaxJobs[role] /\ calm' \in BOOLEAN
  <2>1. MaxJobs[role] \in Nat /\ jobs \in 0 .. MaxJobs[role]
    BY DEF NamespaceInv, Files, LibraryAssumption
  <2>. QED BY <1>1, <2>1
<1>4. Files' /\ NothingDangles' /\ Grown
  BY <1>3, FilesKept
<1>5. Job' = Job
  BY <1>4, CallsAlike DEF Grown
<1>6. /\ place' \in [Writer -> Place] /\ job' \in [Writer -> Job' \cup {Null}]
      /\ place'[w] = to /\ job'[w] = j
      /\ \A v \in Writer \ {w} : place'[v] = place[v] /\ job'[v] = job[v]
  BY <1>1, <1>5 DEF NamespaceInv, Arrays
<1>7. ASSUME calm' PROVE calm /\ OthersIdle(w) /\ CalmOK(w)
  BY <1>1, <1>7, CalmNow
<1>. QED BY <1>1, <1>2, <1>4, <1>6, <1>7

LEMMA BeginPutKeeps ==
  ASSUME NamespaceInv, NEW w \in Writer, BeginPut(w)
  PROVE  Step(w)
<1>1. PICK j \in Job :
        /\ j.kind = "put" /\ sidecar[j.id] # Torn
        /\ IF role # "owner" /\ catalog = Null
           THEN Begin(w, j, "scan") /\ purpose' = [purpose EXCEPT ![w] = "before"]
                 /\ UNCHANGED known
           ELSE /\ role # "owner" => ~FindRaises
                /\ Begin(w, j, StoreAsset(j)) /\ UNCHANGED purpose
                /\ known' = [known EXCEPT ![w] = role # "owner" /\ j.id \in Listed]
  BY DEF BeginPut
<1>2. MayCall(w) /\ UNCHANGED fileVars /\ UNCHANGED <<side, cat, als, grn>>
  BY DEF BeginPut, bufferVars
<1>3. PICK to \in {"scan", "blob", "heal"} :
        /\ Begin(w, j, to)
        /\ to = "scan" => purpose' = [purpose EXCEPT ![w] = "before"]
        /\ to # "scan" => purpose' = purpose /\ to = StoreAsset(j)
        /\ known' \in [Writer -> BOOLEAN]
  <2>1. CASE role # "owner" /\ catalog = Null
    BY <1>1, <2>1 DEF NamespaceInv, Arrays
  <2>2. CASE ~(role # "owner" /\ catalog = Null)
    <3>1. known' \in [Writer -> BOOLEAN]
      BY <1>1, <2>2 DEF NamespaceInv, Arrays
    <3>. QED BY <1>1, <2>2, <3>1 DEF StoreAsset
  <2>. QED BY <2>1, <2>2
<1>4. to \in Place /\ to # "idle"
  BY DEF Place
<1>5. /\ place[w] = "idle" /\ purpose[w] = "own" /\ HoldsOK(w)
      /\ place'[w] = to /\ job'[w] = j
      /\ place' \in [Writer -> Place] /\ job' \in [Writer -> Job' \cup {Null}]
      /\ \A v \in Writer \ {w} : place'[v] = place[v] /\ job'[v] = job[v]
      /\ Files' /\ NothingDangles' /\ Grown
      /\ calm' => calm /\ OthersIdle(w) /\ CalmOK(w)
  BY <1>2, <1>3, <1>4, Begun
<1>6. purpose'[w] = (IF to = "scan" THEN "before" ELSE "own") /\ j # Null
  BY <1>1, <1>3, <1>5, CallShape DEF NamespaceInv, Arrays
<1>7. Arrays'
  BY <1>2, <1>3, <1>5 DEF NamespaceInv, Arrays
<1>8. Others(w)
  BY <1>2, <1>3, <1>5 DEF Others, NamespaceInv, Arrays
<1>9. HoldsOK(w)'
  BY <1>2, <1>5, <1>6 DEF HoldsOK
<1>10. PlaceOK(w)'
  BY <1>1, <1>5, <1>6 DEF PlaceOK, Calls
<1>11. HeldOK(w)'
  BY <1>2, <1>3, <1>5, <1>6 DEF HeldOK, Settled, StoreAsset, fileVars, itemVars
<1>12. calm' => CalmOK(w)'
  BY <1>2, <1>5, CalmSame
<1>. QED BY <1>5, <1>7, <1>8, <1>9, <1>10, <1>11, <1>12 DEF Step, WriterOK

LEMMA GoOnPutKeeps ==
  ASSUME NamespaceInv, NEW w \in Writer, GoOnPut(w)
  PROVE  Step(w)
<1>. DEFINE to == StoreAsset(job[w])
<1>1. /\ place[w] = "put" /\ place' = [place EXCEPT ![w] = to]
      /\ known' = [known EXCEPT ![w] = job[w].id \in Listed]
      /\ UNCHANGED <<job, jobs, purpose, side, cat, als, grn, calm>> /\ UNCHANGED fileVars
  BY DEF GoOnPut, GoTo, bufferVars
<1>2. to \in {"blob", "heal"} /\ (to = "heal" => sidecar[job[w].id] # Null)
  BY DEF StoreAsset
<1>. HIDE DEF to
<1>3. Files' /\ NothingDangles' /\ Grown
  BY <1>1, FilesKept DEF NamespaceInv, Files
<1>4. Arrays'
  BY <1>1, <1>2, <1>3, CallsAlike DEF NamespaceInv, Arrays, Place, Grown
<1>5. Others(w)
  BY <1>1 DEF Others, NamespaceInv, Arrays
<1>6. place'[w] = to
  BY <1>1 DEF NamespaceInv, Arrays
<1>7. HoldsOK(w)'
  BY <1>1, <1>2, <1>6, Working DEF HoldsOK
<1>8. PlaceOK(w)'
  BY <1>1, <1>2, <1>6, Working DEF PlaceOK, Calls
<1>9. HeldOK(w)'
  BY <1>1, <1>2, <1>6 DEF HeldOK, Settled, fileVars, itemVars
<1>10. ASSUME calm' PROVE calm /\ OthersIdle(w) /\ CalmOK(w)'
  BY <1>1, <1>2, <1>6, <1>10, CalmNow, CalmSame
<1>. QED BY <1>3, <1>4, <1>5, <1>7, <1>8, <1>9, <1>10 DEF Step, WriterOK

LEMMA BeginEditKeeps ==
  ASSUME NamespaceInv, NEW w \in Writer, BeginEdit(w)
  PROVE  Step(w)
<1>1. PICK j \in Job :
        /\ j.kind \in {"annotate", "update", "active", "inactive"}
        /\ sidecar[j.id] \notin {Null, Torn}
        /\ Begin(w, j, "edit")
        /\ side' = [side EXCEPT ![w] = sidecar[j.id]]
  BY DEF BeginEdit
<1>2. MayCall(w) /\ UNCHANGED fileVars /\ UNCHANGED <<purpose, known, cat, als, grn>>
  BY DEF BeginEdit
<1>3. /\ place[w] = "idle" /\ purpose[w] = "own" /\ HoldsOK(w)
      /\ place'[w] = "edit" /\ job'[w] = j
      /\ place' \in [Writer -> Place] /\ job' \in [Writer -> Job' \cup {Null}]
      /\ \A v \in Writer \ {w} : place'[v] = place[v] /\ job'[v] = job[v]
      /\ Files' /\ NothingDangles' /\ Grown
      /\ calm' => calm /\ OthersIdle(w) /\ CalmOK(w)
  BY <1>1, <1>2, Begun DEF Place
<1>4. j.id \in Id /\ j # Null
  BY <1>1, CallShape
<1>5. sidecar[j.id] \in Descriptor
  BY <1>1, <1>4 DEF NamespaceInv, Files
<1>6. side'[w] = sidecar[j.id] /\ purpose'[w] = "own" /\ sidecar' = sidecar
  BY <1>1, <1>2, <1>3 DEF NamespaceInv, Arrays, fileVars, itemVars
<1>7. Subject(w)' = j.id
  BY <1>3, <1>6 DEF Subject
<1>8. Arrays'
  BY <1>1, <1>2, <1>3, <1>5 DEF NamespaceInv, Arrays
<1>9. Others(w)
  BY <1>1, <1>2, <1>3 DEF Others, NamespaceInv, Arrays
<1>10. HoldsOK(w)'
  BY <1>1, <1>2, <1>3, <1>4, <1>6 DEF HoldsOK
<1>11. PlaceOK(w)'
  BY <1>1, <1>3, <1>4, <1>6 DEF PlaceOK, Calls
<1>12. HeldOK(w)'
  BY <1>1, <1>3, <1>6, <1>7 DEF HeldOK, Settled
<1>13. calm' => CalmOK(w)'
  BY <1>2, <1>3, <1>6, <1>7, CalmSame
<1>. QED BY <1>3, <1>8, <1>9, <1>10, <1>11, <1>12, <1>13 DEF Step, WriterOK

\* The calls that read no file yet.
LEMMA BeginOtherKeeps ==
  ASSUME NamespaceInv, NEW w \in Writer,
         BeginRename(w) \/ BeginGrant(w) \/ BeginCopy(w) \/ BeginFind(w)
  PROVE  Step(w)
<1>1. PICK j \in Job, to \in {"alias", "grant", "copy", "scan"} :
        /\ Begin(w, j, to)
        /\ to = "alias" => j.kind \in {"rename", "update"} /\ j.name # Null
                         /\ sidecar[j.id] # Null
        /\ to = "grant" => j.kind = "grant" /\ sidecar[j.id] # Null
        /\ to = "copy" => j.kind = "annotate" /\ role = "overlay" /\ beneath[j.id] # Null
        /\ to = "scan" => j = Find
  BY DEF BeginRename, BeginGrant, BeginCopy, BeginFind, Job, OwnerJob, WorkflowJob
<1>2. MayCall(w) /\ UNCHANGED fileVars /\ UNCHANGED <<purpose, known, side, cat, als, grn>>
  BY DEF BeginRename, BeginGrant, BeginCopy, BeginFind, bufferVars
<1>3. /\ place[w] = "idle" /\ purpose[w] = "own" /\ HoldsOK(w)
      /\ place'[w] = to /\ job'[w] = j
      /\ place' \in [Writer -> Place] /\ job' \in [Writer -> Job' \cup {Null}]
      /\ \A v \in Writer \ {w} : place'[v] = place[v] /\ job'[v] = job[v]
      /\ Files' /\ NothingDangles' /\ Grown
      /\ calm' => calm /\ OthersIdle(w) /\ CalmOK(w)
  BY <1>1, <1>2, Begun DEF Place
<1>4. j # Null /\ (to = "grant" => role = "owner") /\ (j = Find => j.kind = "find")
  BY <1>1, CallShape DEF Find
<1>5. Arrays'
  BY <1>2, <1>3 DEF NamespaceInv, Arrays
<1>6. Others(w)
  BY <1>2, <1>3 DEF Others
<1>7. HoldsOK(w)'
  BY <1>2, <1>3, <1>4 DEF HoldsOK
<1>8. PlaceOK(w)'
  BY <1>1, <1>2, <1>3, <1>4 DEF PlaceOK, Calls, fileVars
<1>9. HeldOK(w)'
  BY <1>1, <1>2, <1>3, <1>4 DEF HeldOK, Settled, Calls, fileVars, itemVars
<1>10. calm' => CalmOK(w)'
  BY <1>2, <1>3, CalmSame
<1>. QED BY <1>3, <1>5, <1>6, <1>7, <1>8, <1>9, <1>10 DEF Step, WriterOK

-----------------------------------------------------------------------------
\* A call that is gone holds nothing; one that raises did so at a copy another video was making.
LEMMA GoneKeeps ==
  ASSUME NamespaceInv, NEW w \in Writer, Raise(w) \/ KillWriter(w)
  PROVE  Step(w)
<1>1. /\ place' = [place EXCEPT ![w] = "idle"] /\ job' = [job EXCEPT ![w] = Null]
      /\ purpose' = [purpose EXCEPT ![w] = "own"] /\ known' = [known EXCEPT ![w] = FALSE]
      /\ side' = [side EXCEPT ![w] = Null] /\ cat' = [cat EXCEPT ![w] = Null]
      /\ als' = [als EXCEPT ![w] = Null] /\ grn' = [grn EXCEPT ![w] = Null]
      /\ UNCHANGED fileVars /\ jobs' = jobs
  BY DEF Raise, KillWriter, Gone
<1>2. calm' = FALSE \/ (calm' = calm /\ Raise(w))
  BY DEF Raise, KillWriter
<1>3. Files' /\ NothingDangles' /\ Grown
  BY <1>1, <1>2, FilesKept DEF NamespaceInv, Files
<1>4. Arrays'
  BY <1>1, <1>3, CallsAlike DEF NamespaceInv, Arrays, Place, Grown
<1>5. Others(w)
  BY <1>1 DEF Others, NamespaceInv, Arrays
<1>6. /\ place'[w] = "idle" /\ job'[w] = Null /\ purpose'[w] = "own" /\ side'[w] = Null
      /\ cat'[w] = Null /\ als'[w] = Null /\ grn'[w] = Null
  BY <1>1 DEF NamespaceInv, Arrays
<1>7. HoldsOK(w)' /\ PlaceOK(w)' /\ HeldOK(w)'
  BY <1>6 DEF HoldsOK, PlaceOK, HeldOK, Settled
<1>8. ASSUME calm' PROVE FALSE
  <2>1. calm /\ Raise(w)
    BY <1>2, <1>8
  <2>2. place[w] \in {"put", "amend", "supersede"}
    BY <2>1 DEF Raise
  <2>3. \A i \in Id : sidecar[i] # Torn
    BY <2>1, <2>2, CalmNow DEF CalmOK
  <2>4. job[w].id \in Id /\ job[w].old \in Id \cup {Null}
    BY <2>2, Working
  <2>. QED BY <2>1, <2>3, <2>4 DEF Raise, FindRaises, Listed
<1>. QED BY <1>3, <1>4, <1>5, <1>7, <1>8 DEF Step, WriterOK

-----------------------------------------------------------------------------
\* items/
LEMMA WriteBlobKeeps ==
  ASSUME NamespaceInv, NEW w \in Writer, WriteBlob(w)
  PROVE  Step(w)
<1>1. /\ place[w] = "blob" /\ place' = [place EXCEPT ![w] = "describe"]
      /\ blobFiles' = blobFiles \cup {job[w].id}
      /\ UNCHANGED <<role, beneath, partial, sidecar, catalog, aliases, grants, job, jobs,
                     purpose, known, side, cat, als, grn, calm>>
  BY DEF WriteBlob, GoTo, bufferVars
<1>2. job[w].id \in Id /\ job[w].id \in blobFiles'
  BY <1>1, Working
<1>3. Files' /\ Grown
  BY <1>1, <1>2 DEF NamespaceInv, Files, Grown
<1>4. NothingDangles'
  BY <1>1 DEF NamespaceInv, NothingDangles, Indexed
<1>5. Arrays'
  BY <1>1, CallsAlike DEF NamespaceInv, Arrays, Place
<1>6. Others(w)
  BY <1>1 DEF Others, NamespaceInv, Arrays
<1>7. place'[w] = "describe"
  BY <1>1 DEF NamespaceInv, Arrays
<1>8. HoldsOK(w)' /\ PlaceOK(w)' /\ HeldOK(w)'
  BY <1>1, <1>2, <1>7, Working DEF HoldsOK, PlaceOK, HeldOK, Settled, Calls
<1>9. ASSUME calm' PROVE calm /\ OthersIdle(w) /\ CalmOK(w)'
  BY <1>1, <1>7, <1>9, CalmNow DEF CalmOK, StatusOf
<1>. QED BY <1>3, <1>4, <1>5, <1>6, <1>8, <1>9 DEF Step, WriterOK

LEMMA CopyBlobKeeps ==
  ASSUME NamespaceInv, NEW w \in Writer, CopyBlob(w)
  PROVE  Step(w)
<1>1. PICK to \in {"copying", "copied"} :
        /\ place[w] \in {"copy", "copying"} /\ place' = [place EXCEPT ![w] = to]
        /\ partial' \subseteq partial \cup {job[w].id}
  BY DEF CopyBlob, GoTo
<1>2. /\ blobFiles' = blobFiles \cup {job[w].id}
      /\ UNCHANGED <<role, beneath, sidecar, catalog, aliases, grants, job, jobs, purpose, known,
                     side, cat, als, grn, calm>>
  BY DEF CopyBlob, bufferVars
<1>3. job[w].id \in Id /\ job[w].id \in blobFiles' /\ role = "overlay"
  BY <1>1, <1>2, Working DEF PlaceOK
<1>4. Files' /\ Grown
  BY <1>1, <1>2, <1>3 DEF NamespaceInv, Files, Grown
<1>5. NothingDangles'
  BY <1>2, <1>3 DEF NamespaceInv, NothingDangles, Indexed
<1>6. Arrays'
  BY <1>1, <1>2, CallsAlike DEF NamespaceInv, Arrays, Place
<1>7. Others(w)
  BY <1>1, <1>2 DEF Others, NamespaceInv, Arrays
<1>8. place'[w] = to
  BY <1>1 DEF NamespaceInv, Arrays
<1>9. HoldsOK(w)' /\ PlaceOK(w)' /\ HeldOK(w)'
  BY <1>1, <1>2, <1>3, <1>8, Working DEF HoldsOK, PlaceOK, HeldOK, Settled, Calls
<1>10. ASSUME calm' PROVE calm /\ OthersIdle(w) /\ CalmOK(w)'
  BY <1>1, <1>2, <1>8, <1>10, CalmNow DEF CalmOK, StatusOf
<1>. QED BY <1>4, <1>5, <1>6, <1>7, <1>9, <1>10 DEF Step, WriterOK

LEMMA CopySidecarKeeps ==
  ASSUME NamespaceInv, NEW w \in Writer, CopySidecar(w)
  PROVE  Step(w)
<1>. DEFINE i == job[w].id
<1>1. \/ /\ place[w] = "copied" /\ place' = [place EXCEPT ![w] = "torn"]
         /\ sidecar' = [sidecar EXCEPT ![i] = Torn]
      \/ /\ place[w] = "torn" /\ place' = [place EXCEPT ![w] = "scan"]
         /\ sidecar' = [sidecar EXCEPT ![i] = beneath[i]]
  BY DEF CopySidecar, GoTo
<1>2. /\ purpose' = [purpose EXCEPT ![w] = "copy"]
      /\ UNCHANGED <<role, beneath, blobFiles, partial, catalog, aliases, grants, job, jobs,
                     known, side, cat, als, grn, calm>>
  BY DEF CopySidecar, bufferVars
<1>3. /\ i \in Id /\ i \in blobFiles /\ role = "overlay" /\ beneath[i] # Null
      /\ Calls(w, {"annotate"}) /\ HoldsOK(w)
  BY <1>1, Working DEF PlaceOK, HeldOK
<1>4. beneath[i] \in Descriptor /\ beneath[i] # Torn
  BY <1>3 DEF NamespaceInv, Files, LibraryAssumption
<1>. HIDE DEF i
<1>5. /\ sidecar'[i] # Null /\ \A k \in Id : k # i => sidecar'[k] = sidecar[k]
      /\ sidecar' \in [Id -> Descriptor \cup {Null, Torn}]
  BY <1>1, <1>3, <1>4 DEF NamespaceInv, Files, LibraryAssumption
<1>6. Files' /\ Grown
  BY <1>2, <1>5 DEF NamespaceInv, Files, Grown
<1>7. NothingDangles'
  BY <1>2, <1>3, <1>5 DEF NamespaceInv, NothingDangles, Indexed, Files, Aliases
<1>8. Arrays'
  BY <1>1, <1>2, CallsAlike DEF NamespaceInv, Arrays, Place
<1>9. Others(w)
  BY <1>1, <1>2 DEF Others, NamespaceInv, Arrays
<1>10. purpose'[w] = "copy" /\ job'[w] = job[w]
  BY <1>2 DEF NamespaceInv, Arrays
<1>11. /\ place'[w] \in {"torn", "scan"} /\ place[w] \in {"copied", "torn"}
       /\ place'[w] = "torn" => place[w] = "copied" /\ sidecar'[i] = Torn
       /\ place'[w] = "scan" => place[w] = "torn" /\ sidecar'[i] # Torn
  BY <1>1, <1>3, <1>4 DEF NamespaceInv, Arrays, Files
<1>12. HoldsOK(w)' /\ PlaceOK(w)' /\ HeldOK(w)'
  BY <1>2, <1>3, <1>5, <1>10, <1>11 DEF HoldsOK, PlaceOK, HeldOK, Calls, i
<1>13. ASSUME calm' PROVE calm /\ OthersIdle(w) /\ CalmOK(w)'
  <2>1. calm /\ OthersIdle(w) /\ CalmOK(w)
    BY <1>2, <1>11, <1>13, CalmNow
  <2>2. CalmOK(w)'
    BY <1>2, <1>3, <1>5, <1>11, <2>1 DEF CalmOK, StatusOf, i
  <2>. QED BY <2>1, <2>2
<1>. QED BY <1>6, <1>7, <1>8, <1>9, <1>12, <1>13 DEF Step, WriterOK

\* What an edit makes of the descriptor it read.
LEMMA EditedIs ==
  ASSUME NamespaceInv, NEW w \in Writer, place[w] = "edit"
  PROVE  /\ side[w] \in Descriptor
         /\ Edited(w) \in Descriptor /\ Edited(w) # Null /\ Edited(w) # Torn
         /\ side[w].caveats => Edited(w).caveats
         /\ Is(w, {"annotate", "update"}) => Edited(w).status = side[w].status
         /\ Is(w, {"active", "inactive"}) => Edited(w).status = job[w].kind
         /\ Is(w, {"put"}) => Edited(w).status = "superseded"
<1>1. side[w] \in Descriptor
  BY Working DEF NamespaceInv, Arrays, HoldsOK
<1>2. CASE Is(w, {"annotate", "update"})
  <2>1. Edited(w) = [side[w] EXCEPT !.caveats = TRUE]
    BY <1>2 DEF Edited, Is
  <2>. QED BY <1>1, <1>2, <2>1 DEF Descriptor, Is, LibraryAssumption
<1>3. CASE Is(w, {"active", "inactive"})
  <2>1. Edited(w) = [side[w] EXCEPT !.status = job[w].kind]
    BY <1>3 DEF Edited, Is
  <2>. QED BY <1>1, <1>3, <2>1 DEF Descriptor, Status, Is, LibraryAssumption
<1>4. CASE ~Is(w, {"annotate", "update"}) /\ ~Is(w, {"active", "inactive"})
  <2>1. Edited(w) = [side[w] EXCEPT !.status = "superseded"]
    BY <1>4 DEF Edited
  <2>. QED BY <1>1, <1>4, <2>1 DEF Descriptor, Status, Is, LibraryAssumption
<1>. QED BY <1>2, <1>3, <1>4

LEMMA EditKeeps ==
  ASSUME NamespaceInv, NEW w \in Writer, Edit(w)
  PROVE  Step(w)
<1>. DEFINE i == Subject(w)
            to == IF Is(w, {"annotate", "update"}) THEN "scan" ELSE "refresh"
<1>1. /\ place[w] = "edit" /\ place' = [place EXCEPT ![w] = to]
      /\ sidecar' = [sidecar EXCEPT ![i] = Edited(w)] /\ side' = [side EXCEPT ![w] = Null]
      /\ UNCHANGED <<role, beneath, blobFiles, partial, catalog, aliases, grants, job, jobs,
                     purpose, known, cat, als, grn, calm>>
  BY DEF Edit, GoTo
<1>2. /\ i \in Id /\ sidecar[i] # Null
      /\ Edited(w) \in Descriptor /\ Edited(w) # Null /\ Edited(w) # Torn
  BY <1>1, Working, EditedIs DEF HeldOK
<1>3. HoldsOK(w) /\ PlaceOK(w) /\ HeldOK(w) /\ job[w] # Null /\ job[w].id \in Id
  BY <1>1, Working
<1>4. i' = i /\ job'[w] = job[w] /\ purpose'[w] = purpose[w]
  BY <1>1 DEF Subject
<1>5. to \in {"scan", "refresh"} /\ (to = "scan" <=> Is(w, {"annotate", "update"}))
  OBVIOUS
<1>. HIDE DEF i, to
<1>6. sidecar'[i] = Edited(w) /\ \A k \in Id : k # i => sidecar'[k] = sidecar[k]
  BY <1>1, <1>2 DEF NamespaceInv, Files
<1>7. Files'
  BY <1>1, <1>2 DEF NamespaceInv, Files
<1>8. Grown
  BY <1>1, <1>2, <1>6 DEF Grown
<1>9. NothingDangles'
  BY <1>1, <1>2, <1>6 DEF NamespaceInv, NothingDangles, Indexed, Files, Aliases
<1>10. Arrays'
  BY <1>1, <1>5, CallsAlike DEF NamespaceInv, Arrays, Place
<1>11. Others(w)
  BY <1>1 DEF Others, NamespaceInv, Arrays
<1>12. place'[w] = to /\ side'[w] = Null
  BY <1>1 DEF NamespaceInv, Arrays
<1>13. HoldsOK(w)'
  BY <1>1, <1>3, <1>5, <1>12 DEF HoldsOK
<1>14. PlaceOK(w)'
  BY <1>1, <1>3, <1>5, <1>12 DEF PlaceOK, Calls, Is
<1>15. HeldOK(w)'
  BY <1>1, <1>2, <1>3, <1>4, <1>5, <1>6, <1>12 DEF HeldOK, Settled, i
<1>16. ASSUME calm' PROVE calm /\ OthersIdle(w) /\ CalmOK(w)'
  <2>1. calm /\ OthersIdle(w) /\ CalmOK(w)
    BY <1>1, <1>16, CalmNow
  <2>2. place'[w] = "refresh" => Edited(w).status = NewStatus(w)'
    BY <1>1, <1>3, <1>5, <1>12, EditedIs DEF PlaceOK, Calls, Is, NewStatus
  <2>3. CalmOK(w)'
    BY <1>1, <1>2, <1>4, <1>5, <1>6, <1>12, <2>1, <2>2 DEF CalmOK, StatusOf, i
  <2>. QED BY <2>1, <2>3
<1>. QED BY <1>7, <1>8, <1>9, <1>10, <1>11, <1>13, <1>14, <1>15, <1>16 DEF Step, WriterOK

LEMMA SupersedeKeeps ==
  ASSUME NamespaceInv, NEW w \in Writer, Supersede(w)
  PROVE  Step(w)
<1>1. /\ place[w] = "supersede"
      /\ place' = [place EXCEPT ![w] = IF Superseded(w) THEN "edit" ELSE "alias"]
      /\ Superseded(w) => sidecar[job[w].old] # Torn
      /\ purpose' = [purpose EXCEPT ![w] = IF Superseded(w) THEN "old" ELSE "own"]
      /\ side' = [side EXCEPT ![w] = IF Superseded(w) THEN sidecar[job[w].old] ELSE Null]
      /\ UNCHANGED <<job, jobs, known, cat, als, grn, calm>> /\ UNCHANGED fileVars
  BY DEF Supersede, GoTo
<1>2. /\ HoldsOK(w) /\ Calls(w, {"put"}) /\ job[w].id \in Id /\ job[w] # Null
      /\ sidecar[job[w].id] # Null /\ job[w].old \in Id \cup {Null}
  BY <1>1, Working DEF PlaceOK, HeldOK, Settled
<1>3. Superseded(w) => job[w].old \in Id /\ sidecar[job[w].old] \in Descriptor
  BY <1>1, <1>2 DEF Superseded, NamespaceInv, Files
<1>4. Files' /\ NothingDangles' /\ Grown
  BY <1>1, FilesKept DEF NamespaceInv, Files
<1>5. Arrays'
  BY <1>1, <1>3, <1>4, CallsAlike DEF NamespaceInv, Arrays, Place, Grown
<1>6. Others(w)
  BY <1>1 DEF Others, NamespaceInv, Arrays
<1>7. /\ place'[w] = (IF Superseded(w) THEN "edit" ELSE "alias")
      /\ purpose'[w] = (IF Superseded(w) THEN "old" ELSE "own")
      /\ side'[w] = (IF Superseded(w) THEN sidecar[job[w].old] ELSE Null)
  BY <1>1 DEF NamespaceInv, Arrays
<1>8. sidecar' = sidecar /\ (Superseded(w) => Subject(w)' = job[w].old)
  BY <1>1, <1>7 DEF Subject, fileVars, itemVars
<1>9. HoldsOK(w)'
  BY <1>1, <1>2, <1>3, <1>7 DEF HoldsOK, LibraryAssumption
<1>10. PlaceOK(w)'
  BY <1>1, <1>2, <1>3, <1>7 DEF PlaceOK, Calls
<1>11. HeldOK(w)'
  BY <1>1, <1>2, <1>3, <1>7, <1>8 DEF HeldOK, Superseded
<1>12. ASSUME calm' PROVE calm /\ OthersIdle(w) /\ CalmOK(w)'
  BY <1>1, <1>7, <1>8, <1>12, CalmNow, CalmSame
<1>. QED BY <1>4, <1>5, <1>6, <1>9, <1>10, <1>11, <1>12 DEF Step, WriterOK

-----------------------------------------------------------------------------
\* catalog.json
LEMMA ReadCatalogKeeps ==
  ASSUME NamespaceInv, NEW w \in Writer, ReadCatalog(w)
  PROVE  Step(w)
<1>. DEFINE i == Subject(w)
            new == NewStatus(w)
<1>1. /\ place[w] \in {"index", "heal", "refresh"}
      /\ place' = [place EXCEPT ![w] =
                  IF catalog = Null \/ (place[w] # "index" /\ ~Indexed(i)) THEN "scan"
                  ELSE IF place[w] = "heal" THEN Onward(w) ELSE "catalog"]
      /\ cat' = [cat EXCEPT ![w] = IF place'[w] # "catalog" THEN Null
                                   ELSE [catalog EXCEPT ![i] = new]]
      /\ UNCHANGED <<job, jobs, purpose, known, side, als, grn, calm>> /\ UNCHANGED fileVars
  BY DEF ReadCatalog
<1>2. HoldsOK(w) /\ PlaceOK(w) /\ HeldOK(w) /\ i \in Id /\ job[w] # Null /\ Settled(w)
  BY <1>1, Working DEF Settled
<1>3. place[w] = "heal" => Onward(w) = "supersede"
  BY <1>2 DEF PlaceOK, Calls, Onward, Is
<1>4. place[w] # "heal" => new \in Status
  BY <1>1, <1>2 DEF PlaceOK, Calls, NewStatus, Is, Status
<1>5. sidecar[i] # Null
  BY <1>1, <1>2 DEF PlaceOK, HeldOK, Subject
<1>. HIDE DEF i, new
<1>6. /\ place'[w] \in {"scan", "supersede", "catalog"}
      /\ place'[w] = "supersede" => place[w] = "heal"
      /\ place'[w] = "catalog" => place[w] # "heal" /\ catalog # Null
  BY <1>1, <1>3 DEF NamespaceInv, Arrays
<1>7. /\ place'[w] # "catalog" => cat'[w] = Null
      /\ place'[w] = "catalog" => /\ cat'[w] \in Catalog /\ cat'[w][i] = new
                               /\ \A k \in Id \ {i} : cat'[w][k] = catalog[k]
  <2>1. catalog # Null => catalog \in [Id -> Status \cup {Null}]
    BY DEF NamespaceInv, Files, Catalog
  <2>2. cat'[w] = IF place'[w] # "catalog" THEN Null ELSE [catalog EXCEPT ![i] = new]
    BY <1>1 DEF NamespaceInv, Arrays
  <2>. QED BY <1>2, <1>4, <1>6, <2>1, <2>2 DEF Catalog
<1>8. Files' /\ NothingDangles' /\ Grown
  BY <1>1, FilesKept DEF NamespaceInv, Files
<1>9. Arrays'
  <2>1. place' \in [Writer -> Place] /\ cat' \in [Writer -> Catalog \cup {Null}]
    BY <1>1, <1>6, <1>7 DEF NamespaceInv, Arrays, Place
  <2>. QED BY <1>1, <1>8, <2>1, CallsAlike DEF NamespaceInv, Arrays, Grown
<1>10. Others(w)
  BY <1>1 DEF Others, NamespaceInv, Arrays
<1>11. HoldsOK(w)'
  BY <1>1, <1>2, <1>6, <1>7 DEF HoldsOK, LibraryAssumption
<1>12. PlaceOK(w)'
  BY <1>1, <1>2, <1>6 DEF PlaceOK, Calls
<1>13. sidecar' = sidecar /\ catalog' = catalog
  BY <1>1 DEF fileVars, itemVars
<1>14. HeldOK(w)'
  <2>1. place'[w] = "catalog" => \A k \in Id : cat'[w][k] # Null => sidecar[k] # Null
    BY <1>5, <1>6, <1>7 DEF NamespaceInv, NothingDangles, Indexed
  <2>. QED BY <1>1, <1>2, <1>6, <1>13, <2>1 DEF HeldOK
<1>15. ASSUME calm' PROVE calm /\ OthersIdle(w) /\ CalmOK(w)'
  <2>1. calm /\ OthersIdle(w) /\ CalmOK(w)
    BY <1>1, <1>15, CalmNow
  <2>2. place'[w] = "catalog" => \A k \in Id : cat'[w][k] = StatusOf(k)
    BY <1>1, <1>5, <1>6, <1>7, <2>1 DEF CalmOK, StatusOf, i, new
  <2>3. CalmOK(w)'
    BY <1>1, <1>6, <1>13, <2>1, <2>2 DEF CalmOK, StatusOf
  <2>. QED BY <2>1, <2>3
<1>. QED BY <1>8, <1>9, <1>10, <1>11, <1>12, <1>14, <1>15 DEF Step, WriterOK

LEMMA ScannedIs ==
  ASSUME NamespaceInv
  PROVE  /\ Scanned \in Catalog
         /\ \A i \in Id : Scanned[i] # Null => sidecar[i] # Null
         /\ (\A i \in Id : sidecar[i] # Torn) => \A i \in Id : Scanned[i] = StatusOf(i)
<1>1. \A i \in Id : /\ sidecar[i] \notin {Null, Torn} => sidecar[i].status \in Status
                    /\ sidecar[i] # Null => i \in blobFiles
  BY DEF NamespaceInv, Files, NothingDangles, Descriptor
<1>. QED BY <1>1 DEF Scanned, Catalog, StatusOf

LEMMA ScanKeeps ==
  ASSUME NamespaceInv, NEW w \in Writer, Scan(w)
  PROVE  Step(w)
<1>1. /\ place[w] = "scan" /\ place' = [place EXCEPT ![w] = "catalog"]
      /\ cat' = [cat EXCEPT ![w] = Scanned]
      /\ UNCHANGED <<job, jobs, purpose, known, side, als, grn, calm>> /\ UNCHANGED fileVars
  BY DEF Scan, GoTo
<1>2. HoldsOK(w) /\ PlaceOK(w) /\ HeldOK(w) /\ job[w] # Null
  BY <1>1, Working
<1>3. place'[w] = "catalog" /\ cat'[w] = Scanned /\ sidecar' = sidecar
  BY <1>1 DEF NamespaceInv, Arrays, fileVars, itemVars
<1>4. Files' /\ NothingDangles' /\ Grown
  BY <1>1, FilesKept DEF NamespaceInv, Files
<1>5. Arrays'
  BY <1>1, <1>4, CallsAlike, ScannedIs DEF NamespaceInv, Arrays, Place, Grown
<1>6. Others(w)
  BY <1>1 DEF Others, NamespaceInv, Arrays
<1>7. HoldsOK(w)'
  BY <1>1, <1>2, <1>3, ScannedIs DEF HoldsOK, LibraryAssumption
<1>8. PlaceOK(w)'
  BY <1>1, <1>2, <1>3 DEF PlaceOK, Calls
<1>9. HeldOK(w)'
  BY <1>1, <1>2, <1>3, ScannedIs DEF HeldOK, Settled, Calls
<1>10. ASSUME calm' PROVE calm /\ OthersIdle(w) /\ CalmOK(w)'
  <2>1. calm /\ OthersIdle(w) /\ CalmOK(w)
    BY <1>1, <1>10, CalmNow
  <2>2. \A i \in Id : sidecar[i] # Torn /\ Scanned[i] = StatusOf(i)
    BY <1>1, <2>1, ScannedIs DEF CalmOK
  <2>3. CalmOK(w)'
    BY <1>3, <2>2 DEF CalmOK, StatusOf
  <2>. QED BY <2>1, <2>3
<1>. QED BY <1>4, <1>5, <1>6, <1>7, <1>8, <1>9, <1>10 DEF Step, WriterOK

\* The position of a writer is as it was.
Passed(v) == place'[v] = place[v] /\ job'[v] = job[v] /\ purpose'[v] = purpose[v]

\* A call goes on, or returns.
LEMMA Advanced ==
  ASSUME NamespaceInv, NEW w \in Writer, NEW from,
        NEW to \in Place \cup {"end"}, to # "idle",
         NEW next \in {"before", "own", "copy", "old", "after"}, from # "idle",
         Advance(w, from, to, next), role' = role
  PROVE  /\ place[w] = from
         /\ place' \in [Writer -> Place] /\ job' \in [Writer -> Job' \cup {Null}]
         /\ purpose' \in [Writer -> {"before", "own", "copy", "old", "after"}]
         /\ known' \in [Writer -> BOOLEAN]
         /\ place'[w] = (IF to = "end" THEN "idle" ELSE to)
         /\ job'[w] = (IF to = "end" THEN Null ELSE job[w])
         /\ purpose'[w] = (IF to = "end" THEN "own" ELSE next)
         /\ \A v \in Writer \ {w} : Passed(v)
<1>1. /\ place[w] = from /\ place' = [place EXCEPT ![w] = IF to = "end" THEN "idle" ELSE to]
      /\ job' = [job EXCEPT ![w] = IF to = "end" THEN Null ELSE job[w]]
      /\ known' = [known EXCEPT ![w] = to # "end" /\ known[w]]
      /\ purpose' = [purpose EXCEPT ![w] = IF to = "end" THEN "own" ELSE next]
  BY DEF Advance
<1>2. Job' = Job
  BY CallsAlike
<1>3. known' \in [Writer -> BOOLEAN]
  BY <1>1 DEF NamespaceInv, Arrays
<1>4. place' \in [Writer -> Place] /\ job' \in [Writer -> Job' \cup {Null}]
  BY <1>1, <1>2 DEF NamespaceInv, Arrays, Place
<1>. QED BY <1>1, <1>3, <1>4 DEF NamespaceInv, Arrays, Passed

LEMMA WriteCatalogKeeps ==
  ASSUME NamespaceInv, NEW w \in Writer, WriteCatalog(w)
  PROVE  Step(w)
<1>. DEFINE to == Onward(w)
            next == IF purpose[w] \in {"before", "copy"} THEN "own" ELSE purpose[w]
<1>1. /\ Advance(w, "catalog", to, next)
      /\ catalog' = cat[w] /\ cat' = [cat EXCEPT ![w] = Null]
      /\ UNCHANGED <<role, beneath, blobFiles, partial, sidecar, aliases, grants, jobs, side,
                     als, grn, calm>>
  BY DEF WriteCatalog, itemVars
<1>2. place[w] = "catalog"
  BY <1>1 DEF Advance
<1>3. HoldsOK(w) /\ PlaceOK(w) /\ HeldOK(w) /\ job[w] # Null
  BY <1>2, Working
<1>4. /\ purpose[w] = "before" => to = "put" /\ next = "own" /\ Calls(w, {"put"})
      /\ purpose[w] = "copy" => to = "amend" /\ next = "own" /\ Calls(w, {"annotate"})
      /\ purpose[w] = "old" => to = "alias" /\ next = "old" /\ Calls(w, {"put"})
      /\ purpose[w] = "own" /\ Is(w, {"put"})
           => to = "supersede" /\ next = "own" /\ Calls(w, {"put"})
      /\ purpose[w] = "own" /\ ~Is(w, {"put"}) => to = "end"
      /\ purpose[w] = "after" => to = "end"
  BY <1>2, <1>3 DEF Onward, PlaceOK, Is, Calls
<1>5. purpose[w] \in {"before", "own", "copy", "old", "after"}
  BY DEF NamespaceInv, Arrays
<1>6. to \in Place \cup {"end"} /\ to # "idle"
      /\ next \in {"before", "own", "copy", "old", "after"}
  BY <1>4, <1>5 DEF Place
<1>. HIDE DEF to, next
<1>7. /\ place' \in [Writer -> Place] /\ job' \in [Writer -> Job' \cup {Null}]
      /\ purpose' \in [Writer -> {"before", "own", "copy", "old", "after"}]
      /\ known' \in [Writer -> BOOLEAN]
      /\ place'[w] = (IF to = "end" THEN "idle" ELSE to)
      /\ job'[w] = (IF to = "end" THEN Null ELSE job[w])
      /\ purpose'[w] = (IF to = "end" THEN "own" ELSE next)
      /\ \A v \in Writer \ {w} : Passed(v)
  BY <1>1, <1>6, Advanced
<1>8. cat[w] \in Catalog /\ \A i \in Id : cat[w][i] # Null => sidecar[i] # Null
  BY <1>2, <1>3 DEF HoldsOK, HeldOK, NamespaceInv, Arrays
<1>9. cat'[w] = Null
  BY <1>1 DEF NamespaceInv, Arrays
<1>10. Files' /\ Grown
  BY <1>1, <1>8 DEF NamespaceInv, Files, Grown
<1>11. NothingDangles'
  BY <1>1, <1>8 DEF NamespaceInv, NothingDangles, Indexed
<1>12. Arrays'
  BY <1>1, <1>7 DEF NamespaceInv, Arrays
<1>13. Others(w)
  BY <1>1, <1>7 DEF Others, NamespaceInv, Arrays, Passed
<1>14. HoldsOK(w)'
  BY <1>1, <1>2, <1>3, <1>4, <1>5, <1>7, <1>9 DEF HoldsOK
<1>15. PlaceOK(w)'
  BY <1>1, <1>3, <1>4, <1>5, <1>7 DEF PlaceOK, Calls
<1>16. HeldOK(w)'
  BY <1>1, <1>2, <1>3, <1>4, <1>5, <1>7 DEF HeldOK, Settled, Calls
<1>17. ASSUME calm' PROVE calm /\ OthersIdle(w) /\ CalmOK(w)'
  <2>1. calm /\ OthersIdle(w) /\ CalmOK(w)
    BY <1>1, <1>2, <1>17, CalmNow
  <2>2. /\ \A i \in Id : sidecar'[i] # Torn /\ catalog'[i] = StatusOf(i)'
        /\ place'[w] \in {"put", "amend", "alias", "supersede", "idle"}
    BY <1>1, <1>2, <1>4, <1>5, <1>7, <2>1 DEF CalmOK, StatusOf
  <2>. QED BY <2>1, <2>2 DEF CalmOK
<1>. QED BY <1>10, <1>11, <1>12, <1>13, <1>14, <1>15, <1>16, <1>17 DEF Step, WriterOK

LEMMA LoseCatalogKeeps ==
  ASSUME NamespaceInv, LoseCatalog
  PROVE  NamespaceInv'
<1>1. /\ catalog' = Null
      /\ UNCHANGED <<role, beneath, blobFiles, partial, sidecar, aliases, grants, place, job,
                     jobs, purpose, known, side, cat, als, grn, calm>>
  BY DEF LoseCatalog, itemVars, bufferVars
<1>2. Files' /\ NothingDangles'
  BY <1>1 DEF NamespaceInv, Files, NothingDangles, Indexed
<1>3. Arrays'
  BY <1>1, CallsAlike DEF NamespaceInv, Arrays
<1>4. ASSUME NEW w \in Writer PROVE WriterOK(w)'
  <2>1. HoldsOK(w)' /\ PlaceOK(w)'
    BY <1>1 DEF NamespaceInv, WriterOK, HoldsOK, PlaceOK, Calls
  <2>2. HeldOK(w)'
    BY <1>1 DEF NamespaceInv, WriterOK, HeldOK, Settled, Calls, Subject
  <2>. QED BY <2>1, <2>2 DEF WriterOK
<1>5. ASSUME calm' PROVE CalmInv'
  <2>1. /\ \A w \in Writer : place[w] # "idle" => Alone(w)
        /\ \A w \in Writer : Alone(w) => CalmOK(w)
    BY <1>1, <1>5 DEF NamespaceInv, CalmInv
  <2>2. \A w \in Writer : Alone(w)' <=> Alone(w)
    BY <1>1 DEF Alone
  <2>3. ASSUME NEW w \in Writer, CalmOK(w) PROVE CalmOK(w)'
    BY <1>1, <2>3 DEF CalmOK, StatusOf, Subject, NewStatus, Is
  <2>. QED BY <1>1, <2>1, <2>2, <2>3 DEF CalmInv
<1>. QED BY <1>2, <1>3, <1>4, <1>5 DEF NamespaceInv, CalmInv

-----------------------------------------------------------------------------
\* aliases.json and grants.json
LEMMA NamedIs ==
  ASSUME NamespaceInv, NEW w \in Writer, place[w] \in {"alias", "name"}
  PROVE  /\ Named(w) \in {"amend", "end", "grant", "scan"}
         /\ Named(w) = "amend" => Calls(w, {"update"})
         /\ Named(w) = "grant" => role = "owner" /\ Calls(w, {"put"})
         /\ Named(w) = "scan" => Calls(w, {"put"})
<1>1. PlaceOK(w) /\ job[w] # Null
  BY Working
<1>. QED BY <1>1 DEF PlaceOK, Named, Calls, Is

LEMMA ReadAliasesKeeps ==
  ASSUME NamespaceInv, NEW w \in Writer, ReadAliases(w)
  PROVE  Step(w)
<1>. DEFINE to == Named(w)
<1>1. /\ place[w] = "alias"
      /\ als' = [als EXCEPT ![w] = IF job[w].name = Null THEN Null ELSE aliases]
      /\ UNCHANGED <<jobs, side, cat, grn, calm>> /\ UNCHANGED fileVars
      /\ job[w].name = Null => Advance(w, "alias", to, "after")
      /\ job[w].name # Null => /\ place' = [place EXCEPT ![w] = "name"]
                               /\ UNCHANGED <<job, known, purpose>>
  BY DEF ReadAliases, GoTo
<1>2. HoldsOK(w) /\ PlaceOK(w) /\ HeldOK(w) /\ job[w] # Null /\ sidecar[job[w].id] # Null
  BY <1>1, Working DEF HeldOK, Settled
<1>3. Files' /\ NothingDangles' /\ Grown
  BY <1>1, FilesKept DEF NamespaceInv, Files
<1>4. sidecar' = sidecar /\ aliases' = aliases /\ role' = role
  BY <1>1 DEF fileVars, itemVars
<1>5. /\ als' \in [Writer -> Aliases \cup {Null}] /\ aliases \in Aliases /\ aliases # Null
      /\ als'[w] = (IF job[w].name = Null THEN Null ELSE aliases)
      /\ \A v \in Writer \ {w} : als'[v] = als[v]
  BY <1>1 DEF NamespaceInv, Files, Arrays, LibraryAssumption
<1>6. CASE job[w].name = Null
  <2>1. to \in {"end", "grant", "scan"} /\ (to # "end" => Calls(w, {"put"}))
        /\ (to = "grant" => role = "owner")
    BY <1>1, <1>2, <1>6, NamedIs DEF PlaceOK, Calls
  <2>. HIDE DEF to
  <2>2. to \in Place \cup {"end"} /\ to # "idle"
    BY <2>1 DEF Place
  <2>3. /\ place' \in [Writer -> Place] /\ job' \in [Writer -> Job' \cup {Null}]
        /\ purpose' \in [Writer -> {"before", "own", "copy", "old", "after"}]
        /\ known' \in [Writer -> BOOLEAN]
        /\ place'[w] = (IF to = "end" THEN "idle" ELSE to)
        /\ job'[w] = (IF to = "end" THEN Null ELSE job[w])
        /\ purpose'[w] = (IF to = "end" THEN "own" ELSE "after")
        /\ \A v \in Writer \ {w} : Passed(v)
    BY <1>1, <1>4, <1>6, <2>2, Advanced
  <2>4. Arrays'
    BY <1>1, <1>5, <2>3 DEF NamespaceInv, Arrays
  <2>5. Others(w)
    BY <1>1, <1>5, <2>3 DEF Others, Passed
  <2>6. HoldsOK(w)'
    BY <1>1, <1>2, <1>5, <1>6, <2>1, <2>3 DEF HoldsOK
  <2>7. PlaceOK(w)'
    BY <1>4, <2>1, <2>3 DEF PlaceOK, Calls
  <2>8. HeldOK(w)'
    BY <1>2, <1>4, <2>1, <2>3 DEF HeldOK, Settled
  <2>9. ASSUME calm' PROVE calm /\ OthersIdle(w) /\ CalmOK(w)'
    BY <1>1, <2>1, <2>3, <2>9, CalmNow, CalmSame
  <2>. QED BY <1>3, <2>4, <2>5, <2>6, <2>7, <2>8, <2>9 DEF Step, WriterOK
<1>7. CASE job[w].name # Null
  <2>1. /\ place' \in [Writer -> Place] /\ place'[w] = "name" /\ UNCHANGED <<job, known, purpose>>
        /\ \A v \in Writer \ {w} : place'[v] = place[v]
    BY <1>1, <1>7 DEF NamespaceInv, Arrays, Place
  <2>2. Arrays'
    BY <1>1, <1>4, <1>5, <2>1, CallsAlike DEF NamespaceInv, Arrays
  <2>3. Others(w)
    BY <1>1, <1>5, <2>1 DEF Others
  <2>4. HoldsOK(w)'
    BY <1>1, <1>2, <1>5, <1>7, <2>1 DEF HoldsOK
  <2>5. PlaceOK(w)'
    BY <1>1, <1>2, <1>4, <1>7, <2>1 DEF PlaceOK, Calls
  <2>6. HeldOK(w)'
    BY <1>2, <1>4, <1>5, <1>7, <2>1 DEF HeldOK, NamespaceInv, NothingDangles
  <2>7. ASSUME calm' PROVE calm /\ OthersIdle(w) /\ CalmOK(w)'
    BY <1>1, <1>5, <1>7, <2>1, <2>7, CalmNow, CalmSame
  <2>. QED BY <1>3, <2>2, <2>3, <2>4, <2>5, <2>6, <2>7 DEF Step, WriterOK
<1>. QED BY <1>6, <1>7

\* What a write of the names leaves.
LEMMA NamesWritten ==
  ASSUME NamespaceInv, NEW w \in Writer, WriteAliases(w)
  PROVE  /\ place[w] = "name" /\ job[w].name \in Name
         /\ als[w] \in Aliases /\ aliases' \in Aliases
         /\ aliases'[job[w].name] = job[w].id
         /\ \A n \in Name \ {job[w].name} :
              \/ aliases'[n] = als[w][n]
              \/ aliases'[n] = Null /\ Is(w, {"rename", "update"}) /\ als[w][n] = job[w].id
<1>1. /\ place[w] = "name"
      /\ aliases' = [n \in Name |-> IF n = job[w].name THEN job[w].id
                                    ELSE IF Is(w, {"rename", "update"})
                                         /\ als[w][n] = job[w].id THEN Null
                                    ELSE als[w][n]]
  BY DEF WriteAliases, Advance
<1>2. job[w].id \in Id /\ job[w].name \in Name
  BY <1>1, Working DEF PlaceOK
<1>3. als[w] \in Aliases
  BY <1>1, Working DEF NamespaceInv, Arrays, HoldsOK
<1>4. aliases' \in Aliases
  BY <1>1, <1>2, <1>3 DEF Aliases
<1>. QED BY <1>1, <1>2, <1>3, <1>4

LEMMA WriteAliasesKeeps ==
  ASSUME NamespaceInv, NEW w \in Writer, WriteAliases(w)
  PROVE  Step(w)
<1>. DEFINE to == Named(w)
            next == IF Is(w, {"put"}) THEN "after" ELSE "own"
<1>1. /\ Advance(w, "name", to, next) /\ als' = [als EXCEPT ![w] = Null]
      /\ UNCHANGED <<role, beneath, blobFiles, partial, sidecar, catalog, grants, jobs, side,
                     cat, grn, calm>>
  BY DEF WriteAliases, itemVars
<1>2. /\ place[w] = "name" /\ job[w].name \in Name
      /\ als[w] \in Aliases /\ aliases' \in Aliases
      /\ aliases'[job[w].name] = job[w].id
      /\ \A n \in Name \ {job[w].name} : aliases'[n] = als[w][n] \/ aliases'[n] = Null
  BY NamesWritten
<1>3. HoldsOK(w) /\ PlaceOK(w) /\ HeldOK(w) /\ job[w] # Null /\ sidecar[job[w].id] # Null
  BY <1>2, Working DEF HeldOK, Settled
<1>4. /\ to \in {"amend", "end", "grant", "scan"}
      /\ to = "amend" => Calls(w, {"update"}) /\ next = "own"
      /\ to = "grant" => role = "owner" /\ Calls(w, {"put"})
      /\ to = "scan" => Calls(w, {"put"}) /\ next = "after"
      /\ next \in {"before", "own", "copy", "old", "after"}
  BY <1>2, NamedIs DEF Calls, Is
<1>. HIDE DEF to, next
<1>5. to \in Place \cup {"end"} /\ to # "idle"
  BY <1>4 DEF Place
<1>6. /\ place' \in [Writer -> Place] /\ job' \in [Writer -> Job' \cup {Null}]
      /\ purpose' \in [Writer -> {"before", "own", "copy", "old", "after"}]
      /\ known' \in [Writer -> BOOLEAN]
      /\ place'[w] = (IF to = "end" THEN "idle" ELSE to)
      /\ job'[w] = (IF to = "end" THEN Null ELSE job[w])
      /\ purpose'[w] = (IF to = "end" THEN "own" ELSE next)
      /\ \A v \in Writer \ {w} : Passed(v)
  BY <1>1, <1>4, <1>5, Advanced
<1>7. Files' /\ Grown
  BY <1>1, <1>2 DEF NamespaceInv, Files, Grown
<1>8. NothingDangles'
  <2>1. \A n \in Name : aliases'[n] # Null => sidecar[aliases'[n]] # Null
    BY <1>2, <1>3 DEF HeldOK
  <2>. QED BY <1>1, <2>1 DEF NamespaceInv, NothingDangles, Indexed
<1>9. /\ als' \in [Writer -> Aliases \cup {Null}] /\ als'[w] = Null
      /\ \A v \in Writer \ {w} : als'[v] = als[v]
  BY <1>1 DEF NamespaceInv, Arrays
<1>10. Arrays'
  BY <1>1, <1>6, <1>9 DEF NamespaceInv, Arrays
<1>11. Others(w)
  BY <1>1, <1>6, <1>9 DEF Others, Passed
<1>12. HoldsOK(w)'
  BY <1>1, <1>2, <1>3, <1>4, <1>6, <1>9 DEF HoldsOK
<1>13. PlaceOK(w)'
  BY <1>1, <1>4, <1>6 DEF PlaceOK, Calls
<1>14. HeldOK(w)'
  BY <1>1, <1>3, <1>4, <1>6 DEF HeldOK, Settled
<1>15. ASSUME calm' PROVE calm /\ OthersIdle(w) /\ CalmOK(w)'
  <2>1. calm /\ OthersIdle(w) /\ CalmOK(w)
    BY <1>1, <1>2, <1>15, CalmNow
  <2>. QED BY <1>1, <1>2, <1>4, <1>6, <2>1 DEF CalmOK, StatusOf
<1>. QED BY <1>7, <1>8, <1>10, <1>11, <1>12, <1>13, <1>14, <1>15 DEF Step, WriterOK

LEMMA ReadGrantsKeeps ==
  ASSUME NamespaceInv, NEW w \in Writer, ReadGrants(w)
  PROVE  Step(w)
<1>1. /\ place[w] = "grant" /\ place' = [place EXCEPT ![w] = "permit"]
      /\ grn' = [grn EXCEPT ![w] = grants]
      /\ UNCHANGED <<job, jobs, purpose, known, side, cat, als, calm>> /\ UNCHANGED fileVars
  BY DEF ReadGrants, GoTo
<1>2. /\ HoldsOK(w) /\ PlaceOK(w) /\ HeldOK(w) /\ job[w] # Null
      /\ grants \in Grants /\ grants # Null
  BY <1>1, Working DEF NamespaceInv, Files, LibraryAssumption
<1>3. Files' /\ NothingDangles' /\ Grown
  BY <1>1, FilesKept DEF NamespaceInv, Files
<1>4. Arrays'
  BY <1>1, <1>2, <1>3, CallsAlike DEF NamespaceInv, Arrays, Place, Grown
<1>5. Others(w)
  BY <1>1 DEF Others, NamespaceInv, Arrays
<1>6. /\ place'[w] = "permit" /\ grn'[w] = grants
      /\ sidecar' = sidecar /\ grants' = grants /\ role' = role
  BY <1>1 DEF NamespaceInv, Arrays, fileVars, itemVars
<1>7. HoldsOK(w)'
  BY <1>1, <1>2, <1>6 DEF HoldsOK
<1>8. PlaceOK(w)'
  BY <1>1, <1>2, <1>6 DEF PlaceOK, Calls
<1>9. HeldOK(w)'
  BY <1>1, <1>2, <1>6 DEF HeldOK, Settled, NamespaceInv, NothingDangles
<1>10. ASSUME calm' PROVE calm /\ OthersIdle(w) /\ CalmOK(w)'
  BY <1>1, <1>6, <1>10, CalmNow, CalmSame
<1>. QED BY <1>3, <1>4, <1>5, <1>7, <1>8, <1>9, <1>10 DEF Step, WriterOK

LEMMA GrantsWritten ==
  ASSUME NamespaceInv, NEW w \in Writer, WriteGrants(w)
  PROVE  /\ place[w] = "permit" /\ Calls(w, {"put", "grant"}) /\ grn[w] \in Grants
         /\ grants' \in Grants
         /\ job[w].id \in Id /\ grants'[job[w].id] = job[w].grant
         /\ \A i \in Id \ {job[w].id} : grants'[i] = grn[w][i]
<1>1. place[w] = "permit" /\ grants' = [grn[w] EXCEPT ![job[w].id] = job[w].grant]
  BY DEF WriteGrants, Advance
<1>2. Calls(w, {"put", "grant"}) /\ job[w].id \in Id /\ job[w].grant \in BOOLEAN \cup {Null}
  BY <1>1, Working DEF PlaceOK
<1>3. grn[w] \in Grants
  BY <1>1, Working DEF NamespaceInv, Arrays, HoldsOK
<1>. QED BY <1>1, <1>2, <1>3 DEF Grants

LEMMA WriteGrantsKeeps ==
  ASSUME NamespaceInv, NEW w \in Writer, WriteGrants(w)
  PROVE  Step(w)
<1>1. /\ Advance(w, "permit", "end", "own") /\ grn' = [grn EXCEPT ![w] = Null]
      /\ UNCHANGED <<role, beneath, blobFiles, partial, sidecar, catalog, aliases, jobs, side,
                     cat, als, calm>>
  BY DEF WriteGrants, itemVars
<1>2. /\ place[w] = "permit" /\ grants' \in Grants
      /\ \A i \in Id \ {job[w].id} : grants'[i] = grn[w][i]
  BY GrantsWritten
<1>3. HoldsOK(w) /\ HeldOK(w) /\ job[w] # Null /\ sidecar[job[w].id] # Null
  BY <1>2, Working DEF HeldOK, Settled
<1>4. /\ place' \in [Writer -> Place] /\ job' \in [Writer -> Job' \cup {Null}]
      /\ purpose' \in [Writer -> {"before", "own", "copy", "old", "after"}]
      /\ known' \in [Writer -> BOOLEAN]
      /\ place'[w] = "idle" /\ job'[w] = Null /\ purpose'[w] = "own"
      /\ \A v \in Writer \ {w} : Passed(v)
  <2>1. "end" \in Place \cup {"end"} /\ "own" \in {"before", "own", "copy", "old", "after"}
    OBVIOUS
  <2>. QED BY <1>1, <2>1, Advanced
<1>5. Files' /\ Grown
  BY <1>1, <1>2 DEF NamespaceInv, Files, Grown
<1>6. NothingDangles'
  <2>1. \A i \in Id : grants'[i] # Null => sidecar[i] # Null
    BY <1>2, <1>3 DEF HeldOK
  <2>. QED BY <1>1, <2>1 DEF NamespaceInv, NothingDangles, Indexed
<1>7. /\ grn' \in [Writer -> Grants \cup {Null}] /\ grn'[w] = Null
      /\ \A v \in Writer \ {w} : grn'[v] = grn[v]
  BY <1>1 DEF NamespaceInv, Arrays
<1>8. Arrays'
  BY <1>1, <1>4, <1>7 DEF NamespaceInv, Arrays
<1>9. Others(w)
  BY <1>1, <1>4, <1>7 DEF Others, Passed
<1>10. HoldsOK(w)' /\ PlaceOK(w)' /\ HeldOK(w)'
  BY <1>1, <1>2, <1>3, <1>4, <1>7 DEF HoldsOK, PlaceOK, HeldOK, Settled
<1>11. ASSUME calm' PROVE calm /\ OthersIdle(w) /\ CalmOK(w)'
  <2>1. calm /\ OthersIdle(w) /\ CalmOK(w)
    BY <1>1, <1>2, <1>11, CalmNow
  <2>. QED BY <1>1, <1>2, <1>4, <2>1 DEF CalmOK, StatusOf
<1>. QED BY <1>5, <1>6, <1>8, <1>9, <1>10, <1>11 DEF Step, WriterOK

-----------------------------------------------------------------------------
\* The invariant of the files and their writers holds to begin with, and every step keeps it.
LEMMA StoreBegins ==
  ASSUME LibraryInit
  PROVE  NamespaceInv
<1>1. /\ role \in Roles /\ beneath \in [Id -> Descriptor \cup {Null}]
      /\ role # "overlay" => \A i \in Id : beneath[i] = Null
  <2>1. /\ role \in Roles
        /\ beneath \in (IF role = "overlay" THEN [Id -> Reals \cup {Null}] ELSE [Id -> {Null}])
    BY DEF LibraryInit, Layers
  <2>2. CASE role = "overlay"
    <3>1. beneath \in [Id -> Reals \cup {Null}] /\ Reals \subseteq Descriptor
      BY <2>1, <2>2 DEF LibraryAssumption
    <3>. QED BY <2>1, <2>2, <3>1
  <2>3. CASE role # "overlay"
    BY <2>1, <2>3
  <2>. QED BY <2>2, <2>3
<1>2. /\ MaxJobs[role] \in Nat /\ catalog \in Catalog \cup {Null}
      /\ aliases \in Aliases /\ grants \in Grants
  BY <1>1 DEF LibraryInit, LibraryAssumption, Aliases, Grants
<1>3. Files
  BY <1>1, <1>2 DEF LibraryInit, Files
<1>4. Arrays
  BY DEF LibraryInit, Arrays, Place
<1>5. NothingDangles
  BY DEF LibraryInit, NothingDangles, Indexed, LibraryAssumption
<1>6. ASSUME NEW w \in Writer PROVE WriterOK(w)
  BY DEF LibraryInit, WriterOK, HoldsOK, PlaceOK, HeldOK, Settled
<1>7. CalmInv
  BY DEF LibraryInit, CalmInv, CalmOK, LibraryAssumption
<1>. QED BY <1>3, <1>4, <1>5, <1>6, <1>7 DEF NamespaceInv

LEMMA StoreKept ==
  ASSUME NamespaceInv, [LibraryNext]_libraryVars
  PROVE  NamespaceInv'
<1>1. ASSUME NEW w \in Writer, Step(w) PROVE NamespaceInv'
  BY <1>1, StepKeeps
<1>2. ASSUME NEW w \in Writer,
             \/ BeginPut(w) \/ GoOnPut(w) \/ BeginEdit(w)
             \/ BeginRename(w) \/ BeginGrant(w)
             \/ BeginCopy(w) \/ BeginFind(w) \/ Raise(w) \/ KillWriter(w)
      PROVE  NamespaceInv'
  BY <1>1, <1>2, BeginPutKeeps, GoOnPutKeeps, BeginEditKeeps, BeginOtherKeeps, GoneKeeps
<1>3. ASSUME NEW w \in Writer,
             \/ WriteBlob(w) \/ Describe(w) \/ CopyBlob(w) \/ CopySidecar(w)
             \/ Amend(w) \/ Edit(w) \/ Supersede(w)
      PROVE  NamespaceInv'
  BY <1>1, <1>3, WriteBlobKeeps, DescribeKeeps, CopyBlobKeeps, CopySidecarKeeps, AmendKeeps,
     EditKeeps, SupersedeKeeps
<1>4. ASSUME NEW w \in Writer,
             \/ ReadCatalog(w) \/ Scan(w) \/ WriteCatalog(w)
             \/ ReadAliases(w) \/ WriteAliases(w)
             \/ ReadGrants(w) \/ WriteGrants(w)
      PROVE  NamespaceInv'
  BY <1>1, <1>4, ReadCatalogKeeps, ScanKeeps, WriteCatalogKeeps, ReadAliasesKeeps,
     WriteAliasesKeeps, ReadGrantsKeeps, WriteGrantsKeeps
<1>5. CASE UNCHANGED libraryVars
  <2>1. /\ UNCHANGED <<role, beneath, blobFiles, partial, sidecar, catalog, aliases, grants>>
        /\ UNCHANGED <<place, job, jobs, purpose, known, side, cat, als, grn, calm>>
    BY <1>5 DEF libraryVars, fileVars, itemVars, bufferVars
  <2>2. Files' /\ NothingDangles'
    BY <2>1 DEF NamespaceInv, Files, NothingDangles, Indexed
  <2>3. Arrays'
    BY <2>1, CallsAlike DEF NamespaceInv, Arrays
  <2>4. ASSUME NEW w \in Writer PROVE WriterOK(w)'
    BY <2>1 DEF NamespaceInv, WriterOK, HoldsOK, PlaceOK, HeldOK, Settled, Calls, Subject
  <2>5. CalmInv'
    BY <2>1 DEF NamespaceInv, CalmInv, CalmOK, Alone, StatusOf, Subject, NewStatus, Is
  <2>. QED BY <2>2, <2>3, <2>4, <2>5 DEF NamespaceInv
<1>. QED BY <1>2, <1>3, <1>4, <1>5, LoseCatalogKeeps DEF LibraryNext, LibraryQuiescent

-----------------------------------------------------------------------------
\* At rest the catalogue says what the sidecars say, so what is found is what can be got.
LEMMA RestFollows ==
  ASSUME NamespaceInv, AtRest
  PROVE  /\ IndexFollows
         /\ Catalogued \in Catalog
         /\ \A i \in Id : sidecar[i] # Torn /\ Catalogued[i] = StatusOf(i)
<1>1. PICK w \in Writer : TRUE
  BY DEF LibraryAssumption
<1>2. place[w] = "idle" /\ CalmOK(w)
  BY CalmNow DEF AtRest, Idle
<1>3. \A i \in Id : sidecar[i] # Torn /\ (catalog # Null => catalog[i] = StatusOf(i))
  BY <1>2 DEF CalmOK
<1>4. Catalogued \in Catalog /\ \A i \in Id : Catalogued[i] = StatusOf(i)
  BY <1>3, ScannedIs DEF Catalogued, NamespaceInv, Files
<1>. QED BY <1>3, <1>4 DEF IndexFollows, StatusOf

LEMMA FoundIsGot ==
  ASSUME NamespaceInv, AtRest
  PROVE  FindIsGet
<1>1. \A i \in Id : /\ Catalogued[i] = StatusOf(i)
                    /\ sidecar[i] \in Descriptor \cup {Null}
                    /\ beneath[i] \in Descriptor \cup {Null}
  BY RestFollows DEF NamespaceInv, Files
<1>2. \A i \in Id : sidecar[i] # Null =>
        sidecar[i].status \in Status /\ sidecar[i].status # Null
  BY <1>1 DEF Descriptor, LibraryAssumption
<1>3. ASSUME NEW wanted
      PROVE  FindHere(wanted) =
               {i \in Id : sidecar[i] # Null /\ Matches(sidecar[i].status, wanted)}
  BY <1>1, <1>2 DEF FindHere, StatusOf
<1>4. FindHere(Null) = {i \in Id : sidecar[i] # Null}
  BY <1>3 DEF Matches
<1>5. ASSUME NEW wanted \in Status \cup {Null}
      PROVE  FindOwn(wanted) =
               {i \in Id : GetOwn(i) # Null /\ Matches(GetOwn(i).status, wanted)}
  BY <1>3, <1>4 DEF FindOwn, FindReal, GetOwn
<1>6. ASSUME NEW pool \in Catalog, NEW allowed \in SUBSET Id,
      NEW i \in FindAll(pool, allowed, "active")
      PROVE  PathFrom(pool, allowed, i) # Null
             /\ (i \in allowed \/ i \in FindOwn("active"))
  <2>1. CASE i \in FindOwn("active")
    <3>1. GetOwn(i) # Null
      BY <1>5, <2>1 DEF Status
    <3>. QED BY <2>1, <3>1 DEF GetOwn, PathFrom, LibraryAssumption
  <2>2. CASE i \in GrantedTo(pool, allowed, "active")
    <3>1. i \in allowed /\ pool[i] # Null /\ pool[i] = "active"
      BY <2>2 DEF GrantedTo, Matches, LibraryAssumption, Status
    <3>2. i \in GrantedTo(pool, allowed, Null)
      BY <3>1 DEF GrantedTo, Matches
    <3>. QED BY <3>1, <3>2 DEF PathFrom, LibraryAssumption
  <2>. QED BY <1>6, <2>1, <2>2 DEF FindAll
<1>. QED BY <1>5, <1>6 DEF FindIsGet

\* Whatever the writers of a namespace do, in whatever order and wherever they are killed, its files
\* and what its writers hold stay typed; no descriptor, entry, name or grant is without what it is
\* about; and when the calls so far followed one another, find returns what get returns.
THEOREM LibraryHolds == LibrarySpec => []LibraryInv
<1>1. LibraryInit => NamespaceInv
  BY StoreBegins
<1>2. NamespaceInv /\ [LibraryNext]_libraryVars => NamespaceInv'
  BY StoreKept
<1>3. NamespaceInv => LibraryInv
  <2>1. NamespaceInv => LibraryTypeOK
    BY Typing DEF NamespaceInv, WriterOK
  <2>2. NamespaceInv => NothingDangles
    BY DEF NamespaceInv
  <2>3. NamespaceInv => CatalogFollows
    BY RestFollows, FoundIsGot DEF CatalogFollows
  <2>. QED BY <2>1, <2>2, <2>3 DEF LibraryInv
<1>. QED BY <1>1, <1>2, <1>3, PTL DEF LibrarySpec

\* What an asset keeps in a step that follows one another.
Kept(i) ==
  \/ GetOwn(i)' = Torn
  \/ \E w \in Writer : place[w] = "describe" /\ job[w].id = i
  \/ /\ GetOwn(i)' # Null
     /\ GetOwn(i).caveats => GetOwn(i)'.caveats
     /\ GetOwn(i).status = "superseded" /\ GetOwn(i)'.status # "superseded" =>
          \E w \in Writer : job[w] # Null /\ Is(w, {"active", "inactive"}) /\ job[w].id = i

LEMMA SameIsKept ==
  ASSUME NEW i, GetOwn(i) # Null, GetOwn(i)' = GetOwn(i)
  PROVE  Kept(i)
BY DEF Kept

LEMMA EditIsKept ==
  ASSUME NamespaceInv, calm', NEW w \in Writer, Edit(w), NEW i \in Id,
        GetOwn(i) # Null
  PROVE  Kept(i)
<1>1. /\ place[w] = "edit" /\ sidecar' = [sidecar EXCEPT ![Subject(w)] = Edited(w)]
      /\ beneath' = beneath /\ calm' = calm
  BY DEF Edit, GoTo
<1>2. Subject(w) \in Id /\ sidecar[Subject(w)] # Null /\ PlaceOK(w) /\ job[w] # Null
  BY <1>1, Working DEF HeldOK
<1>3. side[w] = sidecar[Subject(w)]
  BY <1>1, CalmNow DEF CalmOK
<1>4. CASE i # Subject(w)
  <2>1. sidecar'[i] = sidecar[i]
    BY <1>1, <1>2, <1>4 DEF NamespaceInv, Files
  <2>. QED BY <1>1, <2>1, SameIsKept DEF GetOwn
<1>5. CASE i = Subject(w)
  <2>1. sidecar'[i] = Edited(w) /\ Edited(w) # Null
    BY <1>1, <1>2, <1>5, EditedIs DEF NamespaceInv, Files
  <2>2. GetOwn(i) = side[w] /\ GetOwn(i)' = Edited(w)
    BY <1>2, <1>3, <1>5, <2>1 DEF GetOwn
  <2>3. side[w].caveats => Edited(w).caveats
    BY <1>1, EditedIs
  <2>4. Is(w, {"active", "inactive"}) => job[w].id = i
    BY <1>1, <1>2, <1>5 DEF PlaceOK, Calls, Is, Subject
  <2>5. ~Is(w, {"active", "inactive"}) /\ side[w].status = "superseded" =>
        Edited(w).status = "superseded"
    <3>1. Is(w, {"annotate", "update"}) \/ Is(w, {"active", "inactive"})
         \/ Is(w, {"put"})
      BY <1>1, <1>2 DEF PlaceOK, Calls, Is
    <3>. QED BY <1>1, <3>1, EditedIs
  <2>. QED BY <1>2, <2>1, <2>2, <2>3, <2>4, <2>5 DEF Kept
<1>. QED BY <1>4, <1>5

LEMMA DescribeIsKept ==
  ASSUME NamespaceInv, NEW w \in Writer, Describe(w), NEW i \in Id,
        GetOwn(i) # Null
  PROVE  Kept(i)
<1>1. /\ place[w] = "describe" /\ sidecar' = [sidecar EXCEPT ![job[w].id] = Fresh]
      /\ beneath' = beneath
  BY DEF Describe, GoTo
<1>2. CASE job[w].id = i
  BY <1>1, <1>2 DEF Kept
<1>3. CASE job[w].id # i
  <2>1. sidecar'[i] = sidecar[i]
    BY <1>1, <1>3 DEF NamespaceInv, Files
  <2>. QED BY <1>1, <2>1, SameIsKept DEF GetOwn
<1>. QED BY <1>2, <1>3

LEMMA CopyIsKept ==
  ASSUME NamespaceInv, calm', NEW w \in Writer, CopySidecar(w),
         NEW i \in Id, GetOwn(i) # Null, GetOwn(i) # Torn
  PROVE  Kept(i)
<1>1. /\ \/ place[w] = "copied" /\ sidecar' = [sidecar EXCEPT ![job[w].id] = Torn]
         \/ place[w] = "torn" /\ sidecar' = [sidecar EXCEPT ![job[w].id] = beneath[job[w].id]]
      /\ beneath' = beneath /\ calm' = calm
  BY DEF CopySidecar, GoTo
<1>2. job[w].id \in Id
  BY <1>1, Working
<1>3. CASE i # job[w].id
  <2>1. sidecar'[i] = sidecar[i]
    BY <1>1, <1>2, <1>3 DEF NamespaceInv, Files
  <2>. QED BY <1>1, <2>1, SameIsKept DEF GetOwn
<1>4. CASE i = job[w].id /\ place[w] = "copied"
  <2>1. sidecar'[i] = Torn /\ Torn # Null
    BY <1>1, <1>2, <1>4 DEF NamespaceInv, Files, LibraryAssumption
  <2>. QED BY <2>1 DEF GetOwn, Kept
<1>5. CASE i = job[w].id /\ place[w] = "torn"
  <2>1. sidecar[i] = Torn
    BY <1>1, <1>5, CalmNow DEF CalmOK
  <2>. QED BY <2>1 DEF GetOwn, LibraryAssumption
<1>. QED BY <1>1, <1>3, <1>4, <1>5

\* While calls follow one another, what was written of an asset stays written.
THEOREM DescriptorsStay == LibrarySpec => DescriptorsAreKept
<1>1. LibraryInit => NamespaceInv
  BY StoreBegins
<1>2. NamespaceInv /\ [LibraryNext]_libraryVars => NamespaceInv'
  BY StoreKept
<1>3. NamespaceInv /\ [LibraryNext]_libraryVars =>
      [calm' => \A i \in Id : GetOwn(i) \notin {Null, Torn} => Kept(i)]_libraryVars
  <2>1. SUFFICES ASSUME NamespaceInv, LibraryNext, calm', NEW i \in Id, GetOwn(i) # Null,
        GetOwn(i) # Torn
                 PROVE  Kept(i)
    OBVIOUS
  <2>2. ASSUME NEW w \in Writer, Edit(w) \/ Describe(w) \/ CopySidecar(w)
        PROVE  Kept(i)
    BY <2>1, <2>2, EditIsKept, DescribeIsKept, CopyIsKept
  <2>3. CASE sidecar' = sidecar /\ beneath' = beneath
    BY <2>1, <2>3, SameIsKept DEF GetOwn
  <2>4. ASSUME NEW w \in Writer,
               \/ BeginPut(w) \/ GoOnPut(w) \/ BeginEdit(w)
               \/ BeginRename(w) \/ BeginGrant(w)
               \/ BeginCopy(w) \/ BeginFind(w) \/ Raise(w) \/ KillWriter(w)
               \/ Amend(w) \/ Supersede(w) \/ ReadCatalog(w) \/ Scan(w)
               \/ ReadAliases(w) \/ ReadGrants(w)
        PROVE  sidecar' = sidecar /\ beneath' = beneath
    BY <2>4 DEF BeginPut, GoOnPut, BeginEdit, BeginRename, BeginGrant, BeginCopy, BeginFind,
       Raise, KillWriter, Gone, Amend, Supersede, ReadCatalog, Scan, ReadAliases, ReadGrants,
       fileVars, itemVars
  <2>5. ASSUME NEW w \in Writer,
               \/ WriteBlob(w) \/ CopyBlob(w) \/ WriteCatalog(w)
               \/ WriteAliases(w) \/ WriteGrants(w)
        PROVE  sidecar' = sidecar /\ beneath' = beneath
    BY <2>5 DEF WriteBlob, CopyBlob, WriteCatalog, WriteAliases, WriteGrants, itemVars
  <2>6. ASSUME LoseCatalog \/ LibraryQuiescent PROVE sidecar' = sidecar /\ beneath' = beneath
    BY <2>6 DEF LoseCatalog, LibraryQuiescent, libraryVars, fileVars, itemVars
  <2>. QED BY <2>1, <2>2, <2>3, <2>4, <2>5, <2>6 DEF LibraryNext
<1>. QED BY <1>1, <1>2, <1>3, PTL DEF LibrarySpec, DescriptorsAreKept, Kept

\* Names and grants: a write puts back what it read, save for what its call is about.
NamesKept ==
  \A n \in Name : aliases[n] # Null /\ aliases'[n] # aliases[n] =>
     \E w \in Writer : /\ place[w] = "name" /\ place'[w] # "name"
                       /\ \/ job[w].name = n
                          \/ Is(w, {"rename", "update"}) /\ job[w].id = aliases[n]

GrantsKept ==
  \A i \in Id : grants'[i] # grants[i] =>
     \E w \in Writer : /\ place[w] = "permit" /\ place'[w] # "permit"
                       /\ job[w].id = i /\ grants'[i] = job[w].grant

LEMMA WriteKeepsNames ==
  ASSUME NamespaceInv, calm', NEW w \in Writer, WriteAliases(w)
  PROVE  NamesKept /\ GrantsKept
<1>1. /\ place[w] = "name"
      /\ \A n \in Name \ {job[w].name} :
           \/ aliases'[n] = als[w][n]
           \/ Is(w, {"rename", "update"}) /\ als[w][n] = job[w].id
  BY NamesWritten
<1>2. calm /\ grants' = grants
  BY DEF WriteAliases
<1>3. als[w] = aliases
  BY <1>1, <1>2, CalmNow DEF CalmOK
<1>4. place'[w] # "name"
  <2>1. Named(w) \in {"amend", "end", "grant", "scan"}
    BY <1>1, NamedIs
  <2>2. place' = [place EXCEPT ![w] = IF Named(w) = "end" THEN "idle" ELSE Named(w)]
    BY DEF WriteAliases, Advance
  <2>. QED BY <2>1, <2>2 DEF NamespaceInv, Arrays
<1>5. NamesKept
  BY <1>1, <1>3, <1>4 DEF NamesKept
<1>. QED BY <1>2, <1>5 DEF GrantsKept

LEMMA WriteKeepsGrants ==
  ASSUME NamespaceInv, calm', NEW w \in Writer, WriteGrants(w)
  PROVE  NamesKept /\ GrantsKept
<1>1. /\ place[w] = "permit" /\ Calls(w, {"put", "grant"}) /\ grants'[job[w].id] = job[w].grant
      /\ \A i \in Id \ {job[w].id} : grants'[i] = grn[w][i]
  BY GrantsWritten
<1>2. calm /\ aliases' = aliases
  BY DEF WriteGrants
<1>3. grn[w] = grants
  BY <1>1, <1>2, CalmNow DEF CalmOK
<1>4. place'[w] # "permit"
  BY <1>1 DEF WriteGrants, GoTo, Advance, NamespaceInv, Arrays
<1>5. GrantsKept
  BY <1>1, <1>3, <1>4 DEF GrantsKept
<1>. QED BY <1>2, <1>5 DEF NamesKept

\* While calls follow one another, a name or a grant changes by a call about it alone.
THEOREM NamesAndGrantsStay == LibrarySpec => NamesAndGrantsAreKept
<1>1. LibraryInit => NamespaceInv
  BY StoreBegins
<1>2. NamespaceInv /\ [LibraryNext]_libraryVars => NamespaceInv'
  BY StoreKept
<1>3. NamespaceInv /\ [LibraryNext]_libraryVars => [calm' => NamesKept /\ GrantsKept]_libraryVars
  <2>1. SUFFICES ASSUME NamespaceInv, LibraryNext, calm' PROVE NamesKept /\ GrantsKept
    OBVIOUS
  <2>2. ASSUME NEW w \in Writer, WriteAliases(w) \/ WriteGrants(w)
        PROVE  NamesKept /\ GrantsKept
    BY <2>1, <2>2, WriteKeepsNames, WriteKeepsGrants
  <2>3. CASE aliases' = aliases /\ grants' = grants
    BY <2>3 DEF NamesKept, GrantsKept
  <2>4. ASSUME NEW w \in Writer,
               \/ BeginPut(w) \/ GoOnPut(w) \/ BeginEdit(w)
               \/ BeginRename(w) \/ BeginGrant(w)
               \/ BeginCopy(w) \/ BeginFind(w) \/ Raise(w) \/ KillWriter(w)
               \/ Amend(w) \/ Supersede(w) \/ ReadCatalog(w) \/ Scan(w)
               \/ ReadAliases(w) \/ ReadGrants(w)
        PROVE  aliases' = aliases /\ grants' = grants
    BY <2>4 DEF BeginPut, GoOnPut, BeginEdit, BeginRename, BeginGrant, BeginCopy, BeginFind,
       Raise, KillWriter, Gone, Amend, Supersede, ReadCatalog, Scan, ReadAliases, ReadGrants,
       fileVars
  <2>5. ASSUME NEW w \in Writer,
               \/ WriteBlob(w) \/ Describe(w) \/ CopyBlob(w) \/ CopySidecar(w)
               \/ Edit(w)
               \/ WriteCatalog(w)
        PROVE  aliases' = aliases /\ grants' = grants
    BY <2>5 DEF WriteBlob, Describe, CopyBlob, CopySidecar, Edit, WriteCatalog
  <2>6. ASSUME LoseCatalog \/ LibraryQuiescent PROVE aliases' = aliases /\ grants' = grants
    BY <2>6 DEF LoseCatalog, LibraryQuiescent, libraryVars, fileVars
  <2>. QED BY <2>1, <2>2, <2>3, <2>4, <2>5, <2>6 DEF LibraryNext
<1>. QED BY <1>1, <1>2, <1>3, PTL DEF LibrarySpec, NamesAndGrantsAreKept, NamesKept, GrantsKept
===============================================================================
