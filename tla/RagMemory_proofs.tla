-------------------------- MODULE RagMemory_proofs --------------------------
(***************************************************************************)
(* The memory: an erasure holds, and documents are there as a whole or not *)
(* at all, for any set of replicas, calls and number of batches.  The      *)
(* chunker: no chunk exceeds its size, no letter is lost and neighbours    *)
(* share context, for texts, sizes and overlaps of any length.             *)
(***************************************************************************)
EXTENDS VectorMemory, Chunker, SequenceTheorems, WellFoundedInduction, TLAPS

Places == {"idle", "resolving", "embedding", "working", "erasing",
           "succeeded", "failed", "gone"}

Types ==
    /\ collection \in Nat /\ created \in Nat /\ dropped \in Nat
    /\ contents \subseteq Documents \X (1 .. Batches)
    /\ cached \in [Replicas -> Nat]
    /\ locked \in [Replicas -> BOOLEAN]
    /\ pc \in [Calls -> Places]
    /\ job \in [Calls -> {"none", "pending", "done", "raised"}]
    /\ handle \in [Calls -> Nat]
    /\ embedded \in [Calls -> Nat]

(* The collection there is now is the newest, and newer than any deleted.  *)
Newest == /\ dropped <= created
          /\ collection = None => contents = {}
          /\ collection # None => collection = created /\ dropped < collection

(* A call that got past _collection has a handle, and keeps it.            *)
Resolving ==
    \A c \in Calls \ Erasures :
        /\ pc[c] = "idle" => job[c] = "none" /\ handle[c] = None
        /\ pc[c] = "embedding" \/ job[c] = "done" \/ embedded[c] > 0 => handle[c] # None

(* What is in memory was written to the collection that is there now.      *)
Written == \A d \in InMemory : handle[d] = collection /\ collection # None

ErasureInv == Types /\ Newest /\ Resolving /\ Written

LEMMA TypesPreserved == ErasureInv /\ [Next]_vars => Types'
<1> SUFFICES ASSUME ErasureInv, [Next]_vars PROVE Types'
  OBVIOUS
<1> USE DEF ErasureInv, Types, Places, Goto, Job, None
<1>0. \A c \in Calls : At[c] \in Replicas
  BY MemoryAssumption
<1>1. ASSUME NEW c \in Calls, FoundCached(c) PROVE Types'
  BY <1>0, <1>1 DEF FoundCached, chroma, caches, observed
<1>2. ASSUME NEW c \in Calls, NotCached(c) PROVE Types'
  BY <1>0, <1>2 DEF NotCached, chroma, caches, observed
<1>3. ASSUME NEW c \in Calls, GetOrCreate(c) PROVE Types'
  BY <1>3 DEF GetOrCreate, chroma, caches, observed
<1>4. ASSUME NEW c \in Calls, Resolved(c) PROVE Types'
  BY <1>0, <1>4 DEF Resolved, chroma, caches, observed
<1>5. ASSUME NEW c \in Calls, Embedded(c) PROVE Types'
  BY <1>5 DEF Embedded, chroma, caches, observed
<1>6. ASSUME NEW c \in Calls, EmbeddingFailed(c) \/ Answered(c) \/ JobFailed(c) PROVE Types'
  BY <1>6 DEF EmbeddingFailed, Answered, JobFailed, chroma, caches, observed
<1>7. ASSUME NEW c \in Calls, ResolvingFailed(c) \/ Abandoned(c) PROVE Types'
  BY <1>0, <1>7 DEF ResolvingFailed, Abandoned, ReleaseLock, chroma, caches, observed
<1>8. ASSUME NEW d \in Documents, Upsert(d) PROVE Types'
  BY <1>8 DEF Upsert, Chunks, Calls, caches, observed
<1>9. ASSUME NEW q \in Searches, QueryChroma(q) PROVE Types'
  BY <1>9 DEF QueryChroma, Calls, chroma, caches, observed
<1>10. ASSUME NEW e \in Erasures, Popped(e) \/ DeleteCollection(e) \/ Forgotten(e) PROVE Types'
  BY <1>0, <1>10 DEF Popped, DeleteCollection, Forgotten, Calls, chroma, caches, observed
<1>11. CASE UNCHANGED vars
  BY <1>11 DEF vars, chroma, caches, observed
<1> QED
  BY <1>1, <1>2, <1>3, <1>4, <1>5, <1>6, <1>7, <1>8, <1>9, <1>10, <1>11 DEF Next

LEMMA NewestPreserved == ErasureInv /\ [Next]_vars => Newest'
<1> SUFFICES ASSUME ErasureInv, [Next]_vars PROVE Newest'
  OBVIOUS
<1> USE DEF ErasureInv, Types, Newest, None
<1>1. ASSUME NEW c \in Calls, GetOrCreate(c) PROVE Newest'
  BY <1>1 DEF GetOrCreate, chroma, observed
<1>2. ASSUME NEW d \in Documents, Upsert(d) PROVE Newest'
  <2>1. d \in Calls \ Erasures
    BY MemoryAssumption DEF Calls
  <2>2. Wanted(d) > 0
    BY MemoryAssumption DEF Wanted
  <2>3. handle[d] # None
    BY <1>2, <2>1, <2>2 DEF Upsert, Working, Resolving
  <2> QED
    BY <1>2, <2>3 DEF Upsert, observed
<1>3. ASSUME NEW e \in Erasures, DeleteCollection(e) PROVE Newest'
  BY <1>3 DEF DeleteCollection
<1>4. ASSUME UNCHANGED <<chroma, dropped>> PROVE Newest'
  BY <1>4 DEF chroma
<1> QED
  BY <1>1, <1>2, <1>3, <1>4
  DEF Next, vars, observed, FoundCached, NotCached, Resolved, Embedded, EmbeddingFailed,
      Answered, JobFailed, ResolvingFailed, Abandoned, QueryChroma, Popped, Forgotten

LEMMA ResolvingPreserved == ErasureInv /\ [Next]_vars => Resolving'
<1> SUFFICES ASSUME ErasureInv, [Next]_vars, NEW c \in Calls \ Erasures
             PROVE  /\ pc'[c] = "idle" => job'[c] = "none" /\ handle'[c] = None
                    /\ pc'[c] = "embedding" \/ job'[c] = "done" \/ embedded'[c] > 0
                          => handle'[c] # None
  BY DEF Resolving
<1> USE DEF ErasureInv, Types, Resolving, Goto, Job, None
<1> DEFINE Goal == /\ pc'[c] = "idle" => job'[c] = "none" /\ handle'[c] = None
                   /\ pc'[c] = "embedding" \/ job'[c] = "done" \/ embedded'[c] > 0
                         => handle'[c] # None
<1> SUFFICES Goal
  OBVIOUS
<1>1. ASSUME NEW x \in Calls, FoundCached(x) PROVE Goal
  BY <1>1 DEF FoundCached
<1>2. ASSUME NEW x \in Calls, NotCached(x) PROVE Goal
  BY <1>2 DEF NotCached
<1>3. ASSUME NEW x \in Calls, GetOrCreate(x) PROVE Goal
  BY <1>3 DEF GetOrCreate, caches, chroma, Newest
<1>4. ASSUME NEW x \in Calls, Resolved(x) PROVE Goal
  BY <1>4 DEF Resolved
<1>5. ASSUME NEW x \in Calls, Embedded(x) PROVE Goal
  BY <1>5 DEF Embedded
<1>6. ASSUME NEW x \in Calls,
             EmbeddingFailed(x) \/ Answered(x) \/ JobFailed(x) PROVE Goal
  BY <1>6 DEF EmbeddingFailed, Answered, JobFailed, chroma, caches
<1>7. ASSUME NEW x \in Calls, ResolvingFailed(x) \/ Abandoned(x) PROVE Goal
  BY <1>7 DEF ResolvingFailed, Abandoned
<1>8. ASSUME NEW x \in Documents, Upsert(x) PROVE Goal
  <2>1. x \in Calls \ Erasures /\ Wanted(x) > 0
    BY MemoryAssumption DEF Calls, Wanted
  <2> QED
    BY <1>8, <2>1 DEF Upsert, Working
<1>9. ASSUME NEW x \in Searches, QueryChroma(x) PROVE Goal
  <2>1. x \in Calls \ Erasures /\ Wanted(x) > 0
    BY MemoryAssumption DEF Calls, Wanted
  <2> QED
    BY <1>9, <2>1 DEF QueryChroma, Working
<1>10. ASSUME NEW x \in Erasures,
              Popped(x) \/ DeleteCollection(x) \/ Forgotten(x) PROVE Goal
  BY <1>10 DEF Popped, DeleteCollection, Forgotten, Calls
<1>11. CASE UNCHANGED vars
  BY <1>11 DEF vars
<1> QED
  BY <1>1, <1>2, <1>3, <1>4, <1>5, <1>6, <1>7, <1>8, <1>9, <1>10, <1>11 DEF Next

LEMMA WrittenPreserved == ErasureInv /\ [Next]_vars => Written'
<1> SUFFICES ASSUME ErasureInv, [Next]_vars, NEW d \in InMemory'
             PROVE  handle'[d] = collection' /\ collection' # None
  BY DEF Written
<1> USE DEF ErasureInv, Types, Written, InMemory, None
<1>1. d \in Documents /\ d \in Calls \ Erasures
  BY MemoryAssumption DEF Calls
<1>2. ASSUME d \in InMemory PROVE handle[d] # None /\ collection = handle[d]
  BY <1>2
<1> DEFINE Goal == handle'[d] = collection' /\ collection' # None
<1>3. ASSUME UNCHANGED <<collection, contents, handle>> PROVE Goal
  BY <1>3
<1>4. ASSUME NEW c \in Calls, FoundCached(c) PROVE Goal
  BY <1>1, <1>4 DEF FoundCached, chroma, Resolving
<1>5. ASSUME NEW c \in Calls, GetOrCreate(c) PROVE Goal
  BY <1>1, <1>5 DEF GetOrCreate, chroma
<1>6. ASSUME NEW x \in Documents, Upsert(x) PROVE Goal
  <2>1. x \in Calls \ Erasures /\ Wanted(x) > 0
    BY MemoryAssumption DEF Calls, Wanted
  <2>2. handle[x] # None
    BY <1>6, <2>1 DEF Upsert, Working, Resolving
  <2>3. PICK i \in 1 .. Batches : <<d, i>> \in contents'
    OBVIOUS
  <2>4. CASE <<d, i>> \in contents
    BY <1>2, <1>6, <2>4 DEF Upsert
  <2>5. CASE <<d, i>> \notin contents
    <3>1. handle[x] = collection /\ <<d, i>> \in {x} \X (1 .. Batches)
      BY <1>6, <2>3, <2>5 DEF Upsert, Chunks
    <3> QED
      BY <1>6, <2>2, <3>1 DEF Upsert
  <2> QED
    BY <2>4, <2>5
<1>7. ASSUME NEW e \in Erasures, DeleteCollection(e) PROVE Goal
  BY <1>7 DEF DeleteCollection
<1> QED
  BY <1>3, <1>4, <1>5, <1>6, <1>7
  DEF Next, vars, chroma, NotCached, Resolved, Embedded, EmbeddingFailed, Answered, JobFailed,
      ResolvingFailed, Abandoned, QueryChroma, Popped, Forgotten

LEMMA InitErasure == Init => ErasureInv
  BY DEF Init, ErasureInv, Types, Places, Newest, Resolving, Written, InMemory, None

LEMMA ErasureStep == ErasureInv /\ [Next]_vars => ErasureInv'
  BY TypesPreserved, NewestPreserved, ResolvingPreserved, WrittenPreserved DEF ErasureInv

(* ErasureHolds: whatever is in memory was written to a collection that    *)
(* was created after the newest erasure, for any replicas and their caches. *)
THEOREM ErasureHoldsAlways == Spec => []ErasureHolds
<1>1. ErasureInv => ErasureHolds
  BY DEF ErasureInv, Newest, Written, ErasureHolds
<1> QED
  BY <1>1, InitErasure, ErasureStep, PTL DEF Spec
-----------------------------------------------------------------------------
(* Whole documents.                                                        *)

(* How far a call has come, and what its job can be then.                  *)
Stages ==
    \A c \in Calls \ Erasures :
        /\ pc[c] \in {"idle", "resolving"} => embedded[c] = 0
        /\ pc[c] = "embedding" => job[c] = "none"
        /\ pc[c] \in {"working", "succeeded"} => embedded[c] > 0
        /\ pc[c] = "succeeded" => job[c] = "done"

(* Nobody knows a collection that was not created yet.                     *)
Known == /\ \A r \in Replicas : cached[r] <= created
         /\ \A c \in Calls : handle[c] <= created

(* A document is there as a whole or not at all, and searches see it so.    *)
Undivided ==
    /\ \A d \in InMemory : Chunks(d) \subseteq contents
    /\ found \in [Calls -> SUBSET (Documents \X (1 .. Batches))]
    /\ \A q \in Searches : \A d \in Documents :
          Chunks(d) \cap found[q] \in {{}, Chunks(d)}

(* What was stored stays until its collection is dropped.                  *)
Kept == \A d \in Documents :
            job[d] = "done" /\ embedded[d] > 0 /\ handle[d] > dropped => d \in InMemory

WholeInv == ErasureInv /\ Stages /\ Known /\ Undivided /\ Kept

(* A call of a document or a search asks for some batch.                   *)
LEMMA SomeBatch ==
    /\ Documents \subseteq Calls \ Erasures /\ Searches \subseteq Calls \ Erasures
    /\ \A c \in Calls : Wanted(c) \in Nat \ {0}
    /\ Documents \cap Searches = {}
  BY MemoryAssumption DEF Calls, Wanted

LEMMA StagesPreserved == WholeInv /\ [Next]_vars => Stages'
<1> DEFINE Goal(c) == /\ pc'[c] \in {"idle", "resolving"} => embedded'[c] = 0
                      /\ pc'[c] = "embedding" => job'[c] = "none"
                      /\ pc'[c] \in {"working", "succeeded"} => embedded'[c] > 0
                      /\ pc'[c] = "succeeded" => job'[c] = "done"
<1> SUFFICES ASSUME WholeInv, [Next]_vars, NEW c \in Calls \ Erasures PROVE Goal(c)
  BY DEF Stages
<1> USE DEF WholeInv, ErasureInv, Types, Stages, Resolving, Goto, Job, None
<1>1. ASSUME NEW x \in Calls, FoundCached(x) PROVE Goal(c)
  BY <1>1 DEF FoundCached
<1>2. ASSUME NEW x \in Calls, NotCached(x) PROVE Goal(c)
  BY <1>2 DEF NotCached
<1>3. ASSUME NEW x \in Calls, GetOrCreate(x) PROVE Goal(c)
  BY <1>3 DEF GetOrCreate
<1>4. ASSUME NEW x \in Calls, Resolved(x) PROVE Goal(c)
  BY <1>4 DEF Resolved
<1>5. ASSUME NEW x \in Calls, Embedded(x) PROVE Goal(c)
  <2>1. CASE x = c
    BY <1>5, <2>1 DEF Embedded
  <2>2. CASE x # c
    BY <1>5, <2>2 DEF Embedded
  <2> QED
    BY <2>1, <2>2
<1>6. ASSUME NEW x \in Calls, EmbeddingFailed(x) \/ Answered(x) \/ JobFailed(x) PROVE Goal(c)
  BY <1>6 DEF EmbeddingFailed, Answered, JobFailed
<1>7. ASSUME NEW x \in Calls, ResolvingFailed(x) \/ Abandoned(x) PROVE Goal(c)
  BY <1>7 DEF ResolvingFailed, Abandoned
<1>8. ASSUME NEW x \in Documents, Upsert(x) PROVE Goal(c)
  BY <1>8, SomeBatch DEF Upsert, Working
<1>9. ASSUME NEW x \in Searches, QueryChroma(x) PROVE Goal(c)
  BY <1>9, SomeBatch DEF QueryChroma, Working
<1>10. ASSUME NEW x \in Erasures, Popped(x) \/ DeleteCollection(x) \/ Forgotten(x) PROVE Goal(c)
  BY <1>10 DEF Popped, DeleteCollection, Forgotten, Calls
<1>11. CASE UNCHANGED vars
  BY <1>11 DEF vars
<1> QED
  BY <1>1, <1>2, <1>3, <1>4, <1>5, <1>6, <1>7, <1>8, <1>9, <1>10, <1>11 DEF Next

LEMMA KnownPreserved == WholeInv /\ [Next]_vars => Known'
<1> SUFFICES ASSUME WholeInv, [Next]_vars PROVE Known'
  OBVIOUS
<1> USE DEF WholeInv, ErasureInv, Types, Newest, Known, None
<1>1. ASSUME NEW c \in Calls, FoundCached(c) PROVE Known'
  BY <1>1, MemoryAssumption DEF FoundCached, chroma, caches
<1>2. ASSUME NEW c \in Calls, GetOrCreate(c) PROVE Known'
  BY <1>2 DEF GetOrCreate, chroma, caches
<1>3. ASSUME NEW c \in Calls, Resolved(c) PROVE Known'
  BY <1>3, MemoryAssumption DEF Resolved, chroma
<1>4. ASSUME NEW e \in Erasures, Popped(e) PROVE Known'
  BY <1>4, MemoryAssumption DEF Popped, chroma, Calls
<1>5. ASSUME UNCHANGED <<cached, handle, created>> PROVE Known'
  BY <1>5
<1> QED
  BY <1>1, <1>2, <1>3, <1>4, <1>5
  DEF Next, vars, chroma, caches, observed, NotCached, Embedded, EmbeddingFailed, Answered,
      JobFailed, ResolvingFailed, Abandoned, Upsert, QueryChroma, DeleteCollection, Forgotten

LEMMA UndividedPreserved == WholeInv /\ [Next]_vars => Undivided'
<1> SUFFICES ASSUME WholeInv, [Next]_vars PROVE Undivided'
  OBVIOUS
<1> USE DEF WholeInv, ErasureInv, Types, Undivided, InMemory
<1>1. ASSUME UNCHANGED <<contents, found>> PROVE Undivided'
  BY <1>1
<1>2. ASSUME NEW c \in Calls, GetOrCreate(c) PROVE Undivided'
  BY <1>1, <1>2 DEF GetOrCreate, chroma
<1>3. ASSUME NEW e \in Erasures, DeleteCollection(e) PROVE Undivided'
  BY <1>3 DEF DeleteCollection
<1>4. ASSUME NEW x \in Documents, Upsert(x) PROVE Undivided'
  <2>1. UNCHANGED found /\ (UNCHANGED contents \/ contents' = contents \cup Chunks(x))
    BY <1>4 DEF Upsert, Job
  <2>2. ASSUME NEW d \in InMemory' PROVE Chunks(d) \subseteq contents'
    BY <2>1, <2>2 DEF Chunks
  <2>3. \A q \in Searches : \A d \in Documents : Chunks(d) \cap found'[q] \in {{}, Chunks(d)}
    BY <2>1
  <2> QED
    BY <2>1, <2>2, <2>3
<1>5. ASSUME NEW q \in Searches, QueryChroma(q) PROVE Undivided'
  <2>1. q \in Calls /\ UNCHANGED contents
    BY <1>5 DEF QueryChroma, chroma, Calls
  <2>2. UNCHANGED found \/ found' = [found EXCEPT ![q] = contents]
    BY <1>5 DEF QueryChroma
  <2>3. ASSUME NEW d \in Documents PROVE Chunks(d) \cap contents \in {{}, Chunks(d)}
    <3>1. CASE d \in InMemory
      BY <3>1
    <3>2. CASE d \notin InMemory
      <4>1. Chunks(d) \cap contents = {}
        BY <3>2 DEF Chunks
      <4> QED
        BY <4>1
    <3> QED
      BY <3>1, <3>2
  <2>4. ASSUME NEW p \in Searches, NEW d \in Documents
        PROVE  Chunks(d) \cap found'[p] \in {{}, Chunks(d)}
    BY <2>1, <2>2, <2>3 DEF Calls
  <2>5. found' \in [Calls -> SUBSET (Documents \X (1 .. Batches))]
    BY <2>1, <2>2
  <2>6. \A d \in InMemory' : Chunks(d) \subseteq contents'
    BY <2>1
  <2> QED
    BY <2>4, <2>5, <2>6
<1> QED
  BY <1>1, <1>2, <1>3, <1>4, <1>5
  DEF Next, vars, chroma, FoundCached, NotCached, Resolved, Embedded, EmbeddingFailed,
      Answered, JobFailed, ResolvingFailed, Abandoned, Popped, Forgotten

LEMMA KeptPreserved == WholeInv /\ [Next]_vars => Kept'
<1> SUFFICES ASSUME WholeInv, [Next]_vars, NEW d \in Documents,
                    job'[d] = "done", embedded'[d] > 0, handle'[d] > dropped'
             PROVE  d \in InMemory'
  BY DEF Kept
<1> USE DEF WholeInv, ErasureInv, Types, Kept, None
<1>0. d \in Calls \ Erasures /\ Documents \cap Searches = {}
  BY SomeBatch
<1>1. ASSUME UNCHANGED <<contents, job, embedded, handle, dropped>> PROVE d \in InMemory'
  BY <1>1 DEF InMemory
<1>2. ASSUME NEW c \in Calls, FoundCached(c) PROVE d \in InMemory'
  BY <1>0, <1>2 DEF FoundCached, chroma, observed, InMemory, Stages
<1>3. ASSUME NEW c \in Calls, NotCached(c) \/ Resolved(c) \/ JobFailed(c) PROVE d \in InMemory'
  BY <1>0, <1>3 DEF NotCached, Resolved, JobFailed, Job, chroma, observed, InMemory
<1>4. ASSUME NEW c \in Calls, GetOrCreate(c) PROVE d \in InMemory'
  <2>1. c # d
    BY <1>0, <1>4 DEF GetOrCreate, Resolving
  <2>2. d \in InMemory
    BY <1>4, <2>1 DEF GetOrCreate, Job, observed
  <2> QED
    BY <1>4, <2>2 DEF GetOrCreate, chroma, InMemory, Newest
<1>5. ASSUME NEW c \in Calls, Embedded(c) PROVE d \in InMemory'
  BY <1>0, <1>5 DEF Embedded, Job, chroma, observed, InMemory, Stages
<1>6. ASSUME NEW x \in Documents, Upsert(x) PROVE d \in InMemory'
  <2>1. CASE x = d
    <3>1. contents' = contents \cup Chunks(d)
      BY <1>0, <1>6, <2>1 DEF Upsert, Job
    <3> QED
      BY <3>1, MemoryAssumption DEF Chunks, InMemory
  <2>2. CASE x # d
    BY <1>0, <1>6, <2>2 DEF Upsert, Job, observed, InMemory
  <2> QED
    BY <2>1, <2>2
<1>7. ASSUME NEW q \in Searches, QueryChroma(q) PROVE d \in InMemory'
  BY <1>0, <1>7 DEF QueryChroma, Job, chroma, observed, InMemory
<1>8. ASSUME NEW e \in Erasures, Popped(e) PROVE d \in InMemory'
  BY <1>0, <1>8 DEF Popped, Job, chroma, InMemory
<1>9. ASSUME NEW e \in Erasures, DeleteCollection(e) PROVE d \in InMemory'
  <2>1. job[d] = "done" /\ embedded[d] > 0 /\ handle[d] = handle'[d]
    BY <1>0, <1>9 DEF DeleteCollection, Job
  <2>2. CASE collection = None
    BY <1>9, <2>1, <2>2 DEF DeleteCollection, Newest, InMemory
  <2>3. CASE collection # None
    BY <1>0, <1>9, <2>1, <2>3 DEF DeleteCollection, Newest, Known
  <2> QED
    BY <2>2, <2>3
<1> QED
  BY <1>1, <1>2, <1>3, <1>4, <1>5, <1>6, <1>7, <1>8, <1>9
  DEF Next, vars, chroma, observed, EmbeddingFailed, Answered, ResolvingFailed, Abandoned,
      Forgotten

(* WholeDocuments: upsert stores all chunks of a document in one call, so   *)
(* no failure and no abandoned request leaves a part of one, no search sees *)
(* a part, and what an ingest was told is stored stays until an erasure.    *)
THEOREM WholeDocumentsAlways == Spec => []WholeDocuments
<1>1. Init => WholeInv
  <2> SUFFICES ASSUME Init PROVE WholeInv
    OBVIOUS
  <2>1. Stages /\ Known /\ Kept
    BY DEF Init, Stages, Known, Kept, None, Calls
  <2>2. InMemory = {} /\ found = [c \in Calls |-> {}]
    BY DEF Init, InMemory
  <2>3. Undivided
    BY <2>2 DEF Undivided, Calls
  <2> QED
    BY <2>1, <2>3, InitErasure DEF WholeInv
<1>2. WholeInv /\ [Next]_vars => WholeInv'
  BY ErasureStep, StagesPreserved, KnownPreserved, UndividedPreserved, KeptPreserved
  DEF WholeInv
<1>3. WholeInv => WholeDocuments
  BY SomeBatch DEF WholeInv, Stages, Undivided, Kept, WholeDocuments
<1> QED
  BY <1>1, <1>2, <1>3, PTL DEF Spec

-----------------------------------------------------------------------------
(* The chunker.  Least and greatest numbers, and induction.                *)
LEMMA LeastNat ==
    ASSUME NEW ns \in SUBSET Nat, ns # {}
    PROVE  Min(ns) \in ns /\ \A k \in ns : Min(ns) <= k
<1>1. PICK n \in ns : \A k \in ns : <<k, n>> \notin OpToRel(<, Nat)
    BY NatLessThanWellFounded, WFMin
<1>2. \A k \in ns : ~(k < n)
    BY <1>1, Zenon DEF OpToRel
<1>3. \A k \in ns : n <= k
    BY <1>2
<1>4. QED
    BY <1>3 DEF Min

(* Induction, over the set of the numbers for which something holds.        *)
LEMMA UpTo ==
    ASSUME NEW N \in Nat, NEW good, 0 \in good,
           \A n \in 0 .. N : n \in good /\ n + 1 <= N => n + 1 \in good
    PROVE  \A n \in 0 .. N : n \in good
<1> DEFINE bad == {n \in 0 .. N : n \notin good}
<1> SUFFICES ASSUME bad # {} PROVE FALSE
    OBVIOUS
<1>1. bad \in SUBSET Nat
    OBVIOUS
<1>2. PICK m \in bad : \A k \in bad : m <= k
    BY <1>1, LeastNat
<1>3. m # 0 /\ m \in 1 .. N
    BY <1>2
<1>4. m - 1 \in 0 .. N /\ m - 1 \notin bad /\ (m - 1) + 1 = m
    BY <1>2, <1>3
<1>5. m \in good
    BY <1>3, <1>4
<1>6. QED
    BY <1>2, <1>5

(* What FlattenSeq computes, line by line.                                   *)
Joins(f, ss, n) == f = [i \in 1 .. n |-> IF i = 1 THEN ss[i] ELSE f[i - 1] \o ss[i]]

LEMMA JoinsLine ==
    ASSUME NEW f, NEW ss, NEW n \in Nat, Joins(f, ss, n), NEW i \in 1 .. n
    PROVE  f[i] = IF i = 1 THEN ss[i] ELSE f[i - 1] \o ss[i]
<1> DEFINE line(k) == IF k = 1 THEN ss[k] ELSE f[k - 1] \o ss[k]
<1>1. f = [k \in 1 .. n |-> line(k)]
    BY DEF Joins
<1> HIDE DEF line
<1>2. f[i] = line(i)
    BY <1>1
<1>3. QED
    BY <1>2 DEF line

LEMMA LinesJoin ==
    ASSUME NEW g, NEW ss, NEW n \in Nat, g = [i \in 1 .. n |-> g[i]],
           \A i \in 1 .. n : g[i] = IF i = 1 THEN ss[i] ELSE g[i - 1] \o ss[i]
    PROVE  Joins(g, ss, n)
<1> DEFINE line(k) == IF k = 1 THEN ss[k] ELSE g[k - 1] \o ss[k]
<1>1. \A i \in 1 .. n : g[i] = line(i)
    OBVIOUS
<1> HIDE DEF line
<1>2. g = [k \in 1 .. n |-> line(k)]
    BY <1>1
<1>3. QED
    BY <1>2 DEF Joins, line

Joinable(ss, n) == \E f : Joins(f, ss, n)

LEMMA JoinsExists ==
    ASSUME NEW ss, NEW N \in Nat
    PROVE  \E f : Joins(f, ss, N)
<1> DEFINE good == {n \in 0 .. N : Joinable(ss, n)}
<1>1. 0 \in good
  <2> DEFINE none == [i \in 1 .. 0 |-> <<>>]
  <2>1. none = [i \in 1 .. 0 |-> none[i]]
      OBVIOUS
  <2> HIDE DEF none
  <2>2. \A i \in 1 .. 0 : none[i] = IF i = 1 THEN ss[i] ELSE none[i - 1] \o ss[i]
      OBVIOUS
  <2>3. 0 \in Nat
      OBVIOUS
  <2>4. Joins(none, ss, 0)
      BY <2>1, <2>2, <2>3, LinesJoin
  <2>5. Joinable(ss, 0)
      BY <2>4 DEF Joinable
  <2>6. QED
      BY <2>5
<1>2. ASSUME NEW n \in 0 .. N, n \in good, n + 1 <= N PROVE n + 1 \in good
  <2>1. PICK f : Joins(f, ss, n)
      BY <1>2 DEF Joinable
  <2> DEFINE next == IF n = 0 THEN ss[1] ELSE f[n] \o ss[n + 1]
             g == [i \in 1 .. n + 1 |-> IF i = n + 1 THEN next ELSE f[i]]
  <2>2. n \in Nat /\ n + 1 \in 1 .. n + 1 /\ \A i \in 1 .. n : i \in 1 .. n + 1 /\ i # n + 1
      OBVIOUS
  <2>3. g[n + 1] = next /\ \A i \in 1 .. n : g[i] = f[i]
      BY <2>2
  <2>4. g = [i \in 1 .. n + 1 |-> g[i]]
      BY Zenon
  <2> HIDE DEF g
  <2>5. ASSUME NEW i \in 1 .. n + 1
        PROVE  g[i] = IF i = 1 THEN ss[i] ELSE g[i - 1] \o ss[i]
    <3>1. CASE i = n + 1
      <4>1. n # 0 => g[i - 1] = f[n] /\ i # 1
          BY <2>3, <3>1
      <4>2. n = 0 => i = 1
          BY <3>1
      <4>3. QED
          BY <2>3, <3>1, <4>1, <4>2
    <3>2. CASE i # n + 1
      <4>1. i \in 1 .. n
          BY <3>2
      <4>2. f[i] = IF i = 1 THEN ss[i] ELSE f[i - 1] \o ss[i]
          BY <2>1, <4>1, JoinsLine
      <4>3. i # 1 => g[i - 1] = f[i - 1]
          BY <2>3, <4>1
      <4>4. QED
          BY <2>3, <4>1, <4>2, <4>3
    <3>3. QED
        BY <3>1, <3>2
  <2>6. n + 1 \in Nat
      OBVIOUS
  <2>7. Joins(g, ss, n + 1)
      BY <2>4, <2>5, <2>6, LinesJoin
  <2>8. n + 1 \in 0 .. N
      BY <1>2
  <2>9. Joinable(ss, n + 1)
      BY <2>7 DEF Joinable
  <2>10. QED
      BY <2>8, <2>9
<1>3. N \in good
  <2> HIDE DEF good
  <2>1. \A n \in 0 .. N : n \in good
      BY <1>1, <1>2, UpTo
  <2>2. QED
      BY <2>1
<1>4. QED
    BY <1>3 DEF Joinable

LEMMA JoinsUnique ==
    ASSUME NEW ss, NEW ts, NEW N \in Nat, NEW M \in Nat, N <= M,
           NEW f, Joins(f, ss, N), NEW g, Joins(g, ts, M),
           \A i \in 1 .. N : ss[i] = ts[i]
    PROVE  \A i \in 1 .. N : f[i] = g[i]
<1> DEFINE good == {n \in 0 .. N : n = 0 \/ f[n] = g[n]}
<1>1. 0 \in good
    OBVIOUS
<1>2. ASSUME NEW n \in 0 .. N, n \in good, n + 1 <= N PROVE n + 1 \in good
  <2>1. n + 1 \in 1 .. N /\ n + 1 \in 1 .. M
      BY <1>2
  <2>2. /\ f[n + 1] = IF n + 1 = 1 THEN ss[n + 1] ELSE f[n + 1 - 1] \o ss[n + 1]
        /\ g[n + 1] = IF n + 1 = 1 THEN ts[n + 1] ELSE g[n + 1 - 1] \o ts[n + 1]
      BY <2>1, JoinsLine
  <2>3. n + 1 - 1 = n /\ (n + 1 = 1 <=> n = 0) /\ ss[n + 1] = ts[n + 1]
      BY <2>1
  <2>4. f[n + 1] = g[n + 1]
      BY <1>2, <2>2, <2>3
  <2>5. QED
      BY <2>1, <2>4
<1>3. \A n \in 0 .. N : n \in good
  <2> HIDE DEF good
  <2>1. QED
      BY <1>1, <1>2, UpTo
<1>4. QED
    BY <1>3

LEMMA FlattenJoins ==
    ASSUME NEW S, NEW ss \in Seq(S)
    PROVE  \E f : /\ Joins(f, ss, Len(ss))
                  /\ FlattenSeq(ss) = IF Len(ss) = 0 THEN <<>> ELSE f[Len(ss)]
<1> DEFINE f == CHOOSE f : f = [i \in 1 .. Len(ss) |-> IF i = 1 THEN ss[i] ELSE f[i - 1] \o ss[i]]
<1>1. f = CHOOSE g : Joins(g, ss, Len(ss))
    BY DEF Joins
<1>2. FlattenSeq(ss) = IF Len(ss) = 0 THEN ss ELSE f[Len(ss)]
    BY DEF FlattenSeq
<1> HIDE DEF f
<1>3. Joins(f, ss, Len(ss))
    BY <1>1, JoinsExists, LenProperties
<1>4. Len(ss) = 0 => ss = <<>>
    BY EmptySeq
<1>5. QED
    BY <1>2, <1>3, <1>4

LEMMA FlattenIs ==
    ASSUME NEW S, NEW ss \in Seq(S), NEW f, Joins(f, ss, Len(ss))
    PROVE  FlattenSeq(ss) = IF Len(ss) = 0 THEN <<>> ELSE f[Len(ss)]
<1>1. PICK g : /\ Joins(g, ss, Len(ss))
               /\ FlattenSeq(ss) = IF Len(ss) = 0 THEN <<>> ELSE g[Len(ss)]
    BY FlattenJoins
<1>2. Len(ss) \in Nat /\ Len(ss) <= Len(ss)
    BY LenProperties
<1>3. \A i \in 1 .. Len(ss) : f[i] = g[i]
    BY <1>1, <1>2, JoinsUnique
<1>4. QED
    BY <1>1, <1>2, <1>3

LEMMA FlattenEmpty ==
    FlattenSeq(<<>>) = <<>>
BY DEF FlattenSeq

LEMMA FlattenLonger ==
    ASSUME NEW S, NEW ss \in Seq(S), NEW longer \in Seq(S), NEW n \in Nat,
           Len(ss) = n, Len(longer) = n + 1, \A i \in 1 .. n : ss[i] = longer[i]
    PROVE  FlattenSeq(longer) =
             IF n = 0 THEN longer[n + 1] ELSE FlattenSeq(ss) \o longer[n + 1]
<1>1. n + 1 \in Nat /\ n + 1 \in 1 .. n + 1 /\ n <= n + 1 /\ n + 1 # 0
    OBVIOUS
<1>2. PICK g : Joins(g, ss, n)
    BY JoinsExists
<1>3. PICK f : Joins(f, longer, n + 1)
    BY <1>1, JoinsExists
<1>4. FlattenSeq(longer) = f[n + 1]
    BY <1>1, <1>3, FlattenIs
<1>5. FlattenSeq(ss) = IF n = 0 THEN <<>> ELSE g[n]
    BY <1>2, FlattenIs
<1>6. \A i \in 1 .. n : g[i] = f[i]
    BY <1>1, <1>2, <1>3, JoinsUnique
<1>7. f[n + 1] = IF n + 1 = 1 THEN longer[n + 1] ELSE f[n + 1 - 1] \o longer[n + 1]
    BY <1>1, <1>3, JoinsLine
<1>8. n + 1 - 1 = n /\ (n + 1 = 1 <=> n = 0) /\ (n # 0 => n \in 1 .. n)
    OBVIOUS
<1>9. f[n + 1] = IF n = 0 THEN longer[n + 1] ELSE f[n] \o longer[n + 1]
    BY <1>7, <1>8
<1>10. n # 0 => g[n] = f[n]
    BY <1>6, <1>8
<1>11. QED
    BY <1>4, <1>5, <1>9, <1>10

LEMMA FlattenAppend ==
    ASSUME NEW S, NEW ss \in Seq(Seq(S)), NEW s \in Seq(S)
    PROVE  FlattenSeq(Append(ss, s)) = FlattenSeq(ss) \o s
<1>1. PICK n : n = Len(ss)
    OBVIOUS
<1>2. PICK longer : longer = Append(ss, s)
    OBVIOUS
<1>3. /\ longer \in Seq(Seq(S)) /\ Len(longer) = n + 1 /\ n \in Nat
      /\ longer[n + 1] = s /\ \A i \in 1 .. n : ss[i] = longer[i]
    BY <1>1, <1>2, AppendProperties, LenProperties
<1>4. FlattenSeq(longer) = IF n = 0 THEN s ELSE FlattenSeq(ss) \o s
    BY <1>1, <1>3, FlattenLonger
<1>5. n = 0 => FlattenSeq(ss) = <<>>
    BY <1>1, EmptySeq, FlattenEmpty
<1>6. <<>> \o s = s
    OBVIOUS
<1>7. QED
    BY <1>2, <1>4, <1>5, <1>6

(* Every place of the flattened sequence is a column of a row, every column  *)
(* has its place, and the places run along the rows, one row after another.  *)
Laid(t, ss, n, row, col) ==
    /\ \A p \in 1 .. Len(t) :
          row[p] \in 1 .. n /\ col[p] \in 1 .. Len(ss[row[p]]) /\ t[p] = ss[row[p]][col[p]]
    /\ \A i \in 1 .. n : \A j \in 1 .. Len(ss[i]) :
          \E p \in 1 .. Len(t) : row[p] = i /\ col[p] = j
    /\ \A p, q \in 1 .. Len(t) :
          p < q => row[p] < row[q] \/ (row[p] = row[q] /\ col[p] < col[q])

Laying(t, ss, n) == \E row, col : Laid(t, ss, n, row, col)

LEMMA LaidFurther ==
    ASSUME NEW S, NEW t \in Seq(S), NEW ss \in Seq(Seq(S)), NEW n \in Nat,
           n + 1 \in 1 .. Len(ss), Laying(t, ss, n)
    PROVE  t \o ss[n + 1] \in Seq(S) /\ Laying(t \o ss[n + 1], ss, n + 1)
<1> DEFINE s == ss[n + 1]
           u == t \o s
<1>1. PICK row, col : Laid(t, ss, n, row, col)
    BY DEF Laying
<1>2. s \in Seq(S)
    BY ElementOfSeq
<1>3. /\ u \in Seq(S) /\ Len(u) = Len(t) + Len(s) /\ Len(t) \in Nat /\ Len(s) \in Nat
      /\ \A p \in 1 .. Len(u) : u[p] = IF p <= Len(t) THEN t[p] ELSE s[p - Len(t)]
    BY <1>2, ConcatProperties, LenProperties
<1>4. s = ss[n + 1]
    OBVIOUS
<1> HIDE DEF s, u
<1> DEFINE r == [p \in 1 .. Len(u) |-> IF p <= Len(t) THEN row[p] ELSE n + 1]
           c == [p \in 1 .. Len(u) |-> IF p <= Len(t) THEN col[p] ELSE p - Len(t)]
<1>5. \A p \in 1 .. Len(u) :
         /\ p \in 1 .. Len(t) => r[p] = row[p] /\ c[p] = col[p] /\ u[p] = t[p]
         /\ p \notin 1 .. Len(t) => r[p] = n + 1 /\ c[p] = p - Len(t) /\ u[p] = s[p - Len(t)]
    BY <1>3
<1>6. \A p \in 1 .. Len(t) : p \in 1 .. Len(u)
    BY <1>3
<1>7. \A p \in 1 .. Len(u) : p \notin 1 .. Len(t) => p - Len(t) \in 1 .. Len(s)
    BY <1>3
<1> HIDE DEF r, c
<1>8. /\ \A p \in 1 .. Len(t) :
            row[p] \in 1 .. n /\ col[p] \in 1 .. Len(ss[row[p]]) /\ t[p] = ss[row[p]][col[p]]
      /\ \A i \in 1 .. n : \A j \in 1 .. Len(ss[i]) :
            \E p \in 1 .. Len(t) : row[p] = i /\ col[p] = j
      /\ \A p, q \in 1 .. Len(t) :
            p < q => row[p] < row[q] \/ (row[p] = row[q] /\ col[p] < col[q])
    BY <1>1 DEF Laid
<1>9. ASSUME NEW p \in 1 .. Len(u)
      PROVE  r[p] \in 1 .. n + 1 /\ c[p] \in 1 .. Len(ss[r[p]]) /\ u[p] = ss[r[p]][c[p]]
  <2>1. CASE p \in 1 .. Len(t)
    <3>1. r[p] = row[p] /\ c[p] = col[p] /\ u[p] = t[p]
        BY <1>5, <2>1
    <3>2. row[p] \in 1 .. n /\ row[p] \in 1 .. n + 1
        BY <1>8, <2>1
    <3>3. QED
        BY <1>8, <2>1, <3>1, <3>2
  <2>2. CASE p \notin 1 .. Len(t)
    <3>1. r[p] = n + 1 /\ c[p] = p - Len(t) /\ u[p] = s[p - Len(t)]
        BY <1>5, <2>2
    <3>2. n + 1 \in 1 .. n + 1
        OBVIOUS
    <3>3. QED
        BY <1>4, <1>7, <2>2, <3>1, <3>2
  <2>3. QED
      BY <2>1, <2>2
<1>10. ASSUME NEW i \in 1 .. n + 1, NEW j \in 1 .. Len(ss[i])
      PROVE  \E p \in 1 .. Len(u) : r[p] = i /\ c[p] = j
  <2>1. CASE i \in 1 .. n
    <3>1. PICK p \in 1 .. Len(t) : row[p] = i /\ col[p] = j
      <4>1. \A k \in 1 .. Len(ss[i]) : \E p \in 1 .. Len(t) : row[p] = i /\ col[p] = k
          BY <1>8, <2>1
      <4>2. QED
          BY <1>10, <4>1
    <3>2. p \in 1 .. Len(u) /\ r[p] = i /\ c[p] = j
        BY <1>5, <1>6, <3>1
    <3>3. QED
        BY <3>2
  <2>2. CASE i \notin 1 .. n
    <3>1. i = n + 1 /\ j \in 1 .. Len(s)
      <4>1. i = n + 1
          BY <2>2
      <4>2. QED
          BY <1>4, <4>1
    <3>2. /\ Len(t) + j \in 1 .. Len(u) /\ Len(t) + j \notin 1 .. Len(t)
          /\ (Len(t) + j) - Len(t) = j
        BY <1>3, <3>1
    <3>3. r[Len(t) + j] = i /\ c[Len(t) + j] = j
        BY <1>5, <3>1, <3>2
    <3>4. QED
        BY <3>2, <3>3
  <2>3. QED
      BY <2>1, <2>2
<1>11. ASSUME NEW p \in 1 .. Len(u), NEW q \in 1 .. Len(u), p < q
       PROVE  r[p] < r[q] \/ (r[p] = r[q] /\ c[p] < c[q])
  <2>1. CASE q \in 1 .. Len(t)
    <3>1. p \in 1 .. Len(t)
        BY <1>11, <2>1
    <3>2. r[p] = row[p] /\ c[p] = col[p] /\ r[q] = row[q] /\ c[q] = col[q]
        BY <1>5, <2>1, <3>1
    <3>3. QED
        BY <1>8, <1>11, <2>1, <3>1, <3>2
  <2>2. CASE q \notin 1 .. Len(t) /\ p \in 1 .. Len(t)
    <3>1. r[p] = row[p] /\ r[q] = n + 1 /\ row[p] \in 1 .. n
        BY <1>5, <1>8, <2>2
    <3>2. QED
        BY <3>1
  <2>3. CASE q \notin 1 .. Len(t) /\ p \notin 1 .. Len(t)
    <3>1. r[p] = n + 1 /\ r[q] = n + 1 /\ c[p] = p - Len(t) /\ c[q] = q - Len(t)
        BY <1>5, <2>3
    <3>2. p - Len(t) < q - Len(t)
        BY <1>3, <1>11
    <3>3. QED
        BY <3>1, <3>2
  <2>4. QED
      BY <2>1, <2>2, <2>3
<1>12. Laid(u, ss, n + 1, r, c)
    BY <1>9, <1>10, <1>11 DEF Laid
<1>13. Laying(u, ss, n + 1)
    BY <1>12 DEF Laying
<1>14. QED
    BY <1>3, <1>13 DEF u, s

LEMMA FlattenLaid ==
    ASSUME NEW S, NEW ss \in Seq(Seq(S))
    PROVE  /\ FlattenSeq(ss) \in Seq(S)
           /\ \E row, col : Laid(FlattenSeq(ss), ss, Len(ss), row, col)
<1>1. PICK f : /\ Joins(f, ss, Len(ss))
               /\ FlattenSeq(ss) = IF Len(ss) = 0 THEN <<>> ELSE f[Len(ss)]
    BY FlattenJoins
<1> DEFINE N == Len(ss)
           upto(n) == IF n = 0 THEN <<>> ELSE f[n]
           good == {n \in 0 .. N : upto(n) \in Seq(S) /\ Laying(upto(n), ss, n)}
<1>2. N \in Nat
    BY LenProperties
<1>3. 0 \in good
  <2>1. Laid(<<>>, ss, 0, <<>>, <<>>)
      BY DEF Laid
  <2>2. Laying(<<>>, ss, 0)
      BY <2>1 DEF Laying
  <2>3. <<>> \in Seq(S)
      OBVIOUS
  <2>4. upto(0) = <<>> /\ 0 \in 0 .. N
      BY <1>2
  <2>5. QED
      BY <2>2, <2>3, <2>4
<1>4. ASSUME NEW n \in 0 .. N, n \in good, n + 1 <= N PROVE n + 1 \in good
  <2>1. n \in Nat /\ n + 1 \in 1 .. Len(ss) /\ n + 1 \in 0 .. N
      BY <1>2, <1>4
  <2>2. upto(n) \in Seq(S) /\ Laying(upto(n), ss, n)
      BY <1>4
  <2>3. upto(n + 1) = upto(n) \o ss[n + 1]
    <3>1. f[n + 1] = IF n + 1 = 1 THEN ss[n + 1] ELSE f[n + 1 - 1] \o ss[n + 1]
        BY <1>1, <1>2, <2>1, JoinsLine
    <3>2. ss[n + 1] \in Seq(S)
        BY <2>1, ElementOfSeq
    <3>3. <<>> \o ss[n + 1] = ss[n + 1]
        BY <3>2
    <3>4. n + 1 - 1 = n /\ (n + 1 = 1 <=> n = 0) /\ n + 1 # 0
        BY <2>1
    <3>5. QED
        BY <3>1, <3>3, <3>4
  <2> HIDE DEF upto
  <2>4. upto(n + 1) \in Seq(S) /\ Laying(upto(n + 1), ss, n + 1)
      BY <2>1, <2>2, <2>3, LaidFurther
  <2>5. QED
      BY <2>1, <2>4
<1> HIDE DEF good
<1>5. \A n \in 0 .. N : n \in good
    BY <1>2, <1>3, <1>4, UpTo
<1>6. N \in good
    BY <1>2, <1>5
<1>7. upto(N) \in Seq(S) /\ Laying(upto(N), ss, N)
    BY <1>6 DEF good
<1>8. FlattenSeq(ss) = upto(N)
    BY <1>1
<1>9. QED
    BY <1>7, <1>8 DEF Laying

-----------------------------------------------------------------------------
(* The letters a piece holds, and the pieces that hold theirs in the order   *)
(* of the text.                                                              *)
Held(s, L) == {s[j] : j \in 1 .. Len(s)} \cap L

Rising(s, L) ==
    \A j, k \in 1 .. Len(s) : j < k /\ s[j] \in L /\ s[k] \in L => s[j] < s[k]

AllHeld(ps, L) == UNION {Held(ps[i], L) : i \in 1 .. Len(ps)}

InOrder(ps, L) ==
    /\ \A i \in 1 .. Len(ps) : Rising(ps[i], L)
    /\ \A i, k \in 1 .. Len(ps) :
          i < k => \A a \in Held(ps[i], L), b \in Held(ps[k], L) : a < b

Piece == Seq(Nat)

LEMMA HeldAt ==
    ASSUME NEW s, NEW L, NEW a
    PROVE  a \in Held(s, L) <=> a \in L /\ \E j \in 1 .. Len(s) : s[j] = a
BY DEF Held

LEMMA HeldIsNat ==
    ASSUME NEW s \in Piece, NEW L, NEW a \in Held(s, L)
    PROVE  a \in Nat
<1>1. PICK j \in 1 .. Len(s) : s[j] = a
    BY HeldAt
<1>2. QED
    BY <1>1, ElementOfSeq DEF Piece

LEMMA AllHeldAt ==
    ASSUME NEW ps, NEW L, NEW a
    PROVE  a \in AllHeld(ps, L) <=> \E i \in 1 .. Len(ps) : a \in Held(ps[i], L)
BY DEF AllHeld

(* Joining pieces that are in order.                                         *)
LEMMA JoinedRises ==
    ASSUME NEW L, NEW ps \in Seq(Piece), InOrder(ps, L)
    PROVE  /\ Joined(ps) \in Piece
           /\ Rising(Joined(ps), L)
           /\ Held(Joined(ps), L) = AllHeld(ps, L)
<1>1. PICK t : t = Joined(ps)
    OBVIOUS
<1>2. t \in Piece /\ \E row, col : Laid(t, ps, Len(ps), row, col)
    BY <1>1, FlattenLaid DEF Joined, Piece
<1>3. PICK row, col : Laid(t, ps, Len(ps), row, col)
    BY <1>2
<1>4. /\ \A p \in 1 .. Len(t) : /\ row[p] \in 1 .. Len(ps)
                                /\ col[p] \in 1 .. Len(ps[row[p]])
                                /\ t[p] = ps[row[p]][col[p]]
      /\ \A i \in 1 .. Len(ps) : \A j \in 1 .. Len(ps[i]) :
            \E p \in 1 .. Len(t) : row[p] = i /\ col[p] = j
      /\ \A p, q \in 1 .. Len(t) :
            p < q => row[p] < row[q] \/ (row[p] = row[q] /\ col[p] < col[q])
    BY <1>3 DEF Laid
<1>5. ASSUME NEW p \in 1 .. Len(t), t[p] \in L
      PROVE  t[p] \in Held(ps[row[p]], L)
    BY <1>4, <1>5, HeldAt
<1>6. ASSUME NEW p \in 1 .. Len(t), NEW q \in 1 .. Len(t), p < q, t[p] \in L, t[q] \in L
      PROVE  t[p] < t[q]
  <2>1. t[p] \in Held(ps[row[p]], L) /\ t[q] \in Held(ps[row[q]], L)
      BY <1>5, <1>6
  <2>2. row[p] \in 1 .. Len(ps) /\ row[q] \in 1 .. Len(ps)
      BY <1>4
  <2>3. CASE row[p] < row[q]
      BY <2>1, <2>2, <2>3 DEF InOrder
  <2>4. CASE row[p] = row[q] /\ col[p] < col[q]
    <3>1. Rising(ps[row[p]], L)
        BY <2>2 DEF InOrder
    <3>2. /\ col[p] \in 1 .. Len(ps[row[p]]) /\ t[p] = ps[row[p]][col[p]]
          /\ col[q] \in 1 .. Len(ps[row[p]]) /\ t[q] = ps[row[p]][col[q]]
        BY <1>4, <2>4
    <3>3. QED
        BY <1>6, <2>4, <3>1, <3>2 DEF Rising
  <2>5. QED
      BY <1>4, <1>6, <2>3, <2>4
<1>7. Rising(t, L)
    BY <1>6 DEF Rising
<1>8. ASSUME NEW a \in AllHeld(ps, L) PROVE a \in Held(t, L)
  <2>1. PICK i \in 1 .. Len(ps) : a \in Held(ps[i], L)
      BY AllHeldAt
  <2>2. PICK j \in 1 .. Len(ps[i]) : ps[i][j] = a
      BY <2>1, HeldAt
  <2>3. PICK p \in 1 .. Len(t) : row[p] = i /\ col[p] = j
      BY <1>4
  <2>4. t[p] = a /\ a \in L
      BY <1>4, <2>1, <2>2, <2>3, HeldAt
  <2>5. QED
      BY <2>4, HeldAt
<1>9. ASSUME NEW a \in Held(t, L) PROVE a \in AllHeld(ps, L)
  <2>1. PICK p \in 1 .. Len(t) : t[p] = a /\ a \in L
      BY HeldAt
  <2>2. a \in Held(ps[row[p]], L) /\ row[p] \in 1 .. Len(ps)
      BY <1>4, <1>5, <2>1
  <2>3. QED
      BY <2>2, AllHeldAt
<1>10. QED
    BY <1>1, <1>2, <1>7, <1>8, <1>9

(* Rows of pieces in order, each row before the next, in one row.            *)
LEMMA RowsInOrder ==
    ASSUME NEW L, NEW pss \in Seq(Seq(Piece)),
           \A i \in 1 .. Len(pss) : InOrder(pss[i], L),
           \A i, k \in 1 .. Len(pss) :
              i < k => \A a \in AllHeld(pss[i], L), b \in AllHeld(pss[k], L) : a < b
    PROVE  /\ FlattenSeq(pss) \in Seq(Piece)
           /\ InOrder(FlattenSeq(pss), L)
           /\ \A a : a \in AllHeld(FlattenSeq(pss), L)
                       <=> \E i \in 1 .. Len(pss) : a \in AllHeld(pss[i], L)
<1>1. PICK t : t = FlattenSeq(pss)
    OBVIOUS
<1>2. t \in Seq(Piece) /\ \E row, col : Laid(t, pss, Len(pss), row, col)
    BY <1>1, FlattenLaid
<1>3. PICK row, col : Laid(t, pss, Len(pss), row, col)
    BY <1>2
<1>4. /\ \A p \in 1 .. Len(t) : /\ row[p] \in 1 .. Len(pss)
                                /\ col[p] \in 1 .. Len(pss[row[p]])
                                /\ t[p] = pss[row[p]][col[p]]
      /\ \A i \in 1 .. Len(pss) : \A j \in 1 .. Len(pss[i]) :
            \E p \in 1 .. Len(t) : row[p] = i /\ col[p] = j
      /\ \A p, q \in 1 .. Len(t) :
            p < q => row[p] < row[q] \/ (row[p] = row[q] /\ col[p] < col[q])
    BY <1>3 DEF Laid
<1>5. ASSUME NEW p \in 1 .. Len(t), NEW a \in Held(t[p], L)
      PROVE  a \in AllHeld(pss[row[p]], L)
  <2>1. row[p] \in 1 .. Len(pss) /\ col[p] \in 1 .. Len(pss[row[p]])
      BY <1>4
  <2>2. a \in Held(pss[row[p]][col[p]], L)
      BY <1>4, <1>5
  <2>3. QED
      BY <2>1, <2>2, AllHeldAt
<1>6. ASSUME NEW p \in 1 .. Len(t) PROVE Rising(t[p], L)
  <2>1. row[p] \in 1 .. Len(pss) /\ col[p] \in 1 .. Len(pss[row[p]]) /\ t[p] = pss[row[p]][col[p]]
      BY <1>4
  <2>2. InOrder(pss[row[p]], L)
      BY <2>1
  <2>3. QED
      BY <2>1, <2>2 DEF InOrder
<1>7. ASSUME NEW p \in 1 .. Len(t), NEW q \in 1 .. Len(t), p < q,
             NEW a \in Held(t[p], L), NEW b \in Held(t[q], L)
      PROVE  a < b
  <2>1. a \in AllHeld(pss[row[p]], L) /\ b \in AllHeld(pss[row[q]], L)
      BY <1>5
  <2>2. row[p] \in 1 .. Len(pss) /\ row[q] \in 1 .. Len(pss)
      BY <1>4
  <2>3. CASE row[p] < row[q]
      BY <2>1, <2>2, <2>3
  <2>4. CASE row[p] = row[q] /\ col[p] < col[q]
    <3>1. InOrder(pss[row[p]], L)
        BY <2>2
    <3>2. /\ col[p] \in 1 .. Len(pss[row[p]]) /\ t[p] = pss[row[p]][col[p]]
          /\ col[q] \in 1 .. Len(pss[row[p]]) /\ t[q] = pss[row[p]][col[q]]
        BY <1>4, <2>4
    <3>3. a \in Held(pss[row[p]][col[p]], L) /\ b \in Held(pss[row[p]][col[q]], L)
        BY <1>7, <3>2
    <3>4. QED
        BY <2>4, <3>1, <3>2, <3>3 DEF InOrder
  <2>5. QED
      BY <1>4, <1>7, <2>3, <2>4
<1>8. InOrder(t, L)
    BY <1>6, <1>7 DEF InOrder
<1>9. ASSUME NEW i \in 1 .. Len(pss), NEW a \in AllHeld(pss[i], L) PROVE a \in AllHeld(t, L)
  <2>1. PICK j \in 1 .. Len(pss[i]) : a \in Held(pss[i][j], L)
      BY AllHeldAt
  <2>2. PICK p \in 1 .. Len(t) : row[p] = i /\ col[p] = j
    <3>1. \A k \in 1 .. Len(pss) : \A l \in 1 .. Len(pss[k]) :
             \E p \in 1 .. Len(t) : row[p] = k /\ col[p] = l
        BY <1>4
    <3>2. j \in 1 .. Len(pss[i])
        OBVIOUS
    <3>3. QED
        BY <3>1, <3>2, Zenon
  <2>3. t[p] = pss[i][j]
      BY <1>4, <2>2
  <2>4. QED
      BY <2>1, <2>3, AllHeldAt
<1>10. ASSUME NEW a \in AllHeld(t, L)
       PROVE  \E i \in 1 .. Len(pss) : a \in AllHeld(pss[i], L)
  <2>1. PICK p \in 1 .. Len(t) : a \in Held(t[p], L)
      BY AllHeldAt
  <2>2. a \in AllHeld(pss[row[p]], L) /\ row[p] \in 1 .. Len(pss)
      BY <1>4, <1>5, <2>1
  <2>3. QED
      BY <2>2
<1>11. QED
    BY <1>1, <1>2, <1>8, <1>9, <1>10

(* Breaking each piece into pieces that are in order.                        *)
LEMMA BrokenInOrder ==
    ASSUME NEW L, NEW ps \in Seq(Piece), InOrder(ps, L),
           NEW pss \in Seq(Seq(Piece)), Len(pss) = Len(ps),
           \A i \in 1 .. Len(ps) : InOrder(pss[i], L) /\ AllHeld(pss[i], L) = Held(ps[i], L)
    PROVE  /\ FlattenSeq(pss) \in Seq(Piece)
           /\ InOrder(FlattenSeq(pss), L)
           /\ AllHeld(FlattenSeq(pss), L) = AllHeld(ps, L)
<1>1. PICK t : t = FlattenSeq(pss)
    OBVIOUS
<1>2. \A i, k \in 1 .. Len(pss) :
         i < k => \A a \in AllHeld(pss[i], L), b \in AllHeld(pss[k], L) : a < b
    BY DEF InOrder
<1>3. /\ t \in Seq(Piece) /\ InOrder(t, L)
      /\ \A a : a \in AllHeld(t, L) <=> \E i \in 1 .. Len(pss) : a \in AllHeld(pss[i], L)
    BY <1>1, <1>2, RowsInOrder
<1>4. \A a : a \in AllHeld(t, L) <=> a \in AllHeld(ps, L)
  <2>1. \A i \in 1 .. Len(pss) : AllHeld(pss[i], L) = Held(ps[i], L)
      OBVIOUS
  <2>2. \A a : a \in AllHeld(t, L) <=> \E i \in 1 .. Len(ps) : a \in Held(ps[i], L)
      BY <1>3, <2>1
  <2>3. QED
      BY <2>2, AllHeldAt
<1>5. QED
    BY <1>1, <1>3, <1>4

(* A row of no piece, and a row of one.                                      *)
LEMMA RowOfNone ==
    ASSUME NEW L
    PROVE  <<>> \in Seq(Piece) /\ InOrder(<<>>, L) /\ AllHeld(<<>>, L) = {}
BY DEF InOrder, AllHeld

LEMMA RowOfOne ==
    ASSUME NEW L, NEW s \in Piece, Rising(s, L)
    PROVE  <<s>> \in Seq(Piece) /\ InOrder(<<s>>, L) /\ AllHeld(<<s>>, L) = Held(s, L)
<1>1. <<s>> \in Seq(Piece) /\ Len(<<s>>) = 1 /\ <<s>>[1] = s
    OBVIOUS
<1>2. \A i \in 1 .. Len(<<s>>) : i = 1
    BY <1>1
<1>3. InOrder(<<s>>, L)
    BY <1>1, <1>2 DEF InOrder
<1>4. \A a : a \in AllHeld(<<s>>, L) <=> a \in Held(s, L)
    BY <1>1, <1>2, AllHeldAt
<1>5. QED
    BY <1>1, <1>3, <1>4

(* A stretch of a piece.                                                     *)
LEMMA StretchOf ==
    ASSUME NEW S, NEW s \in Seq(S), NEW m \in Nat \ {0}, NEW n \in Nat, m <= n + 1, n <= Len(s)
    PROVE  /\ SubSeq(s, m, n) \in Seq(S) /\ Len(SubSeq(s, m, n)) = (n - m) + 1
           /\ \A j \in 1 .. (n - m) + 1 : SubSeq(s, m, n)[j] = s[(m + j) - 1]
           /\ \A k \in m .. n : (k - m) + 1 \in 1 .. (n - m) + 1
                                /\ SubSeq(s, m, n)[(k - m) + 1] = s[k]
<1>1. PICK t : t = SubSeq(s, m, n)
    OBVIOUS
<1>2. \A i \in m .. n : s[i] \in S
    BY ElementOfSeq, LenProperties
<1>3. m \in Int /\ n \in Int
    OBVIOUS
<1>4. /\ t \in Seq(S) /\ Len(t) = IF m <= n THEN n - m + 1 ELSE 0
      /\ \A i \in 1 .. n - m + 1 : t[i] = s[m + i - 1]
    BY <1>1, <1>2, <1>3, SubSeqProperties
<1>5. Len(t) = (n - m) + 1
    BY <1>4
<1>6. \A j \in 1 .. (n - m) + 1 : t[j] = s[(m + j) - 1]
    BY <1>4
<1>7. \A k \in m .. n : (k - m) + 1 \in 1 .. (n - m) + 1 /\ (m + ((k - m) + 1)) - 1 = k
    OBVIOUS
<1>8. \A k \in m .. n : t[(k - m) + 1] = s[k]
  <2>1. TAKE k \in m .. n
  <2>2. t[(k - m) + 1] = s[(m + ((k - m) + 1)) - 1]
      BY <1>6, <1>7
  <2>3. QED
      BY <1>7, <2>2
<1>9. QED
    BY <1>1, <1>4, <1>5, <1>6, <1>7, <1>8

LEMMA Stretch ==
    ASSUME NEW s \in Piece, NEW m \in Nat \ {0}, NEW n \in Nat, m <= n + 1, n <= Len(s)
    PROVE  /\ SubSeq(s, m, n) \in Piece /\ Len(SubSeq(s, m, n)) = (n - m) + 1
           /\ \A j \in 1 .. (n - m) + 1 : SubSeq(s, m, n)[j] = s[(m + j) - 1]
           /\ \A k \in m .. n : (k - m) + 1 \in 1 .. (n - m) + 1
                                /\ SubSeq(s, m, n)[(k - m) + 1] = s[k]
BY StretchOf DEF Piece

LEMMA StretchHolds ==
    ASSUME NEW L, NEW s \in Piece, NEW m \in Nat \ {0}, NEW n \in Nat, m <= n + 1, n <= Len(s)
    PROVE  /\ \A a : a \in Held(SubSeq(s, m, n), L) <=> a \in L /\ \E k \in m .. n : s[k] = a
           /\ Rising(s, L) => Rising(SubSeq(s, m, n), L)
<1>1. PICK t : t = SubSeq(s, m, n)
    OBVIOUS
<1>2. /\ Len(t) = (n - m) + 1
      /\ \A j \in 1 .. Len(t) : t[j] = s[(m + j) - 1]
      /\ \A k \in m .. n : (k - m) + 1 \in 1 .. Len(t) /\ t[(k - m) + 1] = s[k]
    BY <1>1, Stretch
<1>3. \A j \in 1 .. Len(t) : (m + j) - 1 \in m .. n /\ (m + j) - 1 \in 1 .. Len(s)
    BY <1>2, LenProperties DEF Piece
<1>4. ASSUME NEW a
      PROVE  a \in Held(t, L) <=> a \in L /\ \E k \in m .. n : s[k] = a
  <2>1. (\E j \in 1 .. Len(t) : t[j] = a) <=> \E k \in m .. n : s[k] = a
      BY <1>2, <1>3
  <2>2. QED
      BY <2>1, HeldAt
<1>5. ASSUME Rising(s, L), NEW j \in 1 .. Len(t), NEW k \in 1 .. Len(t), j < k,
             t[j] \in L, t[k] \in L
      PROVE  t[j] < t[k]
  <2>1. t[j] = s[(m + j) - 1] /\ t[k] = s[(m + k) - 1]
      BY <1>2
  <2>2. (m + j) - 1 < (m + k) - 1
      BY <1>2, <1>5
  <2>3. QED
      BY <1>3, <1>5, <2>1, <2>2 DEF Rising
<1>6. QED
    BY <1>1, <1>4, <1>5 DEF Rising

(* The parts between two separators hold the letters of the piece.           *)
LEMMA PartsInOrder ==
    ASSUME NEW L, \A a \in L : Kind(a) = "letter",
           NEW piece \in Piece, Rising(piece, L), NEW head, head # "letter"
    PROVE  /\ Parts(piece, head) \in Seq(Piece)
           /\ InOrder(Parts(piece, head), L)
           /\ AllHeld(Parts(piece, head), L) = Held(piece, L)
<1> DEFINE inside(i) == i \in DOMAIN piece /\ Kind(piece[i]) # head
           first(i) == inside(i) /\ ~inside(i - 1)
           last(i) == Min({j \in i .. Len(piece) : ~inside(j + 1)})
           part(i) == SubSeq(piece, i, last(i))
           candidate(i) ==
               IF head \in White THEN part(i)
               ELSE Append(part(i), IF last(i) < Len(piece) THEN piece[last(i) + 1] ELSE Invented)
           row(i) == IF first(i) THEN <<candidate(i)>> ELSE <<>>
           rows == [i \in DOMAIN piece |-> row(i)]
<1>1. Parts(piece, head) = FlattenSeq(rows)
    BY DEF Parts
<1>2. /\ DOMAIN piece = 1 .. Len(piece) /\ Len(piece) \in Nat
      /\ \A i \in 1 .. Len(piece) : piece[i] \in Nat
    BY LenProperties, ElementOfSeq DEF Piece
<1>3. ASSUME NEW i \in 1 .. Len(piece)
      PROVE  /\ last(i) \in i .. Len(piece) /\ ~inside(last(i) + 1)
             /\ \A j \in i .. Len(piece) : j < last(i) => inside(j + 1)
  <2> DEFINE ends == {j \in i .. Len(piece) : ~inside(j + 1)}
  <2>1. Len(piece) \in ends
      BY <1>2
  <2>2. ends \in SUBSET Nat /\ ends # {}
      BY <1>2, <2>1
  <2>3. last(i) = Min(ends)
      OBVIOUS
  <2> HIDE DEF last
  <2>4. last(i) \in ends /\ \A j \in ends : last(i) <= j
      BY <2>2, <2>3, LeastNat
  <2>5. last(i) \in i .. Len(piece) /\ ~inside(last(i) + 1)
      BY <2>4
  <2>6. ASSUME NEW j \in i .. Len(piece), j < last(i) PROVE inside(j + 1)
    <3>1. j \notin ends
        BY <1>2, <2>4, <2>5, <2>6
    <3> HIDE DEF inside
    <3>2. QED
        BY <3>1
  <2>7. QED
      BY <2>5, <2>6
<1>4. \A i : inside(i) => i \in 1 .. Len(piece)
    BY <1>2
<1>5. \A i \in 1 .. Len(piece) : piece[i] \in L => inside(i)
    BY <1>2
<1>6. \A i \in 1 .. Len(piece) : ~inside(i) => piece[i] \notin L
    BY <1>5
<1>7. Invented \in Nat /\ Invented \notin L
    BY DEF Invented, Kind
<1> HIDE DEF inside, last
<1>9. ASSUME NEW i \in 1 .. Len(piece), first(i)
      PROVE  /\ candidate(i) \in Piece
             /\ \A j \in 1 .. Len(candidate(i)) : candidate(i)[j] \in L =>
                   (i + j) - 1 \in i .. last(i) /\ candidate(i)[j] = piece[(i + j) - 1]
             /\ \A m \in i .. last(i) :
                   (m - i) + 1 \in 1 .. Len(candidate(i)) /\ candidate(i)[(m - i) + 1] = piece[m]
  <2>1. /\ part(i) \in Piece /\ Len(part(i)) = (last(i) - i) + 1
        /\ \A j \in 1 .. Len(part(i)) : part(i)[j] = piece[(i + j) - 1]
    <3>1. i \in Nat \ {0} /\ last(i) \in Nat /\ i <= last(i) + 1 /\ last(i) <= Len(piece)
        BY <1>2, <1>3
    <3>2. QED
        BY <3>1, Stretch
  <2> HIDE DEF part
  <2>2. CASE head \in White
    <3>1. candidate(i) = part(i)
        BY <2>2
    <3> HIDE DEF candidate
    <3>2. ASSUME NEW j \in 1 .. Len(part(i))
          PROVE  (i + j) - 1 \in i .. last(i) /\ candidate(i)[j] = piece[(i + j) - 1]
        BY <1>3, <2>1, <3>1
    <3>3. ASSUME NEW m \in i .. last(i)
          PROVE  (m - i) + 1 \in 1 .. Len(part(i)) /\ candidate(i)[(m - i) + 1] = piece[m]
      <4>1. (m - i) + 1 \in 1 .. Len(part(i)) /\ (i + ((m - i) + 1)) - 1 = m
          BY <1>3, <2>1
      <4>2. QED
          BY <2>1, <3>1, <4>1
    <3>4. QED
        BY <2>1, <3>1, <3>2, <3>3
  <2>3. CASE head \notin White
    <3>1. PICK x : x = IF last(i) < Len(piece) THEN piece[last(i) + 1] ELSE Invented
        OBVIOUS
    <3>2. candidate(i) = Append(part(i), x)
        BY <2>3, <3>1
    <3>3. x \in Nat /\ x \notin L
        BY <1>2, <1>3, <1>6, <1>7, <3>1
    <3> HIDE DEF candidate
    <3>4. /\ candidate(i) \in Piece /\ Len(candidate(i)) = Len(part(i)) + 1
          /\ candidate(i)[Len(part(i)) + 1] = x
          /\ \A j \in 1 .. Len(part(i)) : candidate(i)[j] = part(i)[j]
        BY <2>1, <3>2, <3>3, AppendProperties DEF Piece
    <3>5. ASSUME NEW j \in 1 .. Len(candidate(i)), candidate(i)[j] \in L
          PROVE  (i + j) - 1 \in i .. last(i) /\ candidate(i)[j] = piece[(i + j) - 1]
      <4>1. j \in 1 .. Len(part(i))
          BY <1>3, <2>1, <3>3, <3>4, <3>5
      <4>2. QED
          BY <1>3, <2>1, <3>4, <4>1
    <3>6. ASSUME NEW m \in i .. last(i)
          PROVE  (m - i) + 1 \in 1 .. Len(candidate(i)) /\ candidate(i)[(m - i) + 1] = piece[m]
      <4>1. (m - i) + 1 \in 1 .. Len(part(i)) /\ (i + ((m - i) + 1)) - 1 = m
          BY <1>3, <2>1
      <4>2. QED
          BY <1>3, <2>1, <3>4, <4>1
    <3>7. QED
        BY <3>4, <3>5, <3>6
  <2>4. QED
      BY <2>2, <2>3
<1> HIDE DEF candidate
<1>10. ASSUME NEW i \in 1 .. Len(piece), first(i) PROVE Rising(candidate(i), L)
  <2>1. ASSUME NEW j \in 1 .. Len(candidate(i)), NEW k \in 1 .. Len(candidate(i)), j < k,
               candidate(i)[j] \in L, candidate(i)[k] \in L
        PROVE  candidate(i)[j] < candidate(i)[k]
    <3>1. /\ (i + j) - 1 \in i .. last(i) /\ candidate(i)[j] = piece[(i + j) - 1]
          /\ (i + k) - 1 \in i .. last(i) /\ candidate(i)[k] = piece[(i + k) - 1]
        BY <1>9, <1>10, <2>1
    <3>2. /\ (i + j) - 1 \in 1 .. Len(piece) /\ (i + k) - 1 \in 1 .. Len(piece)
          /\ (i + j) - 1 < (i + k) - 1
        BY <1>2, <1>3, <2>1, <3>1
    <3>3. QED
        BY <2>1, <3>1, <3>2 DEF Rising
  <2>2. QED
      BY <2>1 DEF Rising
<1>11. ASSUME NEW i \in 1 .. Len(piece), first(i), NEW a \in Held(candidate(i), L)
       PROVE  a \in L /\ \E m \in i .. last(i) : piece[m] = a
  <2>1. PICK j \in 1 .. Len(candidate(i)) : candidate(i)[j] = a /\ a \in L
      BY HeldAt
  <2>2. QED
      BY <1>9, <1>11, <2>1
<1>12. ASSUME NEW i \in 1 .. Len(piece), NEW k \in 1 .. Len(piece), first(i), first(k), i < k
       PROVE  last(i) < k
  <2>1. SUFFICES ASSUME k <= last(i) PROVE FALSE
      BY <1>2, <1>3
  <2>2. ~inside(k - 1) /\ inside(i)
      BY <1>12
  <2>3. k - 1 # i
      BY <2>2
  <2>4. k - 2 \in i .. Len(piece) /\ k - 2 < last(i) /\ (k - 2) + 1 = k - 1
      BY <1>2, <1>3, <1>12, <2>1, <2>3
  <2>5. inside(k - 1)
      BY <1>3, <2>4
  <2>6. QED
      BY <2>2, <2>5
<1>13. ASSUME NEW m \in 1 .. Len(piece), piece[m] \in L
       PROVE  \E i \in 1 .. Len(piece) : first(i) /\ m \in i .. last(i)
  <2> DEFINE starts == {i \in 1 .. m : \A n \in i .. m : inside(n)}
             i == Min(starts)
  <2>1. inside(m)
      BY <1>5, <1>13
  <2>2. m \in starts
      BY <2>1
  <2>3. starts \in SUBSET Nat /\ starts # {}
      BY <2>2
  <2>4. i \in starts /\ \A n \in starts : i <= n
      BY <2>3, LeastNat
  <2> HIDE DEF i
  <2>5. i \in 1 .. m /\ \A n \in i .. m : inside(n)
      BY <2>4
  <2>6. ~inside(i - 1)
    <3>1. SUFFICES ASSUME inside(i - 1) PROVE FALSE
        OBVIOUS
    <3>2. i - 1 \in 1 .. m
        BY <1>2, <1>4, <2>5, <3>1
    <3>3. \A n \in i - 1 .. m : n = i - 1 \/ n \in i .. m
        BY <2>5
    <3>4. i - 1 \in starts
        BY <2>5, <3>1, <3>2, <3>3
    <3>5. i <= i - 1
        BY <2>4, <3>4
    <3>6. QED
        BY <2>5, <3>5
  <2>7. i \in 1 .. Len(piece) /\ inside(i)
      BY <1>2, <2>5
  <2>8. m <= last(i)
    <3>1. SUFFICES ASSUME last(i) < m PROVE FALSE
        BY <1>2, <1>3, <2>7
    <3>2. last(i) + 1 \in i .. m
        BY <1>2, <1>3, <2>7, <3>1
    <3>3. QED
        BY <1>3, <2>5, <2>7, <3>2
  <2>9. QED
      BY <2>5, <2>6, <2>7, <2>8
<1>14. ASSUME NEW i \in 1 .. Len(piece), first(i)
       PROVE  /\ row(i) = <<candidate(i)>> /\ row(i) \in Seq(Piece) /\ InOrder(row(i), L)
              /\ AllHeld(row(i), L) = Held(candidate(i), L)
  <2>1. row(i) = <<candidate(i)>>
      BY <1>14
  <2>2. QED
      BY <1>9, <1>10, <1>14, <2>1, RowOfOne
<1>15. ASSUME NEW i \in 1 .. Len(piece), ~first(i)
       PROVE  row(i) \in Seq(Piece) /\ InOrder(row(i), L) /\ AllHeld(row(i), L) = {}
  <2>1. row(i) = <<>>
      BY <1>15
  <2>2. QED
      BY <2>1, RowOfNone
<1> HIDE DEF row
<1>16. /\ rows \in Seq(Seq(Piece)) /\ Len(rows) = Len(piece)
       /\ \A i \in 1 .. Len(piece) : rows[i] = row(i)
  <2>1. \A i \in 1 .. Len(piece) : row(i) \in Seq(Piece)
      BY <1>14, <1>15
  <2>2. rows = [i \in 1 .. Len(piece) |-> row(i)]
      BY <1>2
  <2> HIDE DEF rows
  <2>3. QED
      BY <1>2, <2>1, <2>2, IsASeq, LenProperties
<1> HIDE DEF rows
<1>17. \A i \in 1 .. Len(rows) : InOrder(rows[i], L)
    BY <1>14, <1>15, <1>16
<1>18. ASSUME NEW i \in 1 .. Len(rows), NEW k \in 1 .. Len(rows), i < k,
              NEW a \in AllHeld(rows[i], L), NEW b \in AllHeld(rows[k], L)
       PROVE  a < b
  <2>1. i \in 1 .. Len(piece) /\ k \in 1 .. Len(piece) /\ rows[i] = row(i) /\ rows[k] = row(k)
      BY <1>16
  <2>2. first(i) /\ first(k)
      BY <1>15, <1>18, <2>1
  <2>3. a \in Held(candidate(i), L) /\ b \in Held(candidate(k), L)
      BY <1>14, <1>18, <2>1, <2>2
  <2>4. PICK m \in i .. last(i) : piece[m] = a /\ a \in L
      BY <1>11, <2>1, <2>2, <2>3
  <2>5. PICK n \in k .. last(k) : piece[n] = b /\ b \in L
      BY <1>11, <2>1, <2>2, <2>3
  <2>6. last(i) < k /\ last(i) \in i .. Len(piece) /\ last(k) \in k .. Len(piece)
      BY <1>3, <1>12, <1>18, <2>1, <2>2
  <2>7. m \in 1 .. Len(piece) /\ n \in 1 .. Len(piece) /\ m < n
      BY <1>2, <2>1, <2>4, <2>5, <2>6
  <2>8. QED
      BY <2>4, <2>5, <2>7 DEF Rising
<1>19. /\ FlattenSeq(rows) \in Seq(Piece) /\ InOrder(FlattenSeq(rows), L)
       /\ \A a : a \in AllHeld(FlattenSeq(rows), L)
                   <=> \E i \in 1 .. Len(rows) : a \in AllHeld(rows[i], L)
    BY <1>16, <1>17, <1>18, RowsInOrder
<1>20. ASSUME NEW i \in 1 .. Len(rows), NEW a \in AllHeld(rows[i], L) PROVE a \in Held(piece, L)
  <2>1. i \in 1 .. Len(piece) /\ first(i) /\ a \in Held(candidate(i), L)
      BY <1>14, <1>15, <1>16, <1>20
  <2>2. PICK m \in i .. last(i) : piece[m] = a /\ a \in L
      BY <1>11, <2>1
  <2>3. m \in 1 .. Len(piece)
      BY <1>2, <1>3, <2>1, <2>2
  <2>4. QED
      BY <2>2, <2>3, HeldAt
<1>21. ASSUME NEW a \in Held(piece, L)
       PROVE  \E i \in 1 .. Len(rows) : a \in AllHeld(rows[i], L)
  <2>1. PICK m \in 1 .. Len(piece) : piece[m] = a /\ a \in L
      BY HeldAt
  <2>2. PICK i \in 1 .. Len(piece) : first(i) /\ m \in i .. last(i)
      BY <1>13, <2>1
  <2>3. a \in Held(candidate(i), L)
      BY <1>9, <2>1, <2>2, HeldAt
  <2>4. QED
      BY <1>14, <1>16, <2>2, <2>3
<1>22. QED
    BY <1>1, <1>19, <1>20, <1>21

(* Only the pieces too long to fit are broken.                               *)
LEMMA RefinedInOrder ==
    ASSUME NEW L, \A a \in L : Kind(a) = "letter",
           NEW ps \in Seq(Piece), InOrder(ps, L), NEW head, head # "letter"
    PROVE  /\ Refined(ps, head) \in Seq(Piece)
           /\ InOrder(Refined(ps, head), L)
           /\ AllHeld(Refined(ps, head), L) = AllHeld(ps, L)
<1> DEFINE row(i) == IF Fitting(ps[i]) THEN <<ps[i]>> ELSE Parts(ps[i], head)
           rows == [i \in DOMAIN ps |-> row(i)]
<1>1. DOMAIN ps = 1 .. Len(ps) /\ Len(ps) \in Nat
    BY LenProperties
<1>2. ASSUME NEW i \in 1 .. Len(ps)
      PROVE  row(i) \in Seq(Piece) /\ InOrder(row(i), L) /\ AllHeld(row(i), L) = Held(ps[i], L)
  <2>1. ps[i] \in Piece /\ Rising(ps[i], L)
      BY ElementOfSeq DEF InOrder
  <2>2. CASE Fitting(ps[i])
    <3>1. row(i) = <<ps[i]>>
        BY <2>2
    <3>2. QED
        BY <2>1, <3>1, RowOfOne
  <2>3. CASE ~Fitting(ps[i])
    <3>1. row(i) = Parts(ps[i], head)
        BY <2>3
    <3>2. QED
        BY <2>1, <3>1, PartsInOrder
  <2>4. QED
      BY <2>2, <2>3
<1>3. Refined(ps, head) = FlattenSeq(rows)
    BY DEF Refined
<1> HIDE DEF row
<1>4. /\ rows \in Seq(Seq(Piece)) /\ Len(rows) = Len(ps)
      /\ \A i \in 1 .. Len(ps) : rows[i] = row(i)
  <2>1. rows = [i \in 1 .. Len(ps) |-> row(i)]
      BY <1>1
  <2> HIDE DEF rows
  <2>2. QED
      BY <1>1, <1>2, <2>1, IsASeq, LenProperties
<1> HIDE DEF rows
<1>5. \A i \in 1 .. Len(ps) : InOrder(rows[i], L) /\ AllHeld(rows[i], L) = Held(ps[i], L)
    BY <1>2, <1>4
<1>6. QED
    BY <1>3, <1>4, <1>5, BrokenInOrder

LEMMA Divided ==
    ASSUME NEW n \in Nat, NEW s \in Nat \ {0}
    PROVE  n \div s \in Nat /\ (n \div s) * s <= n /\ n < (n \div s) * s + s
OBVIOUS

LEMMA Times ==
    ASSUME NEW a \in Nat, NEW b \in Nat, NEW s \in Nat, a <= b
    PROVE  a * s \in Nat /\ b * s \in Nat /\ a * s <= b * s
OBVIOUS

LEMMA TimesLess ==
    ASSUME NEW a \in Nat \ {0}, NEW s \in Nat
    PROVE  a * s \in Nat /\ a - 1 \in Nat /\ (a - 1) * s = a * s - s /\ (a - 1) * s \in Nat
OBVIOUS

(* The slices of a piece: each fits, and together they are the piece.        *)
LEMMA CutInOrder ==
    ASSUME NEW L, NEW piece \in Piece, Rising(piece, L)
    PROVE  /\ Cut(piece) \in Seq(Piece)
           /\ InOrder(Cut(piece), L)
           /\ AllHeld(Cut(piece), L) = Held(piece, L)
           /\ \A k \in 1 .. Len(Cut(piece)) : Len(Cut(piece)[k]) \in 1 .. Size
<1>1. PICK N : N = Len(piece)
    OBVIOUS
<1>2. PICK Q : Q = (N + Size - 1) \div Size
    OBVIOUS
<1>3. N \in Nat /\ Size \in Nat \ {0}
    BY <1>1, LenProperties, ChunkerAssumption DEF Piece
<1>4. Q \in Nat /\ Q * Size \in Nat /\ Q * Size <= N + Size - 1 /\ N <= Q * Size
  <2>1. N + Size - 1 \in Nat
      BY <1>3
  <2>2. Q \in Nat /\ Q * Size <= N + Size - 1 /\ N + Size - 1 < Q * Size + Size
      BY <1>2, <1>3, <2>1, Divided
  <2>3. Q * Size \in Nat
      BY <1>3, <2>2, Times
  <2>4. QED
      BY <1>3, <2>2, <2>3
<1> DEFINE lo(k) == (k - 1) * Size + 1
           hi(k) == Min({k * Size, N})
<1>5. ASSUME NEW k \in 1 .. Q
      PROVE  /\ k * Size \in Nat /\ (k - 1) * Size \in Nat /\ (k - 1) * Size = k * Size - Size
             /\ k * Size <= Q * Size
    BY <1>3, <1>4, Times, TimesLess
<1>6. ASSUME NEW k \in 1 .. Q
      PROVE  /\ hi(k) \in Nat /\ hi(k) <= N /\ hi(k) <= k * Size
             /\ (hi(k) = N \/ hi(k) = k * Size)
  <2>1. PICK both : both = {k * Size, N}
      OBVIOUS
  <2>2. both \in SUBSET Nat /\ both # {} /\ k * Size \in both /\ N \in both
      BY <1>3, <1>5, <2>1
  <2>3. Min(both) \in both /\ \A x \in both : Min(both) <= x
      BY <2>2, LeastNat
  <2>4. hi(k) = Min(both)
      BY <2>1
  <2> HIDE DEF hi
  <2>5. QED
      BY <2>1, <2>2, <2>3, <2>4
<1>7. ASSUME NEW k \in 1 .. Q
      PROVE  /\ lo(k) \in Nat \ {0} /\ lo(k) <= hi(k) + 1 /\ hi(k) <= N
             /\ (hi(k) - lo(k)) + 1 \in 1 .. Size
  <2> HIDE DEF hi
  <2>1. PICK x : x = k * Size
      OBVIOUS
  <2>2. x \in Nat /\ lo(k) = (x - Size) + 1 /\ x - Size \in Nat
      BY <1>5, <2>1
  <2> HIDE DEF lo
  <2>3. hi(k) \in Nat /\ hi(k) <= N /\ hi(k) <= x /\ (hi(k) = N \/ hi(k) = x)
      BY <1>6, <2>1
  <2>4. x <= Q * Size
      BY <1>5, <2>1
  <2>5. x - Size < N
      BY <1>3, <1>4, <2>2, <2>4
  <2>6. QED
      BY <1>3, <2>2, <2>3, <2>5
<1>8. Cut(piece) = [k \in 1 .. Q |-> SubSeq(piece, lo(k), hi(k))]
    BY <1>1, <1>2 DEF Cut, Slice
<1>9. ASSUME NEW i \in 1 .. Q, NEW k \in 1 .. Q, i < k PROVE hi(i) < lo(k)
  <2> HIDE DEF hi
  <2>1. k - 1 \in Nat /\ i <= k - 1 /\ i \in Nat
      BY <1>4, <1>9
  <2>2. i * Size <= (k - 1) * Size
      BY <1>3, <2>1, Times
  <2>3. hi(i) <= i * Size /\ hi(i) \in Nat /\ i * Size \in Nat /\ (k - 1) * Size \in Nat
      BY <1>5, <1>6
  <2>4. lo(k) = (k - 1) * Size + 1
      OBVIOUS
  <2> HIDE DEF lo
  <2>5. QED
      BY <2>2, <2>3, <2>4
<1>10. ASSUME NEW p \in 1 .. N PROVE \E k \in 1 .. Q : p \in lo(k) .. hi(k)
  <2>1. PICK d : d = (p - 1) \div Size
      OBVIOUS
  <2>2. p - 1 \in Nat
      BY <1>3
  <2>3. d \in Nat /\ d * Size <= p - 1 /\ p - 1 < d * Size + Size
      BY <1>3, <2>1, <2>2, Divided
  <2>4. d * Size \in Nat
      BY <1>3, <2>3, Times
  <2>5. d < Q
    <3>1. SUFFICES ASSUME Q <= d PROVE FALSE
        BY <1>4, <2>3
    <3>2. Q * Size <= d * Size
        BY <1>3, <1>4, <2>3, <3>1, Times
    <3>3. QED
        BY <1>3, <1>4, <2>3, <2>4, <3>2
  <2>6. d + 1 \in 1 .. Q /\ (d + 1) - 1 = d
      BY <1>4, <2>3, <2>5
  <2>7. (d + 1) * Size = d * Size + Size
      BY <1>3, <1>5, <2>6
  <2> HIDE DEF hi
  <2>8. lo(d + 1) = d * Size + 1
      BY <2>6
  <2> HIDE DEF lo
  <2>9. lo(d + 1) <= p
      BY <2>3, <2>4, <2>8
  <2>10. p <= hi(d + 1)
      BY <1>3, <1>6, <2>3, <2>4, <2>6, <2>7
  <2>11. p \in lo(d + 1) .. hi(d + 1)
      BY <1>6, <1>7, <2>6, <2>9, <2>10
  <2>12. QED
      BY <2>6, <2>11
<1> HIDE DEF lo, hi
<1> DEFINE slice(k) == SubSeq(piece, lo(k), hi(k))
<1>11. ASSUME NEW k \in 1 .. Q
       PROVE  /\ slice(k) \in Piece /\ Len(slice(k)) \in 1 .. Size /\ Rising(slice(k), L)
              /\ \A a : a \in Held(slice(k), L)
                          <=> a \in L /\ \E p \in lo(k) .. hi(k) : piece[p] = a
  <2>1. lo(k) \in Nat \ {0} /\ hi(k) \in Nat /\ lo(k) <= hi(k) + 1 /\ hi(k) <= Len(piece)
      BY <1>1, <1>6, <1>7
  <2>2. slice(k) \in Piece /\ Len(slice(k)) = (hi(k) - lo(k)) + 1
      BY <2>1, Stretch
  <2>3. Rising(slice(k), L)
      BY <2>1, StretchHolds
  <2>4. \A a : a \in Held(slice(k), L) <=> a \in L /\ \E p \in lo(k) .. hi(k) : piece[p] = a
      BY <2>1, StretchHolds
  <2>5. QED
      BY <1>7, <2>2, <2>3, <2>4
<1>12. PICK c : c = Cut(piece)
    OBVIOUS
<1>13. c = [k \in 1 .. Q |-> slice(k)]
    BY <1>8, <1>12
<1> HIDE DEF slice
<1>14. c \in Seq(Piece) /\ Len(c) = Q /\ \A k \in 1 .. Q : c[k] = slice(k)
    BY <1>4, <1>11, <1>13, IsASeq, LenProperties
<1>15. ASSUME NEW i \in 1 .. Q, NEW k \in 1 .. Q, i < k,
              NEW a \in Held(c[i], L), NEW b \in Held(c[k], L)
       PROVE  a < b
  <2>1. a \in L /\ \E p \in lo(i) .. hi(i) : piece[p] = a
      BY <1>11, <1>14, <1>15
  <2>2. b \in L /\ \E p \in lo(k) .. hi(k) : piece[p] = b
      BY <1>11, <1>14, <1>15
  <2>3. PICK p \in lo(i) .. hi(i) : piece[p] = a
      BY <2>1
  <2>4. PICK q \in lo(k) .. hi(k) : piece[q] = b
      BY <2>2
  <2>5. /\ hi(i) < lo(k) /\ hi(i) <= N /\ hi(k) <= N
        /\ {lo(i), lo(k)} \subseteq Nat \ {0} /\ {hi(i), hi(k)} \subseteq Nat
      BY <1>6, <1>7, <1>9, <1>15
  <2>6. p \in 1 .. N /\ q \in 1 .. N /\ p < q
      BY <1>3, <2>3, <2>4, <2>5
  <2>7. QED
      BY <1>1, <2>1, <2>2, <2>3, <2>4, <2>6 DEF Rising
<1>16. InOrder(c, L)
  <2>1. \A k \in 1 .. Len(c) : Rising(c[k], L)
      BY <1>11, <1>14
  <2>2. QED
      BY <1>14, <1>15, <2>1 DEF InOrder
<1>17. ASSUME NEW a \in AllHeld(c, L) PROVE a \in Held(piece, L)
  <2>1. PICK k \in 1 .. Q : a \in Held(c[k], L)
      BY <1>14, AllHeldAt
  <2>2. a \in L /\ \E p \in lo(k) .. hi(k) : piece[p] = a
      BY <1>11, <1>14, <2>1
  <2>3. PICK p \in lo(k) .. hi(k) : piece[p] = a
      BY <2>2
  <2>4. p \in 1 .. Len(piece)
      BY <1>1, <1>3, <1>6, <1>7, <2>3
  <2>5. QED
      BY <2>2, <2>3, <2>4, HeldAt
<1>18. ASSUME NEW a \in Held(piece, L) PROVE a \in AllHeld(c, L)
  <2>1. PICK p \in 1 .. N : piece[p] = a /\ a \in L
      BY <1>1, HeldAt
  <2>2. PICK k \in 1 .. Q : p \in lo(k) .. hi(k)
      BY <1>10
  <2>3. a \in Held(c[k], L)
      BY <1>11, <1>14, <2>1, <2>2
  <2>4. QED
      BY <1>14, <2>2, <2>3, AllHeldAt
<1>19. \A k \in 1 .. Len(c) : Len(c[k]) \in 1 .. Size
    BY <1>11, <1>14
<1>20. QED
    BY <1>12, <1>14, <1>16, <1>17, <1>18, <1>19

(* _atomize: the pieces fit, stand in the order of the text and hold all of  *)
(* its letters.                                                              *)
LEMMA AtomizedInOrder ==
    ASSUME NEW L, \A a \in L : Kind(a) = "letter", L \subseteq DOMAIN text,
           NEW n \in Nat, DOMAIN text = 1 .. n
    PROVE  /\ Atomized \in Seq(Piece)
           /\ InOrder(Atomized, L)
           /\ AllHeld(Atomized, L) = L
           /\ \A i \in 1 .. Len(Atomized) : Len(Atomized[i]) \in 1 .. Size
<1> DEFINE whole == [i \in DOMAIN text |-> i]
           paragraphs == Refined(<<whole>>, "paragraph")
           sentences == Refined(paragraphs, "stop")
           refined == Refined(sentences, "space")
           rows == [i \in DOMAIN refined |-> Cut(refined[i])]
<1>1. Atomized = FlattenSeq(rows)
    BY DEF Atomized
<1>2. /\ whole \in Piece /\ Len(whole) = n /\ \A i \in 1 .. n : whole[i] = i
  <2>1. whole = [i \in 1 .. n |-> i]
      OBVIOUS
  <2> HIDE DEF whole
  <2>2. QED
      BY <2>1 DEF Piece
<1> HIDE DEF whole
<1>3. Rising(whole, L) /\ Held(whole, L) = L
    BY <1>2 DEF Rising, Held
<1>4. <<whole>> \in Seq(Piece) /\ InOrder(<<whole>>, L) /\ AllHeld(<<whole>>, L) = L
    BY <1>2, <1>3, RowOfOne
<1>5. paragraphs \in Seq(Piece) /\ InOrder(paragraphs, L) /\ AllHeld(paragraphs, L) = L
    BY <1>4, RefinedInOrder
<1> HIDE DEF paragraphs
<1>6. sentences \in Seq(Piece) /\ InOrder(sentences, L) /\ AllHeld(sentences, L) = L
    BY <1>5, RefinedInOrder
<1> HIDE DEF sentences
<1>7. refined \in Seq(Piece) /\ InOrder(refined, L) /\ AllHeld(refined, L) = L
    BY <1>6, RefinedInOrder
<1> HIDE DEF refined
<1>8. DOMAIN refined = 1 .. Len(refined) /\ Len(refined) \in Nat
    BY <1>7, LenProperties
<1>9. ASSUME NEW i \in 1 .. Len(refined)
      PROVE  /\ Cut(refined[i]) \in Seq(Piece) /\ InOrder(Cut(refined[i]), L)
             /\ AllHeld(Cut(refined[i]), L) = Held(refined[i], L)
             /\ \A k \in 1 .. Len(Cut(refined[i])) : Len(Cut(refined[i])[k]) \in 1 .. Size
  <2>1. refined[i] \in Piece /\ Rising(refined[i], L)
      BY <1>7, ElementOfSeq DEF InOrder
  <2>2. QED
      BY <2>1, CutInOrder
<1>10. /\ rows \in Seq(Seq(Piece)) /\ Len(rows) = Len(refined)
       /\ \A i \in 1 .. Len(refined) : rows[i] = Cut(refined[i])
  <2>1. rows = [i \in 1 .. Len(refined) |-> Cut(refined[i])]
      BY <1>8
  <2> HIDE DEF rows
  <2>2. QED
      BY <1>8, <1>9, <2>1, IsASeq, LenProperties
<1> HIDE DEF rows
<1>11. \A i \in 1 .. Len(refined) :
          InOrder(rows[i], L) /\ AllHeld(rows[i], L) = Held(refined[i], L)
    BY <1>9, <1>10
<1>12. PICK t : t = FlattenSeq(rows)
    OBVIOUS
<1>13. t \in Seq(Piece) /\ InOrder(t, L) /\ AllHeld(t, L) = L
    BY <1>7, <1>10, <1>11, <1>12, BrokenInOrder
<1>14. \E row, col : Laid(t, rows, Len(rows), row, col)
    BY <1>10, <1>12, FlattenLaid
<1>15. PICK row, col : Laid(t, rows, Len(rows), row, col)
    BY <1>14
<1>16. ASSUME NEW p \in 1 .. Len(t) PROVE Len(t[p]) \in 1 .. Size
  <2>1. /\ row[p] \in 1 .. Len(refined) /\ col[p] \in 1 .. Len(rows[row[p]])
        /\ t[p] = rows[row[p]][col[p]]
      BY <1>10, <1>15 DEF Laid
  <2>2. rows[row[p]] = Cut(refined[row[p]])
      BY <1>10, <2>1
  <2>3. QED
      BY <1>9, <2>1, <2>2
<1>17. QED
    BY <1>1, <1>12, <1>13, <1>16

-----------------------------------------------------------------------------
(* A chunk's letters are in order, and none of the text's is missing between *)
(* them.                                                                     *)
Gapless(A, L) == \A a, b \in A : \A r \in L : a < r /\ r < b => r \in A

UpFrom(A, L) == A \subseteq L /\ \A a \in A : \A b \in L : a < b => b \in A

GoodChunk(c, L) ==
    Len(c) \in 1 .. Size /\ Rising(c, L) /\ Gapless(Held(c, L), L)

Packing(L) ==
    /\ phase \in {"given", "packing", "split"}
    /\ phase = "given" => pieces = <<>> /\ current = <<>> /\ chunks = <<>>
    /\ phase = "split" => pieces = <<>>
    /\ pieces \in Seq(Piece) /\ current \in Seq(Piece) /\ chunks \in Seq(Piece)
    /\ \A i \in 1 .. Len(pieces) : Len(pieces[i]) \in 1 .. Size
    /\ Len(Joined(current)) <= Size
    /\ InOrder(pieces, L) /\ InOrder(current, L)
    /\ \A a \in AllHeld(current, L), b \in AllHeld(pieces, L) : a < b
    /\ UpFrom(AllHeld(current, L) \cup AllHeld(pieces, L), L)
    /\ UpFrom(AllHeld(pieces, L), L)
    /\ \A i \in 1 .. Len(chunks) : GoodChunk(chunks[i], L)
    /\ phase = "packing" =>
          L = AllHeld(chunks, L) \cup AllHeld(current, L) \cup AllHeld(pieces, L)
    /\ phase = "split" => L = AllHeld(chunks, L)

ChunkInv == text \in Seq(Symbols) /\ Packing(Letters)

LEMMA GreatestNat ==
    ASSUME NEW N \in Nat, NEW ns \in SUBSET (0 .. N), ns # {}
    PROVE  Max(ns) \in ns /\ \A k \in ns : k <= Max(ns)
<1> DEFINE bounds == {u \in 0 .. N : \A k \in ns : k <= u}
           m == Min(bounds)
<1>1. N \in bounds
    OBVIOUS
<1>2. m \in bounds /\ \A u \in bounds : m <= u
  <2>1. bounds \in SUBSET Nat /\ bounds # {}
      BY <1>1
  <2> HIDE DEF bounds
  <2>2. QED
      BY <2>1, LeastNat
<1> HIDE DEF m
<1>3. m \in 0 .. N /\ \A k \in ns : k <= m
    BY <1>2
<1>4. m \in ns
  <2>1. SUFFICES ASSUME m \notin ns PROVE FALSE
      OBVIOUS
  <2>2. \A k \in ns : k <= m - 1
      BY <1>3, <2>1
  <2>3. m - 1 \in bounds
    <3>1. PICK k \in ns : k \in 0 .. N /\ k <= m - 1
        BY <2>2
    <3>2. m - 1 \in 0 .. N
        BY <1>3, <3>1
    <3>3. QED
        BY <2>2, <3>2
  <2>4. m <= m - 1
      BY <1>2, <2>3
  <2>5. QED
      BY <1>3, <2>4
<1>5. \A k \in ns : m >= k
    BY <1>3
<1>6. \E x \in ns : \A y \in ns : x >= y
    BY <1>4, <1>5
<1>7. Max(ns) \in ns /\ \A y \in ns : Max(ns) >= y
    BY <1>6 DEF Max
<1>8. QED
    BY <1>7

(* strip() takes white space only.                                           *)
LEMMA StripKeeps ==
    ASSUME NEW L, \A a \in L : Kind(a) = "letter", NEW c \in Piece, Rising(c, L)
    PROVE  /\ Strip(c) \in Piece /\ Len(Strip(c)) \in Nat /\ Len(Strip(c)) <= Len(c)
           /\ Strip(c) # <<>> => Len(Strip(c)) >= 1
           /\ Rising(Strip(c), L) /\ Held(Strip(c), L) = Held(c, L)
<1>1. DOMAIN c = 1 .. Len(c) /\ Len(c) \in Nat
    BY LenProperties DEF Piece
<1>2. PICK solid : solid = {i \in DOMAIN c : Kind(c[i]) \notin White}
    OBVIOUS
<1>3. solid \in SUBSET Nat /\ solid \in SUBSET (0 .. Len(c)) /\ solid \in SUBSET (1 .. Len(c))
    BY <1>1, <1>2
<1>4. \A i \in 1 .. Len(c) : c[i] \in L => i \in solid
    BY <1>1, <1>2 DEF White
<1>5. CASE solid = {}
  <2>1. Strip(c) = <<>>
      BY <1>2, <1>5 DEF Strip
  <2>2. \A a : a \notin Held(c, L)
      BY <1>4, <1>5, HeldAt
  <2>3. Rising(<<>>, L) /\ Held(<<>>, L) = {} /\ <<>> \in Piece /\ Len(<<>>) = 0
      BY DEF Rising, Held, Piece
  <2>4. QED
      BY <1>1, <2>1, <2>2, <2>3
<1>6. CASE solid # {}
  <2>1. PICK m : m = Min(solid)
      OBVIOUS
  <2>2. PICK n : n = Max(solid)
      OBVIOUS
  <2>3. m \in solid /\ \A k \in solid : m <= k
      BY <1>3, <1>6, <2>1, LeastNat
  <2>4. n \in solid /\ \A k \in solid : k <= n
      BY <1>1, <1>3, <1>6, <2>2, GreatestNat
  <2>5. /\ m \in Nat \ {0} /\ n \in Nat /\ m <= n + 1 /\ m <= n /\ n <= Len(c)
      BY <1>1, <1>3, <2>3, <2>4
  <2>6. PICK t : t = SubSeq(c, m, n)
      OBVIOUS
  <2>7. Strip(c) = t
      BY <1>2, <1>6, <2>1, <2>2, <2>6 DEF Strip
  <2>8. t \in Piece /\ Len(t) = (n - m) + 1
      BY <2>5, <2>6, Stretch
  <2>9. /\ Rising(t, L)
        /\ \A a : a \in Held(t, L) <=> a \in L /\ \E k \in m .. n : c[k] = a
      BY <2>5, <2>6, StretchHolds
  <2>10. \A k \in 1 .. Len(c) : c[k] \in L => k \in m .. n
      BY <1>3, <1>4, <2>3, <2>4, <2>5
  <2>11. \A k \in m .. n : k \in 1 .. Len(c)
      BY <1>1, <2>5
  <2>12. \A a : a \in Held(t, L) <=> a \in Held(c, L)
    <3>1. TAKE a
    <3>2. a \in L => ((\E k \in m .. n : c[k] = a) <=> \E k \in 1 .. Len(c) : c[k] = a)
        BY <2>10, <2>11
    <3>3. QED
        BY <2>9, <3>2, HeldAt
  <2>13. Len(t) \in Nat /\ Len(t) <= Len(c) /\ Len(t) >= 1
      BY <1>1, <2>5, <2>8
  <2>14. QED
      BY <2>7, <2>8, <2>9, <2>12, <2>13
<1>7. QED
    BY <1>5, <1>6

LEMMA JoinedAppend ==
    ASSUME NEW ps \in Seq(Piece), NEW s \in Piece
    PROVE  /\ Joined(ps) \in Piece /\ Joined(Append(ps, s)) = Joined(ps) \o s
           /\ Len(Joined(ps)) \in Nat /\ Len(s) \in Nat
           /\ Len(Joined(Append(ps, s))) = Len(Joined(ps)) + Len(s)
<1>1. Joined(Append(ps, s)) = Joined(ps) \o s
    BY FlattenAppend DEF Joined, Piece
<1>2. Joined(ps) \in Seq(Nat) /\ s \in Seq(Nat)
    BY FlattenLaid DEF Joined, Piece
<1>3. QED
    BY <1>1, <1>2, ConcatProperties, LenProperties DEF Piece

LEMMA JoinedFew ==
    /\ Joined(<<>>) = <<>> /\ Len(Joined(<<>>)) = 0
    /\ \A s \in Piece : Joined(<<s>>) = s
<1>1. Joined(<<>>) = <<>>
    BY FlattenEmpty DEF Joined
<1>2. ASSUME NEW s \in Piece PROVE Joined(<<s>>) = s
  <2>1. <<>> \in Seq(Piece) /\ Append(<<>>, s) = <<s>>
      OBVIOUS
  <2>2. Joined(<<s>>) = <<>> \o s
      BY <1>1, <2>1, JoinedAppend
  <2>3. <<>> \o s = s
      BY DEF Piece
  <2>4. QED
      BY <2>2, <2>3
<1>3. QED
    BY <1>1, <1>2

(* One more piece, whose letters come after those there are.                 *)
LEMMA OneMore ==
    ASSUME NEW L, NEW ps \in Seq(Piece), InOrder(ps, L), NEW s \in Piece, Rising(s, L),
           \A a \in AllHeld(ps, L), b \in Held(s, L) : a < b
    PROVE  /\ Append(ps, s) \in Seq(Piece) /\ InOrder(Append(ps, s), L)
           /\ AllHeld(Append(ps, s), L) = AllHeld(ps, L) \cup Held(s, L)
<1>1. PICK t : t = Append(ps, s)
    OBVIOUS
<1>2. PICK n : n = Len(ps)
    OBVIOUS
<1>3. /\ t \in Seq(Piece) /\ Len(t) = n + 1 /\ n \in Nat /\ t[n + 1] = s
      /\ \A i \in 1 .. n : t[i] = ps[i]
    BY <1>1, <1>2, AppendProperties, LenProperties
<1>4. \A i \in 1 .. n + 1 : i \in 1 .. n \/ i = n + 1
    BY <1>3
<1>5. \A i \in 1 .. n + 1 : Rising(t[i], L)
    BY <1>2, <1>3, <1>4 DEF InOrder
<1>6. ASSUME NEW i \in 1 .. n + 1, NEW k \in 1 .. n + 1, i < k,
             NEW a \in Held(t[i], L), NEW b \in Held(t[k], L)
      PROVE  a < b
  <2>1. i \in 1 .. n
      BY <1>3, <1>6
  <2>2. CASE k \in 1 .. n
    <3>1. a \in Held(ps[i], L) /\ b \in Held(ps[k], L)
        BY <1>3, <1>6, <2>1, <2>2
    <3>2. QED
        BY <1>2, <1>6, <2>1, <2>2, <3>1 DEF InOrder
  <2>3. CASE k = n + 1
    <3>1. a \in AllHeld(ps, L) /\ b \in Held(s, L)
        BY <1>2, <1>3, <1>6, <2>1, <2>3, AllHeldAt
    <3>2. QED
        BY <3>1
  <2>4. QED
      BY <1>4, <2>2, <2>3
<1>7. InOrder(t, L)
    BY <1>3, <1>5, <1>6 DEF InOrder
<1>8. ASSUME NEW a PROVE a \in AllHeld(t, L) <=> a \in AllHeld(ps, L) \cup Held(s, L)
  <2>1. n + 1 \in 1 .. n + 1 /\ \A i \in 1 .. n : i \in 1 .. n + 1
      BY <1>3
  <2>2. (\E i \in 1 .. n + 1 : a \in Held(t[i], L))
        <=> (\E i \in 1 .. n : a \in Held(ps[i], L)) \/ a \in Held(s, L)
      BY <1>3, <1>4, <2>1
  <2>3. QED
      BY <1>2, <1>3, <2>2, AllHeldAt
<1>9. QED
    BY <1>1, <1>3, <1>7, <1>8

(* The pieces from one on, and all the pieces but the first.                 *)
LEMMA FromOn ==
    ASSUME NEW L, NEW ps \in Seq(Piece), InOrder(ps, L), NEW k \in 1 .. Len(ps) + 1
    PROVE  LET tail == SubSeq(ps, k, Len(ps))
           IN /\ tail \in Seq(Piece) /\ Len(tail) = (Len(ps) - k) + 1 /\ InOrder(tail, L)
              /\ \A i \in 1 .. Len(tail) : \E j \in k .. Len(ps) : tail[i] = ps[j]
              /\ \A a : a \in AllHeld(tail, L) <=> \E j \in k .. Len(ps) : a \in Held(ps[j], L)
<1>1. PICK n : n = Len(ps)
    OBVIOUS
<1>2. PICK t : t = SubSeq(ps, k, n)
    OBVIOUS
<1>3. n \in Nat /\ k \in Nat \ {0} /\ k <= n + 1 /\ n <= Len(ps)
    BY <1>1, LenProperties
<1>4. /\ t \in Seq(Piece) /\ Len(t) = (n - k) + 1
      /\ \A j \in 1 .. (n - k) + 1 : t[j] = ps[(k + j) - 1]
      /\ \A j \in k .. n : (j - k) + 1 \in 1 .. (n - k) + 1 /\ t[(j - k) + 1] = ps[j]
    BY <1>2, <1>3, StretchOf
<1>5. \A i \in 1 .. (n - k) + 1 : (k + i) - 1 \in k .. n /\ (k + i) - 1 \in 1 .. n
    BY <1>3
<1>6. ASSUME NEW i \in 1 .. Len(t) PROVE Rising(t[i], L)
    BY <1>1, <1>4, <1>5 DEF InOrder
<1>7. ASSUME NEW i \in 1 .. Len(t), NEW j \in 1 .. Len(t), i < j,
             NEW a \in Held(t[i], L), NEW b \in Held(t[j], L)
      PROVE  a < b
  <2>1. /\ t[i] = ps[(k + i) - 1] /\ t[j] = ps[(k + j) - 1]
        /\ (k + i) - 1 \in 1 .. n /\ (k + j) - 1 \in 1 .. n
      BY <1>4, <1>5
  <2>2. (k + i) - 1 < (k + j) - 1
      BY <1>3, <1>4, <1>7
  <2>3. a \in Held(ps[(k + i) - 1], L) /\ b \in Held(ps[(k + j) - 1], L)
      BY <1>7, <2>1
  <2>4. QED
      BY <1>1, <2>1, <2>2, <2>3 DEF InOrder
<1>8. InOrder(t, L)
    BY <1>6, <1>7 DEF InOrder
<1>9. \A i \in 1 .. Len(t) : \E j \in k .. n : t[i] = ps[j]
    BY <1>4, <1>5
<1>10. ASSUME NEW a PROVE a \in AllHeld(t, L) <=> \E j \in k .. n : a \in Held(ps[j], L)
  <2>1. (\E i \in 1 .. Len(t) : a \in Held(t[i], L)) => \E j \in k .. n : a \in Held(ps[j], L)
      BY <1>4, <1>5
  <2>2. (\E j \in k .. n : a \in Held(ps[j], L)) => \E i \in 1 .. Len(t) : a \in Held(t[i], L)
      BY <1>4
  <2>3. QED
      BY <2>1, <2>2, AllHeldAt
<1>11. QED
    BY <1>1, <1>2, <1>4, <1>8, <1>9, <1>10

LEMMA HeadAndTail ==
    ASSUME NEW L, NEW ps \in Seq(Piece), InOrder(ps, L), ps # <<>>
    PROVE  /\ Head(ps) \in Piece /\ Head(ps) = ps[1] /\ 1 \in 1 .. Len(ps) /\ Rising(Head(ps), L)
           /\ Tail(ps) \in Seq(Piece) /\ InOrder(Tail(ps), L)
           /\ \A i \in 1 .. Len(Tail(ps)) : \E j \in 1 .. Len(ps) : Tail(ps)[i] = ps[j]
           /\ AllHeld(ps, L) = Held(Head(ps), L) \cup AllHeld(Tail(ps), L)
           /\ \A a \in Held(Head(ps), L), b \in AllHeld(Tail(ps), L) : a < b
<1>1. PICK n : n = Len(ps)
    OBVIOUS
<1>2. n \in Nat /\ n # 0 /\ 1 \in 1 .. n /\ 2 \in 1 .. n + 1
    BY <1>1, LenProperties, EmptySeq
<1>3. Head(ps) = ps[1] /\ ps[1] \in Piece /\ Rising(ps[1], L)
    BY <1>1, <1>2, HeadTailProperties, ElementOfSeq DEF InOrder
<1>4. Tail(ps) = SubSeq(ps, 2, n)
    BY <1>1, TailIsSubSeq
<1>5. PICK t : t = Tail(ps)
    OBVIOUS
<1>6. /\ t \in Seq(Piece) /\ InOrder(t, L)
      /\ \A i \in 1 .. Len(t) : \E j \in 2 .. n : t[i] = ps[j]
      /\ \A a : a \in AllHeld(t, L) <=> \E j \in 2 .. n : a \in Held(ps[j], L)
  <2>1. t = SubSeq(ps, 2, Len(ps)) /\ 2 \in 1 .. Len(ps) + 1
      BY <1>1, <1>2, <1>4, <1>5
  <2>2. /\ SubSeq(ps, 2, Len(ps)) \in Seq(Piece) /\ InOrder(SubSeq(ps, 2, Len(ps)), L)
        /\ \A i \in 1 .. Len(SubSeq(ps, 2, Len(ps))) :
              \E j \in 2 .. Len(ps) : SubSeq(ps, 2, Len(ps))[i] = ps[j]
        /\ \A a : a \in AllHeld(SubSeq(ps, 2, Len(ps)), L)
                    <=> \E j \in 2 .. Len(ps) : a \in Held(ps[j], L)
      BY <2>1, FromOn
  <2>3. QED
      BY <1>1, <2>1, <2>2
<1>7. \A j \in 2 .. n : j \in 1 .. n /\ 1 < j
    BY <1>2
<1>8. \A i \in 1 .. Len(t) : \E j \in 1 .. n : t[i] = ps[j]
    BY <1>6, <1>7
<1>9. ASSUME NEW a
      PROVE  a \in AllHeld(ps, L) <=> a \in Held(ps[1], L) \cup AllHeld(t, L)
  <2>1. \A j \in 1 .. n : j = 1 \/ j \in 2 .. n
      BY <1>2
  <2>2. (\E j \in 1 .. n : a \in Held(ps[j], L))
        <=> a \in Held(ps[1], L) \/ \E j \in 2 .. n : a \in Held(ps[j], L)
      BY <1>2, <1>7, <2>1
  <2>3. QED
      BY <1>1, <1>6, <2>2, AllHeldAt
<1>10. ASSUME NEW a \in Held(ps[1], L), NEW b \in AllHeld(t, L) PROVE a < b
  <2>1. PICK j \in 2 .. n : b \in Held(ps[j], L)
      BY <1>6
  <2>2. QED
      BY <1>1, <1>2, <1>7, <2>1 DEF InOrder
<1>11. QED
    BY <1>1, <1>2, <1>3, <1>5, <1>6, <1>8, <1>9, <1>10

-----------------------------------------------------------------------------
(* What is carried over: the end of what was packed, as far as it fits.      *)
LEMMA WholeTailIsLast ==
    ASSUME NEW L, current \in Seq(Piece), current # <<>>, InOrder(current, L)
    PROVE  /\ WholeTail \in Seq(Piece) /\ InOrder(WholeTail, L)
           /\ UpFrom(AllHeld(WholeTail, L), AllHeld(current, L))
           /\ Last(current) \in Piece /\ Len(current) \in 1 .. Len(current)
           /\ WholeTail = <<>> => Overlap <= Len(Last(current))
<1>1. PICK ps : ps = current
    OBVIOUS
<1>2. PICK n : n = Len(ps)
    OBVIOUS
<1>3. /\ ps \in Seq(Piece) /\ InOrder(ps, L) /\ n \in Nat /\ n \in 1 .. n
      /\ Last(ps) = ps[n] /\ ps[n] \in Piece
  <2>1. n \in Nat /\ n # 0
      BY <1>1, <1>2, LenProperties, EmptySeq
  <2>2. n \in 1 .. n
      BY <2>1
  <2>3. ps[n] \in Piece
      BY <1>1, <1>2, <2>2, ElementOfSeq
  <2>4. QED
      BY <1>1, <1>2, <2>1, <2>2, <2>3 DEF Last
<1>4. Overlap \in Nat
    BY ChunkerAssumption
<1> DEFINE from(k) == SubSeq(ps, k, n)
           fits == {k \in 1 .. n + 1 : Len(Joined(from(k))) <= Overlap}
<1>5. WholeTail = from(Min(fits))
    BY <1>1, <1>2 DEF WholeTail
<1>6. ASSUME NEW k \in 1 .. n + 1
      PROVE  /\ from(k) \in Seq(Piece) /\ Len(from(k)) = (n - k) + 1 /\ InOrder(from(k), L)
             /\ \A a : a \in AllHeld(from(k), L) <=> \E j \in k .. n : a \in Held(ps[j], L)
  <2>1. from(k) = SubSeq(ps, k, Len(ps)) /\ k \in 1 .. Len(ps) + 1
      BY <1>2
  <2> HIDE DEF from
  <2>2. /\ SubSeq(ps, k, Len(ps)) \in Seq(Piece)
        /\ Len(SubSeq(ps, k, Len(ps))) = (Len(ps) - k) + 1
        /\ InOrder(SubSeq(ps, k, Len(ps)), L)
        /\ \A a : a \in AllHeld(SubSeq(ps, k, Len(ps)), L)
                    <=> \E j \in k .. Len(ps) : a \in Held(ps[j], L)
      BY <1>3, <2>1, FromOn
  <2>3. QED
      BY <1>2, <2>1, <2>2
<1>7. from(n) = <<ps[n]>>
  <2>1. /\ \A j \in 1 .. (n - n) + 1 : from(n)[j] = ps[(n + j) - 1]
        /\ Len(from(n)) = (n - n) + 1 /\ from(n) \in Seq(Piece)
      BY <1>2, <1>3, StretchOf
  <2> HIDE DEF from
  <2>2. Len(from(n)) = 1 /\ from(n)[1] = ps[n]
      BY <1>3, <2>1
  <2>3. QED
      BY <1>3, <2>1, <2>2
<1> HIDE DEF from
<1>8. n + 1 \in fits
  <2>1. n + 1 \in 1 .. n + 1 /\ (n - (n + 1)) + 1 = 0
      BY <1>3
  <2>2. from(n + 1) = <<>>
      BY <1>6, <2>1, EmptySeq
  <2>3. QED
      BY <1>4, <2>1, <2>2, JoinedFew
<1>9. Min(fits) \in fits /\ \A k \in fits : Min(fits) <= k
  <2>1. fits \in SUBSET Nat /\ fits # {}
      BY <1>8
  <2> HIDE DEF fits
  <2>2. QED
      BY <2>1, LeastNat
<1>10. PICK m : m = Min(fits)
    OBVIOUS
<1>11. m \in 1 .. n + 1 /\ WholeTail = from(m)
    BY <1>5, <1>9, <1>10
<1>12. UpFrom(AllHeld(from(m), L), AllHeld(ps, L))
  <2>1. ASSUME NEW a \in AllHeld(from(m), L) PROVE a \in AllHeld(ps, L)
    <3>1. PICK j \in m .. n : a \in Held(ps[j], L)
        BY <1>6, <1>11
    <3>2. j \in 1 .. Len(ps)
        BY <1>2, <1>3, <1>11, <3>1
    <3>3. QED
        BY <3>1, <3>2, AllHeldAt
  <2>2. ASSUME NEW a \in AllHeld(from(m), L), NEW b \in AllHeld(ps, L), a < b
        PROVE  b \in AllHeld(from(m), L)
    <3>1. PICK j \in m .. n : a \in Held(ps[j], L)
        BY <1>6, <1>11
    <3>2. PICK i \in 1 .. n : b \in Held(ps[i], L)
        BY <1>2, AllHeldAt
    <3>3. j \in 1 .. n
        BY <1>3, <1>11
    <3>4. a \in Nat /\ b \in Nat
      <4>1. ps[i] \in Piece /\ ps[j] \in Piece
          BY <1>2, <1>3, <3>3, ElementOfSeq
      <4>2. QED
          BY <3>1, <3>2, <4>1, HeldIsNat
    <3>5. ~(i < j)
        BY <1>2, <1>3, <2>2, <3>1, <3>2, <3>3, <3>4 DEF InOrder
    <3>6. i \in m .. n
        BY <1>3, <1>11, <3>3, <3>5
    <3>7. QED
        BY <1>6, <1>11, <3>2, <3>6
  <2>3. QED
      BY <2>1, <2>2 DEF UpFrom
<1>13. ASSUME from(m) = <<>> PROVE Overlap <= Len(ps[n])
  <2>1. Len(from(m)) = 0
      BY <1>13
  <2>2. (n - m) + 1 = 0
      BY <1>6, <1>11, <2>1
  <2>3. m = n + 1
      BY <1>3, <1>11, <2>2
  <2>4. n \notin fits
    <3>1. SUFFICES ASSUME n \in fits PROVE FALSE
        OBVIOUS
    <3> HIDE DEF fits
    <3>2. m <= n
        BY <1>9, <1>10, <3>1
    <3>3. QED
        BY <1>3, <2>3, <3>2
  <2>5. ~(Len(Joined(from(n))) <= Overlap)
      BY <1>3, <2>4
  <2>6. Joined(from(n)) = ps[n]
      BY <1>3, <1>7, JoinedFew
  <2>7. Len(ps[n]) \in Nat
      BY <1>3, LenProperties DEF Piece
  <2>8. QED
      BY <1>4, <2>5, <2>6, <2>7
<1>14. QED
    BY <1>1, <1>2, <1>3, <1>6, <1>11, <1>12, <1>13

LEMMA TailOfIsLast ==
    ASSUME NEW L, current \in Seq(Piece), current # <<>>, InOrder(current, L),
           Overlap <= Len(Last(current))
    PROVE  LET tail == <<TailOf(Last(current))>>
           IN /\ tail \in Seq(Piece) /\ InOrder(tail, L)
              /\ UpFrom(AllHeld(tail, L), AllHeld(current, L))
<1>1. PICK ps : ps = current
    OBVIOUS
<1>2. PICK n : n = Len(ps)
    OBVIOUS
<1>3. PICK s : s = Last(ps)
    OBVIOUS
<1>4. /\ ps \in Seq(Piece) /\ InOrder(ps, L) /\ n \in Nat /\ n \in 1 .. n
      /\ s = ps[n] /\ s \in Piece
  <2>1. n \in Nat /\ n # 0
      BY <1>1, <1>2, LenProperties, EmptySeq
  <2>2. n \in 1 .. n
      BY <2>1
  <2>3. ps[n] \in Piece
      BY <1>1, <1>2, <2>2, ElementOfSeq
  <2>4. QED
      BY <1>1, <1>2, <1>3, <2>1, <2>2, <2>3 DEF Last
<1>5. Len(s) \in Nat /\ Overlap \in Nat /\ Overlap <= Len(s) /\ Rising(s, L)
    BY <1>1, <1>2, <1>3, <1>4, LenProperties, ChunkerAssumption DEF Piece, InOrder
<1>6. PICK lo : lo = Len(s) - Overlap + 1
    OBVIOUS
<1>7. lo \in Nat \ {0} /\ lo <= Len(s) + 1 /\ Len(s) <= Len(s)
    BY <1>5, <1>6
<1>8. PICK t : t = TailOf(s)
    OBVIOUS
<1>9. t = SubSeq(s, lo, Len(s))
    BY <1>6, <1>8 DEF TailOf
<1>10. t \in Piece
    BY <1>4, <1>5, <1>7, <1>9, Stretch
<1>11. /\ Rising(t, L)
       /\ \A a : a \in Held(t, L) <=> a \in L /\ \E k \in lo .. Len(s) : s[k] = a
  <2>1. PICK hi : hi = Len(s)
      OBVIOUS
  <2>2. s \in Piece /\ lo \in Nat \ {0} /\ hi \in Nat /\ lo <= hi + 1 /\ hi <= Len(s)
      BY <1>4, <1>5, <1>7, <2>1
  <2>3. /\ Rising(s, L) => Rising(SubSeq(s, lo, hi), L)
        /\ \A a : a \in Held(SubSeq(s, lo, hi), L)
                    <=> a \in L /\ \E k \in lo .. hi : s[k] = a
      BY <2>2, StretchHolds
  <2>4. QED
      BY <1>5, <1>9, <2>1, <2>3
<1>12. <<t>> \in Seq(Piece) /\ InOrder(<<t>>, L) /\ AllHeld(<<t>>, L) = Held(t, L)
    BY <1>10, <1>11, RowOfOne
<1>13. ASSUME NEW a \in Held(t, L) PROVE a \in Held(s, L) /\ a \in AllHeld(ps, L)
  <2>1. a \in L /\ \E k \in lo .. Len(s) : s[k] = a
      BY <1>11
  <2>2. PICK k \in lo .. Len(s) : s[k] = a
      BY <2>1
  <2>3. k \in 1 .. Len(s)
      BY <1>5, <1>7, <2>2
  <2>4. a \in Held(s, L)
      BY <2>1, <2>2, <2>3, HeldAt
  <2>5. QED
      BY <1>2, <1>4, <2>4, AllHeldAt
<1>14. ASSUME NEW a \in Held(t, L), NEW b \in AllHeld(ps, L), a < b PROVE b \in Held(t, L)
  <2>1. PICK i \in 1 .. n : b \in Held(ps[i], L)
      BY <1>2, AllHeldAt
  <2>2. a \in Held(s, L)
      BY <1>13
  <2>3. a \in Nat /\ b \in Nat
    <3>1. ps[i] \in Piece
        BY <1>2, <1>4, ElementOfSeq
    <3>2. QED
        BY <1>4, <2>1, <2>2, <3>1, HeldIsNat
  <2>4. ~(i < n)
      BY <1>2, <1>4, <1>14, <2>1, <2>2, <2>3 DEF InOrder
  <2>5. i = n
      BY <1>4, <2>1, <2>4
  <2>6. PICK k \in 1 .. Len(s) : s[k] = b /\ b \in L
      BY <1>4, <2>1, <2>5, HeldAt
  <2>7. PICK j \in lo .. Len(s) : s[j] = a /\ a \in L
      BY <1>11
  <2>8. j \in 1 .. Len(s)
      BY <1>5, <1>7, <2>7
  <2>9. ~(k < j)
      BY <1>5, <1>14, <2>3, <2>6, <2>7, <2>8 DEF Rising
  <2>10. k \in lo .. Len(s)
      BY <1>5, <1>7, <2>6, <2>8, <2>9
  <2>11. QED
      BY <1>11, <2>6, <2>10
<1>15. UpFrom(Held(t, L), AllHeld(ps, L))
    BY <1>13, <1>14 DEF UpFrom
<1>16. QED
    BY <1>1, <1>3, <1>8, <1>12, <1>15

LEMMA CarryKeeps ==
    ASSUME NEW L, current \in Seq(Piece), current # <<>>, InOrder(current, L),
           NEW next \in Piece, Len(next) <= Size
    PROVE  /\ Carry(next) \in Seq(Piece) /\ InOrder(Carry(next), L)
           /\ UpFrom(AllHeld(Carry(next), L), AllHeld(current, L))
           /\ Len(Joined(Carry(next))) + Len(next) <= Size
<1>1. PICK c : c = IF WholeTail = <<>> /\ Overlap > 0 THEN <<TailOf(Last(current))>> ELSE WholeTail
    OBVIOUS
<1>2. Carry(next) = IF Len(Joined(c)) + Len(next) > Size THEN <<>> ELSE c
    BY <1>1 DEF Carry
<1>3. c \in Seq(Piece) /\ InOrder(c, L) /\ UpFrom(AllHeld(c, L), AllHeld(current, L))
  <2>1. CASE WholeTail = <<>> /\ Overlap > 0
    <3>1. c = <<TailOf(Last(current))>>
        BY <1>1, <2>1
    <3>2. Overlap <= Len(Last(current))
        BY <2>1, WholeTailIsLast
    <3>3. QED
        BY <3>1, <3>2, TailOfIsLast
  <2>2. CASE ~(WholeTail = <<>> /\ Overlap > 0)
    <3>1. c = WholeTail
        BY <1>1, <2>2
    <3>2. QED
        BY <3>1, WholeTailIsLast
  <2>3. QED
      BY <2>1, <2>2
<1>4. UpFrom({}, AllHeld(current, L))
    BY DEF UpFrom
<1>5. Len(next) \in Nat /\ Size \in Nat
    BY LenProperties, ChunkerAssumption DEF Piece
<1>6. Len(Joined(c)) \in Nat
    BY <1>3, JoinedAppend
<1>7. CASE Len(Joined(c)) + Len(next) > Size
  <2>1. Carry(next) = <<>>
      BY <1>2, <1>7
  <2>2. Len(Joined(<<>>)) + Len(next) <= Size
      BY <1>5, JoinedFew
  <2>3. QED
      BY <1>4, <2>1, <2>2, RowOfNone
<1>8. CASE ~(Len(Joined(c)) + Len(next) > Size)
  <2>1. Carry(next) = c
      BY <1>2, <1>8
  <2>2. Len(Joined(c)) + Len(next) <= Size
      BY <1>5, <1>6, <1>8
  <2>3. QED
      BY <1>3, <2>1, <2>2
<1>9. QED
    BY <1>7, <1>8

(* A chunk is made of what was packed.                                       *)
LEMMA EmitKeeps ==
    ASSUME NEW L, \A a \in L : Kind(a) = "letter",
           NEW ps \in Seq(Piece), InOrder(ps, L), Len(Joined(ps)) <= Size,
           Gapless(AllHeld(ps, L), L),
           chunks \in Seq(Piece), \A i \in 1 .. Len(chunks) : GoodChunk(chunks[i], L)
    PROVE  /\ Emit(ps) \in Seq(Piece)
           /\ \A i \in 1 .. Len(Emit(ps)) : GoodChunk(Emit(ps)[i], L)
           /\ AllHeld(Emit(ps), L) = AllHeld(chunks, L) \cup AllHeld(ps, L)
<1>1. PICK c : c = Strip(Joined(ps))
    OBVIOUS
<1>2. PICK cs : cs = chunks
    OBVIOUS
<1>3. Emit(ps) = IF c = <<>> THEN cs ELSE Append(cs, c)
    BY <1>1, <1>2 DEF Emit
<1>4. /\ Joined(ps) \in Piece /\ Rising(Joined(ps), L) /\ Held(Joined(ps), L) = AllHeld(ps, L)
    BY JoinedRises
<1>5. /\ c \in Piece /\ Len(c) \in Nat /\ Len(c) <= Len(Joined(ps))
      /\ c # <<>> => Len(c) >= 1
      /\ Rising(c, L) /\ Held(c, L) = AllHeld(ps, L)
    BY <1>1, <1>4, StripKeeps
<1>6. CASE c = <<>>
  <2>1. Emit(ps) = cs
      BY <1>3, <1>6
  <2>2. AllHeld(ps, L) = {}
      BY <1>5, <1>6 DEF Held
  <2>3. QED
      BY <1>2, <2>1, <2>2
<1>7. CASE c # <<>>
  <2>1. PICK t : t = Append(cs, c)
      OBVIOUS
  <2>2. PICK n : n = Len(cs)
      OBVIOUS
  <2>3. /\ t \in Seq(Piece) /\ Len(t) = n + 1 /\ n \in Nat /\ t[n + 1] = c
        /\ \A i \in 1 .. n : t[i] = cs[i]
      BY <1>2, <1>5, <2>1, <2>2, AppendProperties, LenProperties
  <2>4. GoodChunk(c, L)
    <3>1. Len(c) \in 1 .. Size
      <4>1. Len(Joined(ps)) \in Nat /\ Size \in Nat
          BY <1>4, LenProperties, ChunkerAssumption DEF Piece
      <4>2. QED
          BY <1>5, <1>7, <4>1
    <3>2. QED
        BY <1>5, <3>1 DEF GoodChunk
  <2>5. \A i \in 1 .. n + 1 : i \in 1 .. n \/ i = n + 1
      BY <2>3
  <2>6. \A i \in 1 .. n + 1 : GoodChunk(t[i], L)
      BY <1>2, <2>2, <2>3, <2>4, <2>5
  <2>7. ASSUME NEW a PROVE a \in AllHeld(t, L) <=> a \in AllHeld(cs, L) \cup AllHeld(ps, L)
    <3>1. n + 1 \in 1 .. n + 1 /\ \A i \in 1 .. n : i \in 1 .. n + 1
        BY <2>3
    <3>2. (\E i \in 1 .. n + 1 : a \in Held(t[i], L))
          <=> (\E i \in 1 .. n : a \in Held(cs[i], L)) \/ a \in Held(c, L)
        BY <2>3, <2>5, <3>1
    <3>3. QED
        BY <1>5, <2>2, <2>3, <3>2, AllHeldAt
  <2>8. Emit(ps) = t
      BY <1>3, <1>7, <2>1
  <2>9. QED
      BY <1>2, <2>3, <2>6, <2>7, <2>8
<1>8. QED
    BY <1>6, <1>7

-----------------------------------------------------------------------------
(* The inductive invariant.                                                  *)
LEMMA LettersAreLetters ==
    ASSUME text \in Seq(Symbols)
    PROVE  /\ \A a \in Letters : Kind(a) = "letter"
           /\ Letters \subseteq DOMAIN text
           /\ Len(text) \in Nat /\ DOMAIN text = 1 .. Len(text)
<1>1. Len(text) \in Nat /\ DOMAIN text = 1 .. Len(text)
    BY LenProperties
<1>2. Invented \notin DOMAIN text
    BY <1>1 DEF Invented
<1>3. QED
    BY <1>1, <1>2 DEF Letters, Kind

LEMMA InitPacks ==
    ChunkerInit => ChunkInv
<1> SUFFICES ASSUME ChunkerInit PROVE ChunkInv
    OBVIOUS
<1>1. text \in Seq(Symbols)
    BY DEF ChunkerInit, SeqOf
<1>2. PICK L : L = Letters
    OBVIOUS
<1>3. pieces = <<>> /\ current = <<>> /\ chunks = <<>> /\ phase = "given"
    BY DEF ChunkerInit
<1>4. <<>> \in Seq(Piece) /\ InOrder(<<>>, L) /\ AllHeld(<<>>, L) = {} /\ Len(<<>>) = 0
    BY RowOfNone
<1>5. Len(Joined(<<>>)) <= Size
    BY JoinedFew, ChunkerAssumption
<1>6. UpFrom({}, L) /\ {} \cup {} = {}
    BY DEF UpFrom
<1>7. \A i : i \notin 1 .. 0
    OBVIOUS
<1>8. Packing(L)
    BY <1>3, <1>4, <1>5, <1>6, <1>7 DEF Packing
<1>9. QED
    BY <1>1, <1>2, <1>8 DEF ChunkInv

LEMMA ShortPacks ==
    ASSUME NEW L, L = Letters, text \in Seq(Symbols), Packing(L), Short
    PROVE  Packing(L)'
<1>1. PICK n : n = Len(text)
    OBVIOUS
<1>2. /\ \A a \in L : a \in 1 .. n /\ n \in Nat /\ n <= Size /\ DOMAIN text = 1 .. n
    BY <1>1, LettersAreLetters DEF Short
<1>3. /\ n \in Nat /\ n <= Size /\ DOMAIN text = 1 .. n /\ L \subseteq 1 .. n
    BY <1>1, <1>2, LettersAreLetters DEF Short
<1>4. PICK c : c = [i \in DOMAIN text |-> i]
    OBVIOUS
<1>5. c \in Piece /\ Len(c) = n /\ \A i \in 1 .. n : c[i] = i
  <2>1. c = [i \in 1 .. n |-> i]
      BY <1>3, <1>4
  <2>2. QED
      BY <1>3, <2>1 DEF Piece
<1>6. Held(c, L) = L /\ Rising(c, L)
    BY <1>3, <1>5 DEF Held, Rising
<1>7. /\ phase = "given" /\ pieces = <<>> /\ current = <<>>
      /\ pieces' = <<>> /\ current' = <<>> /\ phase' = "split"
      /\ chunks' = IF text = <<>> THEN <<>> ELSE <<c>>
    BY <1>4 DEF Short, Packing
<1>8. chunks' \in Seq(Piece) /\ AllHeld(chunks', L) = L
      /\ \A i \in 1 .. Len(chunks') : GoodChunk(chunks'[i], L)
  <2>1. CASE text = <<>>
    <3>1. n = 0
        BY <1>1, <2>1
    <3>2. L = {}
        BY <1>3, <3>1
    <3>3. chunks' = <<>>
        BY <1>7, <2>1
    <3>4. QED
        BY <3>2, <3>3, RowOfNone
  <2>2. CASE text # <<>>
    <3>1. n # 0
        BY <1>1, <2>2, EmptySeq
    <3>2. chunks' = <<c>>
        BY <1>7, <2>2
    <3>3. Len(c) \in 1 .. Size
        BY <1>3, <1>5, <3>1, ChunkerAssumption
    <3>4. GoodChunk(c, L)
        BY <1>6, <3>3 DEF GoodChunk, Gapless
    <3>5. <<c>> \in Seq(Piece) /\ AllHeld(<<c>>, L) = L
        BY <1>5, <1>6, RowOfOne
    <3>6. \A i \in 1 .. Len(<<c>>) : <<c>>[i] = c
        OBVIOUS
    <3>7. QED
        BY <3>2, <3>4, <3>5, <3>6
  <2>3. QED
      BY <2>1, <2>2
<1>9. <<>> \in Seq(Piece) /\ InOrder(<<>>, L) /\ AllHeld(<<>>, L) = {} /\ Len(<<>>) = 0
    BY RowOfNone
<1>10. Len(Joined(<<>>)) <= Size
    BY JoinedFew, ChunkerAssumption
<1>11. Len(Joined(current')) <= Size
    BY <1>7, <1>10 DEF Joined
<1>12. UpFrom({}, L) /\ {} \cup {} = {}
    BY DEF UpFrom
<1>13. \A i : i \notin 1 .. 0
    OBVIOUS
<1>14. QED
    BY <1>7, <1>8, <1>9, <1>11, <1>12, <1>13 DEF Packing, Joined

LEMMA LongPacks ==
    ASSUME NEW L, L = Letters, text \in Seq(Symbols), Packing(L), Long
    PROVE  Packing(L)'
<1>1. PICK ps : ps = Atomized
    OBVIOUS
<1>2. /\ ps \in Seq(Piece) /\ InOrder(ps, L) /\ AllHeld(ps, L) = L
      /\ \A i \in 1 .. Len(ps) : Len(ps[i]) \in 1 .. Size
    BY <1>1, LettersAreLetters, AtomizedInOrder
<1>3. /\ current = <<>> /\ chunks = <<>> /\ current' = <<>> /\ chunks' = <<>>
      /\ pieces' = ps /\ phase' = "packing"
    BY <1>1 DEF Long, Packing
<1>4. <<>> \in Seq(Piece) /\ InOrder(<<>>, L) /\ AllHeld(<<>>, L) = {} /\ Len(<<>>) = 0
    BY RowOfNone
<1>5. Len(Joined(<<>>)) <= Size
    BY JoinedFew, ChunkerAssumption
<1>6. UpFrom(L, L) /\ {} \cup L = L /\ {} \cup {} \cup L = L
    BY DEF UpFrom
<1>7. \A i : i \notin 1 .. 0
    OBVIOUS
<1>8. QED
    BY <1>2, <1>3, <1>4, <1>5, <1>6, <1>7 DEF Packing, Joined

(* What packing one more piece needs, whatever it is put with.               *)
LEMMA NextPiece ==
    ASSUME NEW L, Packing(L), pieces # <<>>,
           NEW ps \in Seq(Piece), InOrder(ps, L),
           UpFrom(AllHeld(ps, L), AllHeld(current, L)),
           Len(Joined(ps)) + Len(Head(pieces)) <= Size
    PROVE  LET more == Append(ps, Head(pieces))
               rest == Tail(pieces)
           IN /\ more \in Seq(Piece) /\ InOrder(more, L) /\ Len(Joined(more)) <= Size
              /\ rest \in Seq(Piece) /\ InOrder(rest, L)
              /\ \A i \in 1 .. Len(rest) : Len(rest[i]) \in 1 .. Size
              /\ \A a \in AllHeld(more, L), b \in AllHeld(rest, L) : a < b
              /\ AllHeld(more, L) \cup AllHeld(rest, L)
                    = AllHeld(ps, L) \cup AllHeld(pieces, L)
              /\ UpFrom(AllHeld(more, L) \cup AllHeld(rest, L), L)
              /\ UpFrom(AllHeld(rest, L), L)
<1>1. PICK h : h = Head(pieces)
    OBVIOUS
<1>2. PICK rest : rest = Tail(pieces)
    OBVIOUS
<1>3. PICK P : P = AllHeld(pieces, L)
    OBVIOUS
<1>4. PICK C : C = AllHeld(current, L)
    OBVIOUS
<1>5. PICK A : A = AllHeld(ps, L)
    OBVIOUS
<1>6. PICK R : R = AllHeld(rest, L)
    OBVIOUS
<1>7. PICK H : H = Held(h, L)
    OBVIOUS
<1>8. /\ pieces \in Seq(Piece) /\ InOrder(pieces, L)
      /\ \A i \in 1 .. Len(pieces) : Len(pieces[i]) \in 1 .. Size
      /\ \A a \in C, b \in P : a < b
      /\ UpFrom(C \cup P, L) /\ UpFrom(P, L)
    BY <1>3, <1>4 DEF Packing
<1>9. /\ h \in Piece /\ Rising(h, L) /\ rest \in Seq(Piece) /\ InOrder(rest, L)
      /\ \A i \in 1 .. Len(rest) : \E j \in 1 .. Len(pieces) : rest[i] = pieces[j]
      /\ P = H \cup R
      /\ \A a \in H, b \in R : a < b
    BY <1>1, <1>2, <1>3, <1>6, <1>7, <1>8, HeadAndTail
<1>10. UpFrom(A, C)
    BY <1>4, <1>5
<1>11. A \subseteq C
    BY <1>10 DEF UpFrom
<1>12. \A a \in A, b \in H : a < b
    BY <1>8, <1>9, <1>11
<1>13. PICK more : more = Append(ps, h)
    OBVIOUS
<1>14. more \in Seq(Piece) /\ InOrder(more, L) /\ AllHeld(more, L) = A \cup H
    BY <1>5, <1>7, <1>9, <1>12, <1>13, OneMore
<1>15. Len(Joined(more)) <= Size
    BY <1>1, <1>9, <1>13, JoinedAppend
<1>16. \A i \in 1 .. Len(rest) : Len(rest[i]) \in 1 .. Size
    BY <1>8, <1>9
<1>17. \A a \in A \cup H, b \in R : a < b
    BY <1>8, <1>9, <1>11
<1>18. (A \cup H) \cup R = A \cup P
    BY <1>9
<1>19. UpFrom(A \cup P, L)
  <2>1. A \cup P \subseteq L
      BY <1>8, <1>11 DEF UpFrom
  <2>2. ASSUME NEW a \in A \cup P, NEW b \in L, a < b PROVE b \in A \cup P
    <3>1. a \in C \cup P
        BY <1>11
    <3>2. b \in C \cup P
        BY <1>8, <2>2, <3>1 DEF UpFrom
    <3>3. a \in P => b \in P
        BY <1>8, <2>2 DEF UpFrom
    <3>4. a \in A /\ b \in C => b \in A
        BY <1>10, <2>2 DEF UpFrom
    <3>5. QED
        BY <3>2, <3>3, <3>4
  <2>3. QED
      BY <2>1, <2>2 DEF UpFrom
<1>20. UpFrom(R, L)
  <2>1. R \subseteq L
      BY <1>8, <1>9 DEF UpFrom
  <2>2. ASSUME NEW a \in R, NEW b \in L, a < b PROVE b \in R
    <3>1. a \in P /\ b \in P
        BY <1>8, <1>9, <2>2 DEF UpFrom
    <3>2. b \in H => b < a
        BY <1>9
    <3>3. a \in Nat /\ b \in Nat
      <4>1. \A x \in P : x \in Nat
        <5>1. TAKE x \in P
        <5>2. PICK i \in 1 .. Len(pieces) : x \in Held(pieces[i], L)
            BY <1>3, AllHeldAt
        <5>3. pieces[i] \in Piece
            BY <1>8, ElementOfSeq
        <5>4. QED
            BY <5>2, <5>3, HeldIsNat
      <4>2. QED
          BY <3>1, <4>1
    <3>4. b \notin H
        BY <2>2, <3>2, <3>3
    <3>5. QED
        BY <1>9, <3>1, <3>4
  <2>3. QED
      BY <2>1, <2>2 DEF UpFrom
<1>21. QED
    BY <1>1, <1>2, <1>3, <1>5, <1>6, <1>9, <1>13, <1>14, <1>15, <1>16, <1>17, <1>18,
       <1>19, <1>20

LEMMA PackedPacks ==
    ASSUME NEW L, L = Letters, text \in Seq(Symbols), Packing(L), Packed
    PROVE  Packing(L)'
<1>1. pieces # <<>> /\ phase = "packing" /\ phase' = "packing" /\ chunks' = chunks
    BY DEF Packing, Packed
<1>2. PICK ps : ps = current
    OBVIOUS
<1>3. PICK more : more = Append(current, Head(pieces))
    OBVIOUS
<1>4. PICK rest : rest = Tail(pieces)
    OBVIOUS
<1>5. /\ ps \in Seq(Piece) /\ InOrder(ps, L) /\ pieces \in Seq(Piece) /\ InOrder(pieces, L)
      /\ \A i \in 1 .. Len(pieces) : Len(pieces[i]) \in 1 .. Size
    BY <1>2 DEF Packing
<1>6. UpFrom(AllHeld(ps, L), AllHeld(current, L))
    BY <1>2 DEF UpFrom
<1>7. Len(Joined(ps)) + Len(Head(pieces)) <= Size
  <2>1. Head(pieces) \in Piece /\ Len(Head(pieces)) <= Size
      BY <1>1, <1>5, HeadAndTail
  <2>2. CASE ps = <<>>
      BY <2>1, <2>2, JoinedFew, LenProperties, ChunkerAssumption DEF Piece
  <2>3. CASE ps # <<>>
      BY <1>2, <2>3 DEF Packed
  <2>4. QED
      BY <2>2, <2>3
<1>8. /\ more \in Seq(Piece) /\ InOrder(more, L) /\ Len(Joined(more)) <= Size
      /\ rest \in Seq(Piece) /\ InOrder(rest, L)
      /\ \A i \in 1 .. Len(rest) : Len(rest[i]) \in 1 .. Size
      /\ \A a \in AllHeld(more, L), b \in AllHeld(rest, L) : a < b
      /\ AllHeld(more, L) \cup AllHeld(rest, L) = AllHeld(ps, L) \cup AllHeld(pieces, L)
      /\ UpFrom(AllHeld(more, L) \cup AllHeld(rest, L), L)
      /\ UpFrom(AllHeld(rest, L), L)
    BY <1>1, <1>2, <1>3, <1>4, <1>5, <1>6, <1>7, NextPiece
<1>9. current' = more /\ pieces' = rest
    BY <1>3, <1>4 DEF Packed
<1>10. /\ chunks \in Seq(Piece) /\ \A i \in 1 .. Len(chunks) : GoodChunk(chunks[i], L)
       /\ L = AllHeld(chunks, L) \cup AllHeld(ps, L) \cup AllHeld(pieces, L)
    BY <1>1, <1>2 DEF Packing
<1>11. L = AllHeld(chunks, L) \cup AllHeld(more, L) \cup AllHeld(rest, L)
    BY <1>8, <1>10
<1>12. QED
    BY <1>1, <1>8, <1>9, <1>10, <1>11 DEF Packing, Joined

(* What is packed is a stretch of the letters without a gap.                 *)
LEMMA CurrentGapless ==
    ASSUME NEW L, L \subseteq Nat, Packing(L)
    PROVE  Gapless(AllHeld(current, L), L)
<1>1. PICK C : C = AllHeld(current, L)
    OBVIOUS
<1>2. PICK P : P = AllHeld(pieces, L)
    OBVIOUS
<1>3. UpFrom(C \cup P, L) /\ \A a \in C, b \in P : a < b
    BY <1>1, <1>2 DEF Packing
<1>4. ASSUME NEW a \in C, NEW b \in C, NEW r \in L, a < r, r < b PROVE r \in C
  <2>1. r \in C \cup P
      BY <1>3, <1>4 DEF UpFrom
  <2>2. b \in Nat /\ r \in Nat
      BY <1>3 DEF UpFrom
  <2>3. r \in P => b < r
      BY <1>3
  <2>4. QED
      BY <1>4, <2>1, <2>2, <2>3
<1>5. QED
    BY <1>1, <1>4 DEF Gapless

LEMMA EmitPacks ==
    ASSUME NEW L, L = Letters, text \in Seq(Symbols), Packing(L)
    PROVE  /\ Emit(current) \in Seq(Piece)
           /\ \A i \in 1 .. Len(Emit(current)) : GoodChunk(Emit(current)[i], L)
           /\ AllHeld(Emit(current), L) = AllHeld(chunks, L) \cup AllHeld(current, L)
<1>1. L \subseteq Nat /\ \A a \in L : Kind(a) = "letter"
    BY LettersAreLetters
<1>2. Gapless(AllHeld(current, L), L)
    BY <1>1, CurrentGapless
<1>3. PICK ps : ps = current
    OBVIOUS
<1>4. /\ ps \in Seq(Piece) /\ InOrder(ps, L) /\ Len(Joined(ps)) <= Size
      /\ chunks \in Seq(Piece) /\ \A i \in 1 .. Len(chunks) : GoodChunk(chunks[i], L)
    BY <1>3 DEF Packing
<1>5. QED
    BY <1>1, <1>2, <1>3, <1>4, EmitKeeps

LEMMA FullPacks ==
    ASSUME NEW L, L = Letters, text \in Seq(Symbols), Packing(L), Full
    PROVE  Packing(L)'
<1>1. pieces # <<>> /\ current # <<>> /\ phase = "packing" /\ phase' = "packing"
    BY DEF Packing, Full
<1>2. PICK h : h = Head(pieces)
    OBVIOUS
<1>3. PICK ps : ps = Carry(h)
    OBVIOUS
<1>4. PICK more : more = Append(ps, h)
    OBVIOUS
<1>5. PICK rest : rest = Tail(pieces)
    OBVIOUS
<1>6. PICK cs : cs = Emit(current)
    OBVIOUS
<1>7. current' = more /\ pieces' = rest /\ chunks' = cs
    BY <1>2, <1>3, <1>4, <1>5, <1>6 DEF Full
<1>8. /\ current \in Seq(Piece) /\ InOrder(current, L)
      /\ pieces \in Seq(Piece) /\ InOrder(pieces, L)
      /\ \A i \in 1 .. Len(pieces) : Len(pieces[i]) \in 1 .. Size
      /\ L = AllHeld(chunks, L) \cup AllHeld(current, L) \cup AllHeld(pieces, L)
    BY <1>1 DEF Packing
<1>9. h \in Piece /\ Len(h) <= Size
    BY <1>1, <1>2, <1>8, HeadAndTail
<1>10. /\ ps \in Seq(Piece) /\ InOrder(ps, L)
       /\ UpFrom(AllHeld(ps, L), AllHeld(current, L))
       /\ Len(Joined(ps)) + Len(h) <= Size
    BY <1>1, <1>3, <1>8, <1>9, CarryKeeps
<1>11. /\ more \in Seq(Piece) /\ InOrder(more, L) /\ Len(Joined(more)) <= Size
       /\ rest \in Seq(Piece) /\ InOrder(rest, L)
       /\ \A i \in 1 .. Len(rest) : Len(rest[i]) \in 1 .. Size
       /\ \A a \in AllHeld(more, L), b \in AllHeld(rest, L) : a < b
       /\ AllHeld(more, L) \cup AllHeld(rest, L) = AllHeld(ps, L) \cup AllHeld(pieces, L)
       /\ UpFrom(AllHeld(more, L) \cup AllHeld(rest, L), L)
       /\ UpFrom(AllHeld(rest, L), L)
    BY <1>1, <1>2, <1>4, <1>5, <1>10, NextPiece
<1>12. /\ cs \in Seq(Piece) /\ \A i \in 1 .. Len(cs) : GoodChunk(cs[i], L)
       /\ AllHeld(cs, L) = AllHeld(chunks, L) \cup AllHeld(current, L)
    BY <1>6, EmitPacks
<1>13. L = AllHeld(cs, L) \cup AllHeld(more, L) \cup AllHeld(rest, L)
  <2>1. AllHeld(ps, L) \subseteq AllHeld(current, L)
      BY <1>10 DEF UpFrom
  <2>2. QED
      BY <1>8, <1>11, <1>12, <2>1
<1>14. QED
    BY <1>1, <1>7, <1>11, <1>12, <1>13 DEF Packing, Joined

LEMMA FinishedPacks ==
    ASSUME NEW L, L = Letters, text \in Seq(Symbols), Packing(L), Finished
    PROVE  Packing(L)'
<1>1. PICK cs : cs = Emit(current)
    OBVIOUS
<1>2. /\ phase = "packing" /\ phase' = "split" /\ pieces = <<>> /\ pieces' = <<>>
      /\ current' = current /\ chunks' = cs
    BY <1>1 DEF Finished
<1>3. /\ cs \in Seq(Piece) /\ \A i \in 1 .. Len(cs) : GoodChunk(cs[i], L)
      /\ AllHeld(cs, L) = AllHeld(chunks, L) \cup AllHeld(current, L)
    BY <1>1, EmitPacks
<1>4. AllHeld(pieces, L) = {}
    BY <1>2, RowOfNone
<1>5. L = AllHeld(cs, L)
    BY <1>2, <1>3, <1>4 DEF Packing
<1>6. QED
    BY <1>2, <1>3, <1>5 DEF Packing, Joined

LEMMA ChunkInvAlways ==
    ChunkerSpec => []ChunkInv
<1>1. ASSUME ChunkInv, [ChunkerNext]_chunkerVars PROVE ChunkInv'
  <2>1. PICK L : L = Letters
      OBVIOUS
  <2>2. text \in Seq(Symbols) /\ Packing(L)
      BY <1>1, <2>1 DEF ChunkInv
  <2>3. text' = text
      BY <1>1 DEF ChunkerNext, chunkerVars, Short, Long, Packed, Full, Finished
  <2>4. L = Letters'
      BY <2>1, <2>3 DEF Letters
  <2>5. Packing(L)'
    <3>1. CASE Short
        BY <2>1, <2>2, <3>1, ShortPacks
    <3>2. CASE Long
        BY <2>1, <2>2, <3>2, LongPacks
    <3>3. CASE Packed
        BY <2>1, <2>2, <3>3, PackedPacks
    <3>4. CASE Full
        BY <2>1, <2>2, <3>4, FullPacks
    <3>5. CASE Finished
        BY <2>1, <2>2, <3>5, FinishedPacks
    <3>6. CASE UNCHANGED chunkerVars
        BY <2>2, <3>6 DEF chunkerVars, Packing, Joined
    <3>7. QED
        BY <1>1, <3>1, <3>2, <3>3, <3>4, <3>5, <3>6 DEF ChunkerNext
  <2>6. QED
      BY <2>2, <2>3, <2>4, <2>5 DEF ChunkInv, Packing
<1>2. QED
    BY <1>1, InitPacks, PTL DEF ChunkerSpec

(* SizeBound: no chunk is empty or longer than chunk_size, for texts and     *)
(* words of any length.                                                      *)
THEOREM SizeBoundAlways ==
    ChunkerSpec => []SizeBound
<1>1. ASSUME ChunkInv PROVE SizeBound
  <2>1. PICK L : L = Letters
      OBVIOUS
  <2>2. chunks \in Seq(Piece) /\ \A i \in 1 .. Len(chunks) : GoodChunk(chunks[i], L)
      BY <1>1, <2>1 DEF ChunkInv, Packing
  <2>3. DOMAIN chunks = 1 .. Len(chunks)
      BY <2>2, LenProperties
  <2>4. QED
      BY <2>2, <2>3 DEF SizeBound, GoodChunk
<1>2. QED
    BY <1>1, ChunkInvAlways, PTL

(* NoLetterLost: the chunks of any text hold each of its letters,            *)
(* in their order and each chunk without a gap.                              *)
THEOREM NoLetterLostAlways ==
    ChunkerSpec => []NoLetterLost
<1>1. ASSUME ChunkInv PROVE NoLetterLost
  <2> DEFINE held(i) == Letters \cap ToSet(chunks[i])
  <2> SUFFICES ASSUME phase = "split"
               PROVE  /\ Letters = UNION {held(i) : i \in DOMAIN chunks}
                      /\ \A i \in DOMAIN chunks : \A j, k \in DOMAIN chunks[i] :
                            LET p == chunks[i][j]
                                q == chunks[i][k]
                            IN j < k /\ {p, q} \subseteq Letters =>
                                  p < q /\ {r \in Letters : p < r /\ r < q} \subseteq held(i)
      BY DEF NoLetterLost
  <2>1. PICK L : L = Letters
      OBVIOUS
  <2>2. PICK cs : cs = chunks
      OBVIOUS
  <2>3. /\ cs \in Seq(Piece) /\ \A i \in 1 .. Len(cs) : GoodChunk(cs[i], L)
        /\ L = AllHeld(cs, L)
      BY <1>1, <2>1, <2>2 DEF ChunkInv, Packing
  <2>4. DOMAIN cs = 1 .. Len(cs)
      BY <2>3, LenProperties
  <2>5. \A i \in 1 .. Len(cs) : cs[i] \in Piece /\ DOMAIN cs[i] = 1 .. Len(cs[i])
    <3>1. TAKE i \in 1 .. Len(cs)
    <3>2. cs[i] \in Piece
        BY <2>3, ElementOfSeq
    <3>3. QED
        BY <3>2, LenProperties DEF Piece
  <2>6. \A i \in 1 .. Len(cs) : held(i) = Held(cs[i], L)
      BY <2>1, <2>2, <2>5 DEF ToSet, Held
  <2> HIDE DEF held
  <2>7. \A a : a \in L <=> \E i \in 1 .. Len(cs) : a \in held(i)
      BY <2>3, <2>6, AllHeldAt
  <2>8. Letters = UNION {held(i) : i \in DOMAIN chunks}
      BY <2>1, <2>2, <2>4, <2>7
  <2>9. ASSUME NEW i \in DOMAIN chunks, NEW j \in DOMAIN chunks[i], NEW k \in DOMAIN chunks[i],
               j < k, {chunks[i][j], chunks[i][k]} \subseteq Letters
        PROVE  /\ chunks[i][j] < chunks[i][k]
               /\ {r \in Letters : chunks[i][j] < r /\ r < chunks[i][k]} \subseteq held(i)
    <3>1. PICK c : c = cs[i]
        OBVIOUS
    <3>2. /\ i \in 1 .. Len(cs) /\ c = chunks[i] /\ j \in 1 .. Len(c) /\ k \in 1 .. Len(c)
          /\ c[j] \in L /\ c[k] \in L
        BY <2>1, <2>2, <2>4, <2>5, <2>9, <3>1
    <3>3. Rising(c, L) /\ Gapless(Held(c, L), L) /\ held(i) = Held(c, L)
        BY <2>3, <2>6, <3>1, <3>2 DEF GoodChunk
    <3>4. c[j] < c[k]
        BY <2>9, <3>2, <3>3 DEF Rising
    <3>5. c[j] \in Held(c, L) /\ c[k] \in Held(c, L)
        BY <3>2, HeldAt
    <3>6. \A r \in L : c[j] < r /\ r < c[k] => r \in Held(c, L)
        BY <3>3, <3>5 DEF Gapless
    <3>7. QED
        BY <2>1, <3>2, <3>3, <3>4, <3>6
  <2>10. QED
      BY <2>8, <2>9
<1>2. QED
    BY <1>1, ChunkInvAlways, PTL
-----------------------------------------------------------------------------
(* The operators of the text alone do not change with the chunks.           *)
LEMMA SameText ==
    ASSUME text' = text
    PROVE  Atomized' = Atomized /\ \A c : Strip(c)' = Strip(c)
<1>1. \A p : Kind(p)' = Kind(p)
    BY DEF Kind
<1>2. \A c : Strip(c)' = Strip(c)
    BY DEF Strip, Kind
<1>3. \A p, h : Parts(p, h)' = Parts(p, h)
    BY DEF Parts, Kind
<1>4. \A ps, h : Refined(ps, h)' = Refined(ps, h)
    BY <1>3 DEF Refined, Fitting
<1>5. Atomized' = Atomized
    BY <1>4 DEF Atomized, Cut, Slice
<1>6. QED
    BY <1>2, <1>5

(* t stands in w at s.                                                       *)
Stands(t, w, s) ==
    /\ s \in Nat \ {0} /\ (s + Len(t)) - 1 <= Len(w)
    /\ \A i \in 1 .. Len(t) : t[i] = w[(s + i) - 1]

LEMMA AtParts ==
    ASSUME NEW t \in Piece, NEW u \in Piece, NEW w \in Piece, NEW s
    PROVE  Stands(t \o u, w, s) <=> Stands(t, w, s) /\ Stands(u, w, s + Len(t))
<1>1. PICK m : m = Len(t)
    OBVIOUS
<1>2. PICK n : n = Len(u)
    OBVIOUS
<1>3. PICK tu : tu = t \o u
    OBVIOUS
<1>4. m \in Nat /\ n \in Nat /\ Len(w) \in Nat
    BY <1>1, <1>2, LenProperties DEF Piece
<1>5. /\ Len(tu) = m + n
      /\ \A i \in 1 .. m + n : tu[i] = IF i <= m THEN t[i] ELSE u[i - m]
    BY <1>1, <1>2, <1>3, ConcatProperties DEF Piece
<1>6. ASSUME Stands(t, w, s), Stands(u, w, s + m) PROVE Stands(tu, w, s)
  <2>1. /\ s \in Nat \ {0} /\ (s + m) - 1 <= Len(w) /\ ((s + m) + n) - 1 <= Len(w)
        /\ \A i \in 1 .. m : t[i] = w[(s + i) - 1]
        /\ \A i \in 1 .. n : u[i] = w[((s + m) + i) - 1]
      BY <1>1, <1>2, <1>6 DEF Stands
  <2>2. ASSUME NEW i \in 1 .. m + n PROVE tu[i] = w[(s + i) - 1]
    <3>1. CASE i <= m
      <4>1. i \in 1 .. m
          BY <1>4, <3>1
      <4>2. t[i] = w[(s + i) - 1]
          BY <2>1, <4>1
      <4>3. tu[i] = t[i]
          BY <1>5, <3>1
      <4>4. QED
          BY <4>2, <4>3
    <3>2. CASE ~(i <= m)
      <4>1. i - m \in 1 .. n /\ ((s + m) + (i - m)) - 1 = (s + i) - 1
          BY <1>4, <2>1, <3>2
      <4>2. u[i - m] = w[((s + m) + (i - m)) - 1]
          BY <2>1, <4>1
      <4>3. QED
          BY <1>5, <3>2, <4>1, <4>2
    <3>3. QED
        BY <3>1, <3>2
  <2>3. (s + (m + n)) - 1 <= Len(w)
      BY <1>4, <2>1
  <2>4. QED
      BY <1>5, <2>1, <2>2, <2>3 DEF Stands
<1>7. ASSUME Stands(tu, w, s) PROVE Stands(t, w, s) /\ Stands(u, w, s + m)
  <2>1. /\ s \in Nat \ {0} /\ (s + (m + n)) - 1 <= Len(w)
        /\ \A i \in 1 .. m + n : tu[i] = w[(s + i) - 1]
      BY <1>5, <1>7 DEF Stands
  <2>2. ASSUME NEW i \in 1 .. m PROVE t[i] = w[(s + i) - 1]
    <3>1. i \in 1 .. m + n /\ i <= m
        BY <1>4
    <3>2. QED
        BY <1>5, <2>1, <3>1
  <2>3. ASSUME NEW i \in 1 .. n PROVE u[i] = w[((s + m) + i) - 1]
    <3>1. m + i \in 1 .. m + n /\ ~(m + i <= m) /\ (m + i) - m = i
          /\ ((s + m) + i) - 1 = (s + (m + i)) - 1
        BY <1>4, <2>1
    <3>2. QED
        BY <1>5, <2>1, <3>1
  <2>4. s + m \in Nat \ {0} /\ ((s + m) + n) - 1 <= Len(w) /\ (s + m) - 1 <= Len(w)
      BY <1>4, <2>1
  <2>5. QED
      BY <1>1, <1>2, <2>1, <2>2, <2>3, <2>4 DEF Stands
<1>8. QED
    BY <1>1, <1>3, <1>6, <1>7

(* What stands in a sequence that stands in another.                         *)
LEMMA AtWithin ==
    ASSUME NEW t \in Piece, NEW u \in Piece, NEW w \in Piece, NEW s, NEW r,
           Stands(t, u, r), Stands(u, w, s)
    PROVE  Stands(t, w, (s + r) - 1)
<1>1. /\ Len(t) \in Nat /\ Len(u) \in Nat /\ Len(w) \in Nat
      /\ s \in Nat \ {0} /\ r \in Nat \ {0}
      /\ (s + Len(u)) - 1 <= Len(w) /\ (r + Len(t)) - 1 <= Len(u)
    BY LenProperties DEF Stands, Piece
<1>2. PICK q : q = (s + r) - 1
    OBVIOUS
<1>3. q \in Nat \ {0} /\ (q + Len(t)) - 1 <= Len(w)
    BY <1>1, <1>2
<1>4. ASSUME NEW i \in 1 .. Len(t) PROVE t[i] = w[(q + i) - 1]
  <2>1. (r + i) - 1 \in 1 .. Len(u) /\ (s + ((r + i) - 1)) - 1 = (q + i) - 1
      BY <1>1, <1>2
  <2>2. t[i] = u[(r + i) - 1] /\ u[(r + i) - 1] = w[(s + ((r + i) - 1)) - 1]
      BY <2>1 DEF Stands
  <2>3. QED
      BY <2>1, <2>2
<1>5. QED
    BY <1>2, <1>3, <1>4 DEF Stands

LEMMA ThreePieces ==
    ASSUME NEW x \in Piece, NEW y \in Piece, NEW z \in Piece
    PROVE  (x \o y) \o z = x \o (y \o z)
<1>1. PICK S : S = Nat
    OBVIOUS
<1>2. x \in Seq(S) /\ y \in Seq(S) /\ z \in Seq(S)
    BY <1>1 DEF Piece
<1>3. QED
    BY <1>2, ConcatAssociative

(* Joining pieces and more pieces.                                           *)
LEMMA JoinedConcat ==
    ASSUME NEW ps \in Seq(Piece), NEW qs \in Seq(Piece)
    PROVE  /\ ps \o qs \in Seq(Piece)
           /\ Joined(ps) \in Piece /\ Joined(qs) \in Piece /\ Joined(ps \o qs) \in Piece
           /\ Joined(ps \o qs) = Joined(ps) \o Joined(qs)
<1>1. PICK N : N = Len(qs)
    OBVIOUS
<1>2. PICK m : m = Len(ps)
    OBVIOUS
<1>3. m \in Nat /\ N \in Nat /\ Len(qs) \in Nat
    BY <1>1, <1>2, LenProperties
<1> DEFINE upto(n) == SubSeq(qs, 1, n)
           good == {n \in 0 .. N : Joined(ps \o upto(n)) = Joined(ps) \o Joined(upto(n))}
<1>4. \A n \in 0 .. N : upto(n) \in Seq(Piece) /\ Len(upto(n)) = n
                        /\ \A j \in 1 .. n : upto(n)[j] = qs[j]
  <2>1. TAKE n \in 0 .. N
  <2>2. n \in Nat /\ 1 \in Nat \ {0} /\ 1 <= n + 1 /\ n <= Len(qs)
      BY <1>1, <1>3
  <2>3. /\ SubSeq(qs, 1, n) \in Seq(Piece) /\ Len(SubSeq(qs, 1, n)) = (n - 1) + 1
        /\ \A j \in 1 .. (n - 1) + 1 : SubSeq(qs, 1, n)[j] = qs[(1 + j) - 1]
      BY <2>2, StretchOf
  <2>4. (n - 1) + 1 = n /\ \A j \in 1 .. n : (1 + j) - 1 = j
      BY <2>2
  <2>5. QED
      BY <2>3, <2>4
<1>5. upto(0) = <<>> /\ upto(N) = qs
  <2>1. 0 \in 0 .. N /\ N \in 0 .. N
      BY <1>3
  <2> HIDE DEF upto
  <2>2. upto(0) = <<>>
      BY <1>4, <2>1, EmptySeq
  <2>3. upto(N) \in Seq(Piece) /\ Len(upto(N)) = Len(qs) /\ \A j \in 1 .. Len(qs) : upto(N)[j] = qs[j]
      BY <1>1, <1>4, <2>1
  <2>4. upto(N) = qs
      BY <2>3, SeqEqual
  <2>5. QED
      BY <2>2, <2>4
<1> HIDE DEF upto
<1>6. ASSUME NEW rs \in Seq(Piece) PROVE Joined(rs) \in Piece
    BY FlattenLaid DEF Joined, Piece
<1>7. 0 \in good
  <2>1. ps \o <<>> = ps /\ Joined(ps) \o <<>> = Joined(ps)
      BY <1>6, ConcatEmptySeq DEF Piece
  <2>2. 0 \in 0 .. N
      BY <1>3
  <2>3. QED
      BY <1>5, <2>1, <2>2, JoinedFew
<1>8. ASSUME NEW n \in 0 .. N, n \in good, n + 1 <= N PROVE n + 1 \in good
  <2>1. PICK a : a = upto(n)
      OBVIOUS
  <2>2. PICK b : b = upto(n + 1)
      OBVIOUS
  <2>3. PICK q : q = qs[n + 1]
      OBVIOUS
  <2>4. n \in Nat /\ n + 1 \in 0 .. N /\ n + 1 \in 1 .. N /\ q \in Piece
      BY <1>1, <1>3, <1>8, <2>3, ElementOfSeq
  <2>5. /\ a \in Seq(Piece) /\ Len(a) = n /\ \A j \in 1 .. n : a[j] = qs[j]
        /\ b \in Seq(Piece) /\ Len(b) = n + 1 /\ \A j \in 1 .. n + 1 : b[j] = qs[j]
      BY <1>4, <2>1, <2>2, <2>4
  <2>6. b = Append(a, q)
    <3>1. PICK c : c = Append(a, q)
        OBVIOUS
    <3>2. c \in Seq(Piece) /\ Len(c) = n + 1 /\ c[n + 1] = q /\ \A j \in 1 .. n : c[j] = a[j]
        BY <2>4, <2>5, <3>1, AppendProperties
    <3>3. \A j \in 1 .. n + 1 : j \in 1 .. n \/ j = n + 1
        BY <2>4
    <3>4. \A j \in 1 .. Len(b) : b[j] = c[j]
        BY <2>3, <2>5, <3>2, <3>3
    <3>5. QED
        BY <2>5, <3>1, <3>2, <3>4, SeqEqual
  <2>7. ps \o b = Append(ps \o a, q)
    <3>1. b = a \o <<q>>
        BY <2>4, <2>5, <2>6, AppendIsConcat
    <3>2. ps \o (a \o <<q>>) = (ps \o a) \o <<q>>
        BY <2>4, <2>5, ConcatAssociative
    <3>3. ps \o a \in Seq(Piece)
        BY <2>5
    <3>4. QED
        BY <2>4, <3>1, <3>2, <3>3, AppendIsConcat
  <2>8. Joined(ps \o b) = Joined(ps \o a) \o q /\ Joined(b) = Joined(a) \o q
    <3>1. ps \o a \in Seq(Piece)
        BY <2>5
    <3>2. QED
        BY <2>4, <2>5, <2>6, <2>7, <3>1, JoinedAppend
  <2>9. Joined(ps \o a) = Joined(ps) \o Joined(a)
      BY <1>8, <2>1
  <2>10. (Joined(ps) \o Joined(a)) \o q = Joined(ps) \o (Joined(a) \o q)
    <3>1. Joined(ps) \in Piece /\ Joined(a) \in Piece
        BY <1>6, <2>5
    <3>2. QED
        BY <2>4, <3>1, ThreePieces
  <2>11. Joined(ps \o b) = Joined(ps) \o Joined(b)
      BY <2>8, <2>9, <2>10
  <2>12. QED
      BY <2>2, <2>4, <2>11
<1>9. N \in good
  <2> HIDE DEF good
  <2>1. \A n \in 0 .. N : n \in good
      BY <1>3, <1>7, <1>8, UpTo
  <2>2. QED
      BY <1>3, <2>1
<1>10. Joined(ps \o qs) = Joined(ps) \o Joined(qs)
    BY <1>5, <1>9
<1>11. ps \o qs \in Seq(Piece)
    OBVIOUS
<1>12. QED
    BY <1>6, <1>10, <1>11

(* White space is stripped from the ends, up to what is solid.               *)
Whites == {p \in Nat : Kind(p) \in White}

LEMMA StripEnds ==
    ASSUME NEW c \in Piece, NEW W, W = Whites
    PROVE  /\ Strip(c) \in Piece
           /\ Strip(c) = <<>> => \A i \in 1 .. Len(c) : c[i] \in W
           /\ Strip(c) # <<>> =>
                \E m, n \in 1 .. Len(c) :
                   /\ m <= n /\ c[m] \notin W /\ c[n] \notin W
                   /\ \A i \in 1 .. Len(c) : i < m \/ n < i => c[i] \in W
                   /\ Stands(Strip(c), c, m) /\ Len(Strip(c)) = (n - m) + 1
<1>1. DOMAIN c = 1 .. Len(c) /\ Len(c) \in Nat
    BY LenProperties DEF Piece
<1>2. PICK solid : solid = {i \in DOMAIN c : Kind(c[i]) \notin White}
    OBVIOUS
<1>3. \A i \in 1 .. Len(c) : c[i] \in Nat
    BY <1>1, ElementOfSeq DEF Piece
<1>4. /\ solid \in SUBSET Nat /\ solid \in SUBSET (0 .. Len(c)) /\ solid \in SUBSET (1 .. Len(c))
      /\ \A i \in 1 .. Len(c) : i \in solid <=> c[i] \notin W
    BY <1>1, <1>2, <1>3 DEF Whites
<1>5. CASE solid = {}
  <2>1. Strip(c) = <<>>
      BY <1>2, <1>5 DEF Strip
  <2>2. <<>> \in Piece
      BY DEF Piece
  <2>3. QED
      BY <1>4, <1>5, <2>1, <2>2
<1>6. CASE solid # {}
  <2>1. PICK m : m = Min(solid)
      OBVIOUS
  <2>2. PICK n : n = Max(solid)
      OBVIOUS
  <2>3. m \in solid /\ \A k \in solid : m <= k
      BY <1>4, <1>6, <2>1, LeastNat
  <2>4. n \in solid /\ \A k \in solid : k <= n
      BY <1>1, <1>4, <1>6, <2>2, GreatestNat
  <2>5. /\ m \in Nat \ {0} /\ n \in Nat /\ m <= n + 1 /\ m <= n /\ n <= Len(c)
        /\ m \in 1 .. Len(c) /\ n \in 1 .. Len(c) /\ c[m] \notin W /\ c[n] \notin W
      BY <1>1, <1>4, <2>3, <2>4
  <2>6. PICK t : t = SubSeq(c, m, n)
      OBVIOUS
  <2>7. Strip(c) = t
      BY <1>2, <1>6, <2>1, <2>2, <2>6 DEF Strip
  <2>8. t \in Piece /\ Len(t) = (n - m) + 1 /\ \A j \in 1 .. (n - m) + 1 : t[j] = c[(m + j) - 1]
      BY <2>5, <2>6, Stretch
  <2>9. Stands(t, c, m)
    <3>1. (m + Len(t)) - 1 <= Len(c)
        BY <1>1, <2>5, <2>8
    <3>2. QED
        BY <2>5, <2>8, <3>1 DEF Stands
  <2>10. \A i \in 1 .. Len(c) : i < m \/ n < i => c[i] \in W
    <3>1. TAKE i \in 1 .. Len(c)
    <3>2. i \in solid => m <= i /\ i <= n
        BY <2>3, <2>4
    <3>3. QED
        BY <1>4, <2>5, <3>2
  <2>11. t # <<>>
      BY <2>5, <2>8
  <2>12. QED
      BY <2>5, <2>7, <2>8, <2>9, <2>10, <2>11
<1>7. QED
    BY <1>5, <1>6

(* What stands at the same place and is no longer is a prefix.               *)
LEMMA PrefixAt ==
    ASSUME NEW t \in Piece, NEW u \in Piece, NEW w, NEW s, Stands(t, w, s), Stands(u, w, s),
           Len(t) <= Len(u)
    PROVE  IsPrefix(t, u)
<1>1. PICK n : n = Len(t)
    OBVIOUS
<1>2. n \in Nat /\ Len(u) \in Nat /\ n <= Len(t) /\ n <= Len(u) /\ 1 <= n + 1 /\ 1 \in Nat \ {0}
    BY <1>1, LenProperties DEF Piece
<1>3. PICK p : p = SubSeq(t, 1, n)
    OBVIOUS
<1>4. PICK q : q = SubSeq(u, 1, n)
    OBVIOUS
<1>5. (n - 1) + 1 = n /\ \A j \in 1 .. n : (1 + j) - 1 = j /\ j \in 1 .. Len(t) /\ j \in 1 .. Len(u)
    BY <1>2
<1>6. p \in Piece /\ Len(p) = n /\ \A j \in 1 .. n : p[j] = t[j]
    BY <1>2, <1>3, <1>5, Stretch
<1>7. q \in Piece /\ Len(q) = n /\ \A j \in 1 .. n : q[j] = u[j]
    BY <1>2, <1>4, <1>5, Stretch
<1>8. \A j \in 1 .. n : t[j] = w[(s + j) - 1] /\ u[j] = w[(s + j) - 1]
    BY <1>5 DEF Stands
<1>9. p = q
  <2>1. \A j \in 1 .. Len(p) : p[j] = q[j]
      BY <1>6, <1>7, <1>8
  <2>2. QED
      BY <1>6, <1>7, <2>1, SeqEqual DEF Piece
<1>10. QED
    BY <1>1, <1>2, <1>3, <1>4, <1>9 DEF IsPrefix

(* The end of a piece, and of pieces.                                        *)
LEMMA PieceEnd ==
    ASSUME NEW S, NEW s \in Seq(S), NEW k \in 1 .. Len(s) + 1
    PROVE  /\ SubSeq(s, 1, k - 1) \in Seq(S) /\ SubSeq(s, k, Len(s)) \in Seq(S)
           /\ s = SubSeq(s, 1, k - 1) \o SubSeq(s, k, Len(s))
           /\ Len(SubSeq(s, k, Len(s))) = (Len(s) - k) + 1
           /\ \A j \in 1 .. Len(SubSeq(s, k, Len(s))) :
                 \E i \in 1 .. Len(s) : SubSeq(s, k, Len(s))[j] = s[i]
<1>1. PICK n : n = Len(s)
    OBVIOUS
<1>2. PICK m : m = k - 1
    OBVIOUS
<1>3. /\ n \in Nat /\ m \in 0 .. n /\ m \in Nat /\ m + 1 = k /\ 1 \in 1 .. n + 1
      /\ m \in 1 - 1 .. n /\ n \in m .. n /\ k \in Nat \ {0} /\ k <= n + 1 /\ 1 <= m + 1
      /\ m <= n /\ n <= n /\ 1 \in Nat \ {0}
    BY <1>1, <1>2, LenProperties
<1>4. SubSeq(s, 1, m) \o SubSeq(s, k, n) = SubSeq(s, 1, n)
    BY <1>1, <1>3, ConcatAdjacentSubSeq
<1>5. SubSeq(s, 1, n) = s
    BY <1>1, SubSeqFull
<1>6. /\ SubSeq(s, k, n) \in Seq(S) /\ Len(SubSeq(s, k, n)) = (n - k) + 1
      /\ \A j \in 1 .. (n - k) + 1 : SubSeq(s, k, n)[j] = s[(k + j) - 1]
    BY <1>1, <1>3, StretchOf
<1>7. SubSeq(s, 1, m) \in Seq(S)
    BY <1>1, <1>3, StretchOf
<1>8. \A j \in 1 .. (n - k) + 1 : (k + j) - 1 \in 1 .. n
    BY <1>3
<1>9. \A j \in 1 .. Len(SubSeq(s, k, n)) : \E i \in 1 .. n : SubSeq(s, k, n)[j] = s[i]
    BY <1>6, <1>8
<1>10. QED
    BY <1>1, <1>2, <1>4, <1>5, <1>6, <1>7, <1>9

LEMMA JoinedEnd ==
    ASSUME NEW ps \in Seq(Piece), NEW k \in 1 .. Len(ps) + 1
    PROVE  LET tail == SubSeq(ps, k, Len(ps))
           IN /\ tail \in Seq(Piece) /\ Joined(tail) \in Piece
              /\ \A j \in 1 .. Len(tail) : \E i \in 1 .. Len(ps) : tail[j] = ps[i]
              /\ \E u \in Piece : Joined(ps) = u \o Joined(tail)
<1>1. PICK a : a = SubSeq(ps, 1, k - 1)
    OBVIOUS
<1>2. PICK b : b = SubSeq(ps, k, Len(ps))
    OBVIOUS
<1>3. /\ a \in Seq(Piece) /\ b \in Seq(Piece) /\ ps = a \o b
      /\ \A j \in 1 .. Len(b) : \E i \in 1 .. Len(ps) : b[j] = ps[i]
    BY <1>1, <1>2, PieceEnd
<1>4. Joined(a) \in Piece /\ Joined(b) \in Piece /\ Joined(ps) = Joined(a) \o Joined(b)
    BY <1>3, JoinedConcat
<1>5. QED
    BY <1>2, <1>3, <1>4

(* The last piece ends what the pieces join to, which is not empty.          *)
LEMMA LastEnds ==
    ASSUME NEW ps \in Seq(Piece), ps # <<>>
    PROVE  /\ Last(ps) \in Piece /\ \E i \in 1 .. Len(ps) : Last(ps) = ps[i]
           /\ \E u \in Piece : Joined(ps) = u \o Last(ps)
<1>1. PICK n : n = Len(ps)
    OBVIOUS
<1>2. n \in Nat /\ n # 0 /\ n \in 1 .. n /\ n \in 1 .. n + 1 /\ n \in Nat \ {0}
    BY <1>1, LenProperties, EmptySeq
<1>3. Last(ps) = ps[n] /\ ps[n] \in Piece
    BY <1>1, <1>2, ElementOfSeq DEF Last
<1>4. PICK b : b = SubSeq(ps, n, n)
    OBVIOUS
<1>5. /\ b \in Seq(Piece) /\ Len(b) = (n - n) + 1
      /\ \A j \in 1 .. (n - n) + 1 : b[j] = ps[(n + j) - 1]
    BY <1>1, <1>2, <1>4, StretchOf
<1>6. Len(b) = 1 /\ b[1] = ps[n]
    BY <1>2, <1>5
<1>7. b = <<ps[n]>>
  <2>1. PICK q : q = ps[n]
      OBVIOUS
  <2>2. b \in Seq(Piece) /\ q \in Piece /\ Len(b) = 1 /\ b[1] = q
      BY <1>3, <1>5, <1>6, <2>1
  <2>3. b = <<q>>
      BY <2>2
  <2>4. QED
      BY <2>1, <2>3
<1>8. Joined(b) = ps[n]
    BY <1>3, <1>7, JoinedFew
<1>9. \E u \in Piece : Joined(ps) = u \o Joined(b)
  <2>1. n \in 1 .. Len(ps) + 1 /\ b = SubSeq(ps, n, Len(ps))
      BY <1>1, <1>2, <1>4
  <2>2. QED
      BY <2>1, JoinedEnd
<1>10. QED
    BY <1>1, <1>2, <1>3, <1>8, <1>9

LEMMA Longer ==
    ASSUME NEW u \in Piece, NEW s \in Piece
    PROVE  /\ u \o s \in Piece /\ Len(u \o s) = Len(u) + Len(s)
           /\ Len(u) \in Nat /\ Len(s) \in Nat
           /\ s # <<>> => Len(s) >= 1 /\ u \o s # <<>>
<1>1. /\ u \o s \in Piece /\ Len(u \o s) = Len(u) + Len(s)
      /\ Len(u) \in Nat /\ Len(s) \in Nat
    BY ConcatProperties, LenProperties DEF Piece
<1>2. s # <<>> => Len(s) # 0
    BY EmptySeq DEF Piece
<1>3. Len(u \o s) # 0 => u \o s # <<>>
    OBVIOUS
<1>4. QED
    BY <1>1, <1>2, <1>3

LEMMA JoinedNotEmpty ==
    ASSUME NEW ps \in Seq(Piece), ps # <<>>, \A i \in 1 .. Len(ps) : ps[i] # <<>>
    PROVE  Joined(ps) # <<>>
<1>1. Last(ps) \in Piece /\ Last(ps) # <<>>
    BY LastEnds
<1>2. PICK u \in Piece : Joined(ps) = u \o Last(ps)
    BY LastEnds
<1>3. QED
    BY <1>1, <1>2, Longer

LEMMA TailOfEnds ==
    ASSUME NEW s \in Piece, Overlap <= Len(s)
    PROVE  /\ TailOf(s) \in Piece /\ Len(TailOf(s)) = Overlap
           /\ \E u \in Piece : s = u \o TailOf(s)
<1>1. PICK k : k = Len(s) - Overlap + 1
    OBVIOUS
<1>2. Overlap \in Nat /\ Len(s) \in Nat
    BY LenProperties, ChunkerAssumption DEF Piece
<1>3. k \in 1 .. Len(s) + 1 /\ (Len(s) - k) + 1 = Overlap
    BY <1>1, <1>2
<1>4. TailOf(s) = SubSeq(s, k, Len(s))
    BY <1>1 DEF TailOf
<1>5. PICK a : a = SubSeq(s, 1, k - 1)
    OBVIOUS
<1>6. PICK b : b = SubSeq(s, k, Len(s))
    OBVIOUS
<1>7. a \in Piece /\ b \in Piece /\ s = a \o b /\ Len(b) = Overlap
    BY <1>3, <1>5, <1>6, PieceEnd DEF Piece
<1>8. QED
    BY <1>4, <1>6, <1>7

LEMMA WholeTailEnds ==
    ASSUME current \in Seq(Piece), current # <<>>
    PROVE  /\ WholeTail \in Seq(Piece) /\ Len(Joined(WholeTail)) <= Overlap
           /\ \A j \in 1 .. Len(WholeTail) : \E i \in 1 .. Len(current) : WholeTail[j] = current[i]
           /\ \E u \in Piece : Joined(current) = u \o Joined(WholeTail)
<1>1. PICK n : n = Len(current)
    OBVIOUS
<1>2. n \in Nat /\ n + 1 \in 1 .. n + 1
    BY <1>1, LenProperties
<1> DEFINE from(k) == SubSeq(current, k, n)
           fits == {k \in 1 .. n + 1 : Len(Joined(from(k))) <= Overlap}
<1>3. WholeTail = from(Min(fits))
    BY <1>1 DEF WholeTail
<1>4. from(n + 1) = <<>>
  <2>1. n + 1 \in Nat \ {0} /\ n + 1 <= n + 1 /\ n <= Len(current) /\ (n - (n + 1)) + 1 = 0
      BY <1>1, <1>2
  <2>2. from(n + 1) \in Seq(Piece) /\ Len(from(n + 1)) = (n - (n + 1)) + 1
      BY <1>2, <2>1, StretchOf
  <2>3. Len(from(n + 1)) = 0
      BY <2>1, <2>2
  <2>4. QED
      BY <2>2, <2>3, EmptySeq
<1>5. n + 1 \in fits
  <2>1. Len(Joined(from(n + 1))) = 0
      BY <1>4, JoinedFew
  <2>2. 0 <= Overlap
      BY ChunkerAssumption
  <2> HIDE DEF from
  <2>3. QED
      BY <1>2, <2>1, <2>2
<1>6. Min(fits) \in fits
  <2>1. fits \in SUBSET Nat /\ fits # {}
      BY <1>2, <1>5
  <2> HIDE DEF fits
  <2>2. QED
      BY <2>1, LeastNat
<1>7. PICK m : m = Min(fits)
    OBVIOUS
<1>8. m \in 1 .. n + 1 /\ Len(Joined(from(m))) <= Overlap /\ WholeTail = from(m)
    BY <1>3, <1>6, <1>7
<1>9. PICK ps : ps = current
    OBVIOUS
<1>10. PICK t : t = from(m)
    OBVIOUS
<1>11. /\ t \in Seq(Piece) /\ Joined(t) \in Piece
       /\ \A j \in 1 .. Len(t) : \E i \in 1 .. n : t[j] = ps[i]
       /\ \E u \in Piece : Joined(ps) = u \o Joined(t)
  <2>1. ps \in Seq(Piece) /\ m \in 1 .. Len(ps) + 1 /\ t = SubSeq(ps, m, Len(ps)) /\ n = Len(ps)
      BY <1>1, <1>8, <1>9, <1>10
  <2>2. QED
      BY <2>1, JoinedEnd
<1> HIDE DEF from, fits
<1>12. WholeTail = t /\ ps = current /\ n = Len(current)
    BY <1>1, <1>8, <1>9, <1>10
<1>13. Len(Joined(t)) <= Overlap
    BY <1>8, <1>10
<1>14. QED
    BY <1>11, <1>12, <1>13

(* What is carried over is the end of what was packed, and is not empty      *)
(* unless it would leave no room for the piece that is next.                 *)
LEMMA CarryEnds ==
    ASSUME NEW L, current \in Seq(Piece), current # <<>>, InOrder(current, L),
           \A i \in 1 .. Len(current) : current[i] # <<>>,
           NEW next \in Piece
    PROVE  /\ Carry(next) \in Seq(Piece)
           /\ \A i \in 1 .. Len(Carry(next)) : Carry(next)[i] # <<>>
           /\ \E u \in Piece : Joined(current) = u \o Joined(Carry(next))
           /\ Overlap > 0 /\ Joined(Carry(next)) = <<>> => Len(next) + Overlap > Size
<1>1. PICK c : c = IF WholeTail = <<>> /\ Overlap > 0 THEN <<TailOf(Last(current))>> ELSE WholeTail
    OBVIOUS
<1>2. Carry(next) = IF Len(Joined(c)) + Len(next) > Size THEN <<>> ELSE c
    BY <1>1 DEF Carry
<1>3. Overlap \in Nat /\ Size \in Nat /\ Len(next) \in Nat
    BY LenProperties, ChunkerAssumption DEF Piece
<1>4. PICK ps : ps = current
    OBVIOUS
<1>5. /\ c \in Seq(Piece) /\ \A i \in 1 .. Len(c) : c[i] # <<>>
      /\ \E u \in Piece : Joined(ps) = u \o Joined(c)
      /\ Len(Joined(c)) <= Overlap
      /\ Overlap > 0 => c # <<>>
  <2>1. CASE WholeTail = <<>> /\ Overlap > 0
    <3>1. PICK s : s = Last(ps)
        OBVIOUS
    <3>2. PICK t : t = TailOf(s)
        OBVIOUS
    <3>3. ps \in Seq(Piece) /\ ps # <<>>
        BY <1>4
    <3>4. s \in Piece /\ \E u \in Piece : Joined(ps) = u \o s
        BY <3>1, <3>3, LastEnds
    <3>5. Overlap <= Len(s)
        BY <1>4, <2>1, <3>1, WholeTailIsLast
    <3>6. t \in Piece /\ Len(t) = Overlap /\ \E u \in Piece : s = u \o t
        BY <3>2, <3>4, <3>5, TailOfEnds
    <3>7. PICK u \in Piece : Joined(ps) = u \o s
        BY <3>4
    <3>8. PICK v \in Piece : s = v \o t
        BY <3>6
    <3>9. u \o v \in Piece /\ Joined(ps) = (u \o v) \o t
      <4>1. t \in Piece
          BY <3>6
      <4>2. u \o v \in Piece
          BY <3>7, <3>8, Longer
      <4>3. (u \o v) \o t = u \o (v \o t)
          BY <3>7, <3>8, <4>1, ThreePieces
      <4>4. QED
          BY <3>7, <3>8, <4>2, <4>3
    <3>10. c = <<t>> /\ Joined(c) = t /\ <<t>> \in Seq(Piece)
        BY <1>1, <1>4, <2>1, <3>1, <3>2, <3>6, JoinedFew
    <3>11. t # <<>>
        BY <1>3, <2>1, <3>6
    <3>12. \A i \in 1 .. Len(c) : c[i] # <<>>
        BY <3>10, <3>11
    <3>13. c # <<>>
        BY <3>10
    <3>14. \E w \in Piece : Joined(ps) = w \o Joined(c)
        BY <3>9, <3>10
    <3>15. Len(Joined(c)) <= Overlap
        BY <1>3, <3>6, <3>10
    <3>16. QED
        BY <3>10, <3>12, <3>13, <3>14, <3>15
  <2>2. CASE ~(WholeTail = <<>> /\ Overlap > 0)
    <3>1. c = WholeTail
        BY <1>1, <2>2
    <3>2. /\ c \in Seq(Piece) /\ Len(Joined(c)) <= Overlap
          /\ \A j \in 1 .. Len(c) : \E i \in 1 .. Len(ps) : c[j] = ps[i]
          /\ \E u \in Piece : Joined(ps) = u \o Joined(c)
        BY <1>4, <3>1, WholeTailEnds
    <3>3. \A j \in 1 .. Len(c) : c[j] # <<>>
        BY <1>4, <3>2
    <3>4. QED
        BY <2>2, <3>1, <3>2, <3>3
  <2>3. QED
      BY <2>1, <2>2
<1>6. Joined(c) \in Piece /\ Len(Joined(c)) \in Nat
    BY <1>5, FlattenLaid, LenProperties DEF Joined, Piece
<1>7. CASE Len(Joined(c)) + Len(next) > Size
  <2>1. Carry(next) = <<>>
      BY <1>2, <1>7
  <2>2. Len(next) + Overlap > Size
      BY <1>3, <1>5, <1>6, <1>7
  <2>3. Joined(ps) \in Piece
      BY <1>4, FlattenLaid DEF Joined, Piece
  <2>4. Joined(ps) = Joined(ps) \o <<>>
      BY <2>3, ConcatEmptySeq DEF Piece
  <2>5. <<>> \in Seq(Piece) /\ \A i \in 1 .. Len(<<>>) : <<>>[i] # <<>>
      OBVIOUS
  <2>6. QED
      BY <1>4, <2>1, <2>2, <2>3, <2>4, <2>5, JoinedFew
<1>8. CASE ~(Len(Joined(c)) + Len(next) > Size)
  <2>1. Carry(next) = c
      BY <1>2, <1>8
  <2>2. Overlap > 0 => Joined(c) # <<>>
      BY <1>5, JoinedNotEmpty
  <2>3. QED
      BY <1>4, <1>5, <2>1, <2>2
<1>9. QED
    BY <1>7, <1>8

(* d is what is left of the places s to e of w without the white space at    *)
(* their ends.                                                               *)
Window(d, w, W, s, e) ==
    \E a, b \in s .. e :
       /\ a <= b /\ w[a] \notin W /\ w[b] \notin W
       /\ \A k \in s .. e : k < a \/ b < k => w[k] \in W
       /\ Stands(d, w, a) /\ Len(d) = (b - a) + 1

(* c ends before the places s to e begin or within them, and what it does    *)
(* not share with them is white or leaves no room.                           *)
Follows(c, w, W, R, s, e) ==
    \E a, b \in 1 .. e :
       /\ a <= b /\ w[a] \notin W /\ w[b] \notin W
       /\ \A k \in b + 1 .. s - 1 : w[k] \in W
       /\ \A k \in s .. a - 1 : w[k] \in W
       /\ Stands(c, w, a) /\ Len(c) = (b - a) + 1
       /\ Overlap > 0 /\ s = b + 1 =>
             \/ \E h \in R : Stands(h, w, s) /\ (s + Len(h)) - 1 <= e
             \/ s <= e /\ w[s] \in W

(* What is stripped of what stands in w is a window of it.                   *)
LEMMA StripWindow ==
    ASSUME NEW t \in Piece, NEW w \in Piece, NEW s, Stands(t, w, s), NEW W, W = Whites,
           NEW e, e = (s + Len(t)) - 1
    PROVE  /\ Strip(t) \in Piece
           /\ Strip(t) = <<>> => \A k \in s .. e : w[k] \in W
           /\ Strip(t) # <<>> => Window(Strip(t), w, W, s, e)
<1>1. PICK d : d = Strip(t)
    OBVIOUS
<1>2. /\ s \in Nat \ {0} /\ Len(t) \in Nat /\ e \in Nat /\ e <= Len(w) /\ Len(w) \in Nat
      /\ \A i \in 1 .. Len(t) : t[i] = w[(s + i) - 1]
  <2>1. Len(t) \in Nat /\ Len(w) \in Nat
      BY LenProperties DEF Piece
  <2>2. /\ s \in Nat \ {0} /\ (s + Len(t)) - 1 <= Len(w)
        /\ \A i \in 1 .. Len(t) : t[i] = w[(s + i) - 1]
      BY DEF Stands
  <2>3. QED
      BY <2>1, <2>2
<1>3. \A k \in s .. e : (k - s) + 1 \in 1 .. Len(t) /\ t[(k - s) + 1] = w[k]
  <2>1. TAKE k \in s .. e
  <2>2. (k - s) + 1 \in 1 .. Len(t) /\ (s + ((k - s) + 1)) - 1 = k
      BY <1>2
  <2>3. QED
      BY <1>2, <2>2
<1>4. /\ d \in Piece
      /\ d = <<>> => \A i \in 1 .. Len(t) : t[i] \in W
      /\ d # <<>> =>
           \E m, n \in 1 .. Len(t) :
              /\ m <= n /\ t[m] \notin W /\ t[n] \notin W
              /\ \A i \in 1 .. Len(t) : i < m \/ n < i => t[i] \in W
              /\ Stands(d, t, m) /\ Len(d) = (n - m) + 1
    BY <1>1, StripEnds
<1>5. CASE d = <<>>
  <2>1. \A k \in s .. e : w[k] \in W
      BY <1>3, <1>4, <1>5
  <2>2. QED
      BY <1>1, <1>4, <1>5, <2>1
<1>6. CASE d # <<>>
  <2>1. PICK m \in 1 .. Len(t), n \in 1 .. Len(t) :
              /\ m <= n /\ t[m] \notin W /\ t[n] \notin W
              /\ \A i \in 1 .. Len(t) : i < m \/ n < i => t[i] \in W
              /\ Stands(d, t, m) /\ Len(d) = (n - m) + 1
      BY <1>4, <1>6
  <2>2. PICK a : a = (s + m) - 1
      OBVIOUS
  <2>3. PICK b : b = (s + n) - 1
      OBVIOUS
  <2>4. a \in s .. e /\ b \in s .. e /\ a <= b /\ Len(d) = (b - a) + 1
      BY <1>2, <2>1, <2>2, <2>3
  <2>5. w[a] \notin W /\ w[b] \notin W
      BY <1>2, <2>1, <2>2, <2>3
  <2>6. ASSUME NEW k \in s .. e, k < a \/ b < k PROVE w[k] \in W
    <3>1. (k - s) + 1 \in 1 .. Len(t) /\ t[(k - s) + 1] = w[k]
        BY <1>3
    <3>2. (k - s) + 1 < m \/ n < (k - s) + 1
        BY <1>2, <2>1, <2>2, <2>3, <2>6
    <3>3. QED
        BY <2>1, <3>1, <3>2
  <2>7. Stands(d, w, a)
      BY <1>4, <2>1, <2>2, AtWithin
  <2>8. Window(d, w, W, s, e)
      BY <2>1, <2>4, <2>5, <2>6, <2>7 DEF Window
  <2>9. QED
      BY <1>1, <1>4, <1>6, <2>8
<1>7. QED
    BY <1>5, <1>6

(* The chunk in progress, packed further; begun anew after a chunk; and      *)
(* begun anew when it was white space only.                                  *)
LEMMA PackedFollows ==
    ASSUME NEW c, NEW w, NEW W, NEW R, NEW s, NEW e \in Nat, NEW f \in Nat, e <= f,
           Follows(c, w, W, R, s, e), \A h \in R : Len(h) \in Nat, s \in Nat
    PROVE  Follows(c, w, W, R, s, f)
<1>1. PICK a \in 1 .. e, b \in 1 .. e :
       /\ a <= b /\ w[a] \notin W /\ w[b] \notin W
       /\ \A k \in b + 1 .. s - 1 : w[k] \in W
       /\ \A k \in s .. a - 1 : w[k] \in W
       /\ Stands(c, w, a) /\ Len(c) = (b - a) + 1
       /\ Overlap > 0 /\ s = b + 1 =>
             \/ \E h \in R : Stands(h, w, s) /\ (s + Len(h)) - 1 <= e
             \/ s <= e /\ w[s] \in W
    BY DEF Follows
<1>2. a \in 1 .. f /\ b \in 1 .. f /\ \A h \in R : (s + Len(h)) - 1 <= e => (s + Len(h)) - 1 <= f
    BY <1>1
<1>3. s <= e => s <= f
    OBVIOUS
<1>4. Overlap > 0 /\ s = b + 1 =>
             \/ \E h \in R : Stands(h, w, s) /\ (s + Len(h)) - 1 <= f
             \/ s <= f /\ w[s] \in W
    BY <1>1, <1>2, <1>3
<1>5. QED
    BY <1>1, <1>2, <1>4 DEF Follows

LEMMA WindowFollows ==
    ASSUME NEW d, NEW w, NEW W, NEW R, NEW s \in Nat \ {0}, NEW e \in Nat,
           Window(d, w, W, s, e),
           NEW r \in s .. e + 1, NEW f \in Nat, e <= f,
           Overlap > 0 /\ r = e + 1 => \E h \in R : Stands(h, w, r) /\ (r + Len(h)) - 1 <= f
    PROVE  Follows(d, w, W, R, r, f)
<1>1. PICK a \in s .. e, b \in s .. e :
       /\ a <= b /\ w[a] \notin W /\ w[b] \notin W
       /\ \A k \in s .. e : k < a \/ b < k => w[k] \in W
       /\ Stands(d, w, a) /\ Len(d) = (b - a) + 1
    BY DEF Window
<1>2. a \in 1 .. f /\ b \in 1 .. f
    BY <1>1
<1>3. \A k \in b + 1 .. r - 1 : w[k] \in W
  <2>1. TAKE k \in b + 1 .. r - 1
  <2>2. k \in s .. e /\ b < k
      BY <1>1
  <2>3. QED
      BY <1>1, <2>2
<1>4. \A k \in r .. a - 1 : w[k] \in W
  <2>1. TAKE k \in r .. a - 1
  <2>2. k \in s .. e /\ k < a
      BY <1>1
  <2>3. QED
      BY <1>1, <2>2
<1>5. ASSUME Overlap > 0, r = b + 1
      PROVE  \/ \E h \in R : Stands(h, w, r) /\ (r + Len(h)) - 1 <= f
             \/ r <= f /\ w[r] \in W
  <2>1. CASE r = e + 1
      BY <1>5, <2>1
  <2>2. CASE r # e + 1
    <3>1. r \in s .. e /\ b < r /\ r <= f
        BY <1>1, <1>5, <2>2
    <3>2. w[r] \in W
        BY <1>1, <3>1
    <3>3. QED
        BY <3>1, <3>2
  <2>3. QED
      BY <2>1, <2>2
<1>6. QED
    BY <1>1, <1>2, <1>3, <1>4, <1>5 DEF Follows

LEMMA WhiteFollows ==
    ASSUME NEW c, NEW w, NEW W, NEW R, NEW s \in Nat \ {0}, NEW e \in Nat,
           Follows(c, w, W, R, s, e), \A k \in s .. e : w[k] \in W,
           \A h \in R : Len(h) \in Nat,
           NEW r \in s .. e + 1, NEW f \in Nat, e <= f
    PROVE  Follows(c, w, W, R, r, f)
<1>1. PICK a \in 1 .. e, b \in 1 .. e :
       /\ a <= b /\ w[a] \notin W /\ w[b] \notin W
       /\ \A k \in b + 1 .. s - 1 : w[k] \in W
       /\ \A k \in s .. a - 1 : w[k] \in W
       /\ Stands(c, w, a) /\ Len(c) = (b - a) + 1
       /\ Overlap > 0 /\ s = b + 1 =>
             \/ \E h \in R : Stands(h, w, s) /\ (s + Len(h)) - 1 <= e
             \/ s <= e /\ w[s] \in W
    BY DEF Follows
<1>2. a \in 1 .. f /\ b \in 1 .. f /\ b < s
    BY <1>1
<1>3. \A k \in b + 1 .. r - 1 : w[k] \in W
  <2>1. TAKE k \in b + 1 .. r - 1
  <2>2. k \in b + 1 .. s - 1 \/ k \in s .. e
      BY <1>1
  <2>3. QED
      BY <1>1, <2>2
<1>4. \A k \in r .. a - 1 : w[k] \in W
  <2>1. TAKE k \in r .. a - 1
  <2>2. k \in s .. a - 1
      BY <1>1
  <2>3. QED
      BY <1>1, <2>2
<1>5. ASSUME Overlap > 0, r = b + 1
      PROVE  \/ \E h \in R : Stands(h, w, r) /\ (r + Len(h)) - 1 <= f
             \/ r <= f /\ w[r] \in W
  <2>1. r = s /\ s = b + 1
      BY <1>1, <1>2, <1>5
  <2>2. \A h \in R : (s + Len(h)) - 1 <= e => (s + Len(h)) - 1 <= f
      OBVIOUS
  <2>3. s <= e => s <= f
      OBVIOUS
  <2>4. \/ \E h \in R : Stands(h, w, s) /\ (s + Len(h)) - 1 <= e
        \/ s <= e /\ w[s] \in W
      BY <1>1, <1>5, <2>1
  <2>5. QED
      BY <2>1, <2>2, <2>3, <2>4
<1>6. QED
    BY <1>1, <1>2, <1>3, <1>4, <1>5 DEF Follows

(* What NeighboursShare says of a chunk and the next, of the whole w of the  *)
(* pieces and the beginnings P of those that leave no room.                  *)
Sharing(c, d, w, W, P) ==
    \/ \E n \in 1 .. Len(c) : IsPrefix(SubSeq(c, n, Len(c)), d)
    \/ \E h \in P : IsPrefix(h, d)
    \/ \E j, l \in 1 .. Len(w) :
          /\ w[j] = Last(c) /\ w[l] = Head(d) /\ j + 1 < l
          /\ \A k \in j + 1 .. l - 1 : w[k] \in W

Roomless(Q) == {h \in Q : Len(h) + Overlap > Size}

Stripped(R) == {Strip(h) : h \in R} \ {<<>>}

(* A chunk that follows another shares with it.                              *)
LEMMA FollowedShares ==
    ASSUME NEW c \in Piece, NEW d \in Piece, NEW w \in Piece, NEW W, W = Whites,
           NEW Q \in SUBSET Piece, NEW R, R = Roomless(Q), NEW P, P = Stripped(R),
           NEW s \in Nat \ {0}, NEW e \in Nat, e <= Len(w), Overlap > 0,
           Follows(c, w, W, R, s, e), Window(d, w, W, s, e)
    PROVE  Sharing(c, d, w, W, P)
<1>1. PICK a \in 1 .. e, b \in 1 .. e :
       /\ a <= b /\ w[a] \notin W /\ w[b] \notin W
       /\ \A k \in b + 1 .. s - 1 : w[k] \in W
       /\ \A k \in s .. a - 1 : w[k] \in W
       /\ Stands(c, w, a) /\ Len(c) = (b - a) + 1
       /\ Overlap > 0 /\ s = b + 1 =>
             \/ \E h \in R : Stands(h, w, s) /\ (s + Len(h)) - 1 <= e
             \/ s <= e /\ w[s] \in W
    BY DEF Follows
<1>2. PICK m \in s .. e, n \in s .. e :
       /\ m <= n /\ w[m] \notin W /\ w[n] \notin W
       /\ \A k \in s .. e : k < m \/ n < k => w[k] \in W
       /\ Stands(d, w, m) /\ Len(d) = (n - m) + 1
    BY DEF Window
<1>3. Len(w) \in Nat /\ m \in 1 .. Len(w) /\ b \in 1 .. Len(w) /\ Len(c) \in 1 .. Len(c)
      /\ 1 \in 1 .. Len(d) /\ (a + Len(c)) - 1 = b /\ (m + 1) - 1 = m
  <2>1. Len(w) \in Nat
      BY LenProperties DEF Piece
  <2>2. Len(c) = (b - a) + 1 /\ a <= b /\ Len(d) = (n - m) + 1 /\ m <= n
      BY <1>1, <1>2
  <2>3. QED
      BY <2>1, <2>2
<1>4. CASE m <= b
  <2>1. ~(m < a)
    <3>1. SUFFICES ASSUME m < a PROVE FALSE
        OBVIOUS
    <3>2. m \in s .. a - 1
        BY <1>1, <1>2, <3>1
    <3>3. QED
        BY <1>1, <1>2, <3>2
  <2>2. PICK x : x = (m - a) + 1
      OBVIOUS
  <2>3. PICK y : y = Len(c)
      OBVIOUS
  <2>4. /\ x \in 1 .. y /\ x \in Nat \ {0} /\ y \in Nat /\ x <= y + 1 /\ y <= Len(c)
        /\ (y - x) + 1 = (b - m) + 1
      BY <1>1, <1>2, <1>3, <1>4, <2>1, <2>2, <2>3
  <2>5. PICK t : t = SubSeq(c, x, y)
      OBVIOUS
  <2>6. /\ t \in Piece /\ Len(t) = (b - m) + 1
        /\ \A j \in 1 .. (y - x) + 1 : t[j] = c[(x + j) - 1]
      BY <2>4, <2>5, Stretch
  <2>7. Stands(t, w, m)
    <3>1. ASSUME NEW j \in 1 .. Len(t) PROVE t[j] = w[(m + j) - 1]
      <4>1. (x + j) - 1 \in 1 .. Len(c) /\ (a + ((x + j) - 1)) - 1 = (m + j) - 1
          BY <1>1, <1>2, <2>2, <2>3, <2>4, <2>6
      <4>2. c[(x + j) - 1] = w[(a + ((x + j) - 1)) - 1]
          BY <1>1, <4>1 DEF Stands
      <4>3. QED
          BY <2>4, <2>6, <4>1, <4>2
    <3>2. m \in Nat \ {0} /\ (m + Len(t)) - 1 <= Len(w)
        BY <1>1, <1>2, <1>3, <2>6
    <3>3. QED
        BY <3>1, <3>2 DEF Stands
  <2>8. b <= n
    <3>1. SUFFICES ASSUME ~(b <= n) PROVE FALSE
        OBVIOUS
    <3>2. b \in s .. e /\ n < b
        BY <1>1, <1>2, <3>1
    <3>3. QED
        BY <1>1, <1>2, <3>2
  <2>9. Len(t) <= Len(d)
      BY <1>1, <1>2, <2>6, <2>8
  <2>10. IsPrefix(t, d)
      BY <1>2, <2>6, <2>7, <2>9, PrefixAt
  <2>11. QED
      BY <2>3, <2>4, <2>5, <2>10 DEF Sharing
<1>5. CASE b + 1 < m
  <2>1. ASSUME NEW k \in b + 1 .. m - 1 PROVE w[k] \in W
    <3>1. k \in b + 1 .. s - 1 \/ (k \in s .. e /\ k < m)
        BY <1>1, <1>2, <2>1
    <3>2. QED
        BY <1>1, <1>2, <3>1
  <2>2. Last(c) = w[b]
    <3>1. c[Len(c)] = w[(a + Len(c)) - 1]
        BY <1>1, <1>3 DEF Stands
    <3>2. QED
        BY <1>3, <3>1 DEF Last
  <2>3. Head(d) = w[m]
    <3>1. d[1] = w[(m + 1) - 1]
        BY <1>2, <1>3 DEF Stands
    <3>2. d # <<>>
        BY <1>3
    <3>3. Head(d) = d[1]
        BY <3>2, HeadTailProperties DEF Piece
    <3>4. QED
        BY <1>3, <3>1, <3>3
  <2>4. QED
      BY <1>3, <1>5, <2>1, <2>2, <2>3 DEF Sharing
<1>6. CASE m = b + 1
  <2>1. s = b + 1
    <3>1. SUFFICES ASSUME s # b + 1 PROVE FALSE
        OBVIOUS
    <3>2. b \in s .. e /\ b < m
        BY <1>1, <1>2, <1>6, <3>1
    <3>3. QED
        BY <1>1, <1>2, <3>2
  <2>2. w[s] \notin W
      BY <1>2, <1>6, <2>1
  <2>3. PICK h \in R : Stands(h, w, s) /\ (s + Len(h)) - 1 <= e
      BY <1>1, <2>1, <2>2
  <2>4. h \in Piece /\ Len(h) \in Nat \ {0}
    <3>1. h \in Q /\ Len(h) + Overlap > Size
        BY DEF Roomless
    <3>2. h \in Piece /\ Len(h) \in Nat
        BY <3>1, LenProperties DEF Piece
    <3>3. QED
        BY <3>1, <3>2, ChunkerAssumption
  <2>5. \A i \in 1 .. Len(h) : h[i] = w[(s + i) - 1]
      BY <2>3 DEF Stands
  <2>6. 1 \in 1 .. Len(h) /\ h[1] \notin W
    <3>1. 1 \in 1 .. Len(h) /\ (s + 1) - 1 = s
        BY <2>4
    <3>2. QED
        BY <2>2, <2>5, <3>1
  <2>7. PICK p : p = Strip(h)
      OBVIOUS
  <2>8. /\ p \in Piece
        /\ p = <<>> => \A i \in 1 .. Len(h) : h[i] \in W
        /\ p # <<>> =>
             \E x, y \in 1 .. Len(h) :
                /\ x <= y /\ h[x] \notin W /\ h[y] \notin W
                /\ \A i \in 1 .. Len(h) : i < x \/ y < i => h[i] \in W
                /\ Stands(p, h, x) /\ Len(p) = (y - x) + 1
    <3>1. h \in Piece /\ W = Whites
        BY <2>4
    <3>2. QED
        BY <2>7, <3>1, StripEnds
  <2>9. p # <<>>
      BY <2>6, <2>8
  <2>10. PICK x \in 1 .. Len(h), y \in 1 .. Len(h) :
                /\ x <= y /\ h[x] \notin W /\ h[y] \notin W
                /\ \A i \in 1 .. Len(h) : i < x \/ y < i => h[i] \in W
                /\ Stands(p, h, x) /\ Len(p) = (y - x) + 1
      BY <2>8, <2>9
  <2>11. x = 1
    <3>1. SUFFICES ASSUME 1 < x PROVE FALSE
        BY <2>4
    <3>2. QED
        BY <2>6, <2>10, <3>1
  <2>12. Stands(p, w, s)
    <3>1. Stands(p, w, (s + x) - 1)
        BY <2>3, <2>4, <2>8, <2>10, AtWithin
    <3>2. (s + x) - 1 = s
        BY <2>11
    <3>3. QED
        BY <3>1, <3>2
  <2>13. Len(p) <= Len(d)
    <3>1. PICK q : q = (s + y) - 1
        OBVIOUS
    <3>2. q \in s .. e /\ w[q] \notin W
        BY <2>3, <2>4, <2>5, <2>10, <3>1
    <3>3. ~(n < q)
        BY <1>2, <3>2
    <3>4. QED
        BY <1>2, <1>6, <2>1, <2>4, <2>10, <2>11, <3>1, <3>2, <3>3
  <2>14. IsPrefix(p, d)
    <3>1. Stands(d, w, s)
        BY <1>2, <1>6, <2>1
    <3>2. QED
        BY <2>8, <2>12, <2>13, <3>1, PrefixAt
  <2>15. p \in P
      BY <2>7, <2>9 DEF Stripped
  <2>16. QED
      BY <2>14, <2>15 DEF Sharing
<1>7. m \in Nat /\ b \in Nat
    BY <1>2, <1>3
<1>8. QED
    BY <1>4, <1>5, <1>6, <1>7

(* What is packed stands in the whole, what is yet to pack stands after it,  *)
(* the chunk before follows, and the chunks so far share.                    *)
Linking(w, W, Q, P) ==
    /\ \A i \in 1 .. Len(current) : current[i] # <<>>
    /\ \A i \in 1 .. Len(pieces) : pieces[i] \in Q
    /\ phase = "packing" =>
          \E s \in Nat \ {0} :
             /\ Stands(Joined(current), w, s)
             /\ Stands(Joined(pieces), w, s + Len(Joined(current)))
             /\ chunks # <<>> =>
                   Follows(Last(chunks), w, W, Roomless(Q), s, (s + Len(Joined(current))) - 1)
    /\ Overlap > 0 =>
          \A i \in 1 .. Len(chunks) - 1 : Sharing(chunks[i], chunks[i + 1], w, W, P)

Whole(w, W, Q, P) ==
    /\ w \in Piece /\ Q \in SUBSET Piece
    /\ W = Whites /\ P = Stripped(Roomless(Q))

(* A piece that leaves no room is a piece.                                   *)
LEMMA RoomlessLong ==
    ASSUME NEW Q \in SUBSET Piece
    PROVE  \A h \in Roomless(Q) : h \in Piece /\ Len(h) \in Nat
<1>1. TAKE h \in Roomless(Q)
<1>2. h \in Piece
    BY DEF Roomless
<1>3. QED
    BY <1>2, LenProperties DEF Piece

(* What is packed becomes a chunk, unless it is white space: it then shares  *)
(* with the chunk before, and what is carried on follows it.                 *)
LEMMA EmitLinks ==
    ASSUME NEW w, NEW W, NEW Q, NEW P, Whole(w, W, Q, P),
           current \in Seq(Piece), chunks \in Seq(Piece),
           Overlap > 0 =>
              \A i \in 1 .. Len(chunks) - 1 : Sharing(chunks[i], chunks[i + 1], w, W, P),
           NEW s, Stands(Joined(current), w, s), NEW e, e = (s + Len(Joined(current))) - 1,
           chunks # <<>> => Follows(Last(chunks), w, W, Roomless(Q), s, e)
    PROVE  /\ Overlap > 0 =>
                 \A i \in 1 .. Len(Emit(current)) - 1 :
                    Sharing(Emit(current)[i], Emit(current)[i + 1], w, W, P)
           /\ \A r \in s .. e + 1, f \in Nat :
                 /\ e <= f
                 /\ Overlap > 0 /\ r = e + 1 =>
                       \E h \in Roomless(Q) : Stands(h, w, r) /\ (r + Len(h)) - 1 <= f
                 /\ Emit(current) # <<>>
                 => Follows(Last(Emit(current)), w, W, Roomless(Q), r, f)
<1>1. PICK t : t = Joined(current)
    OBVIOUS
<1>2. PICK d : d = Strip(t)
    OBVIOUS
<1>3. PICK cs : cs = chunks
    OBVIOUS
<1>4. PICK R : R = Roomless(Q)
    OBVIOUS
<1>5. PICK es : es = Emit(current)
    OBVIOUS
<1>6. es = IF d = <<>> THEN cs ELSE Append(cs, d)
    BY <1>1, <1>2, <1>3, <1>5 DEF Emit
<1>7. /\ w \in Piece /\ Q \in SUBSET Piece /\ W = Whites /\ P = Stripped(R) /\ R = Roomless(Q)
      /\ \A h \in R : Len(h) \in Nat
    BY <1>4, RoomlessLong DEF Whole
<1>8. t \in Piece /\ Len(t) \in Nat /\ Stands(t, w, s) /\ e = (s + Len(t)) - 1
    BY <1>1, FlattenLaid, LenProperties DEF Joined, Piece
<1>9. s \in Nat \ {0} /\ e \in Nat /\ e <= Len(w)
    BY <1>8 DEF Stands
<1>10. /\ d \in Piece
       /\ d = <<>> => \A k \in s .. e : w[k] \in W
       /\ d # <<>> => Window(d, w, W, s, e)
    BY <1>2, <1>7, <1>8, StripWindow
<1>11. /\ cs \in Seq(Piece)
       /\ Overlap > 0 => \A i \in 1 .. Len(cs) - 1 : Sharing(cs[i], cs[i + 1], w, W, P)
       /\ cs # <<>> => Follows(Last(cs), w, W, R, s, e)
    BY <1>3, <1>4
<1>12. CASE d = <<>>
  <2>1. es = cs
      BY <1>6, <1>12
  <2>2. ASSUME NEW r \in s .. e + 1, NEW f \in Nat, e <= f, cs # <<>>
        PROVE  Follows(Last(cs), w, W, R, r, f)
    <3>1. PICK c : c = Last(cs)
        OBVIOUS
    <3>2. Follows(c, w, W, R, s, e)
        BY <1>11, <2>2, <3>1
    <3>3. Follows(c, w, W, R, r, f)
        BY <1>7, <1>9, <1>10, <1>12, <2>2, <3>2, WhiteFollows
    <3>4. QED
        BY <3>1, <3>3
  <2>3. QED
      BY <1>4, <1>5, <1>11, <2>1, <2>2
<1>13. CASE d # <<>>
  <2>1. PICK n : n = Len(cs)
      OBVIOUS
  <2>2. /\ es = Append(cs, d) /\ es \in Seq(Piece) /\ Len(es) = n + 1 /\ n \in Nat
        /\ es[n + 1] = d /\ \A i \in 1 .. n : es[i] = cs[i]
      BY <1>6, <1>10, <1>11, <1>13, <2>1, AppendProperties, LenProperties
  <2>3. Last(es) = d
      BY <2>2 DEF Last
  <2>4. ASSUME NEW r \in s .. e + 1, NEW f \in Nat, e <= f,
               Overlap > 0 /\ r = e + 1 => \E h \in R : Stands(h, w, r) /\ (r + Len(h)) - 1 <= f
        PROVE  Follows(Last(es), w, W, R, r, f)
    <3>1. Follows(d, w, W, R, r, f)
        BY <1>9, <1>10, <1>13, <2>4, WindowFollows
    <3>2. QED
        BY <2>3, <3>1
  <2>5. ASSUME Overlap > 0, NEW i \in 1 .. n PROVE Sharing(es[i], es[i + 1], w, W, P)
    <3>1. CASE i = n
      <4>1. cs # <<>> /\ n # 0
          BY <2>1, <3>1
      <4>2. PICK c : c = cs[n]
          OBVIOUS
      <4>3. c \in Piece /\ Last(cs) = c
          BY <1>11, <2>1, <2>2, <3>1, <4>2, ElementOfSeq DEF Last
      <4>4. Follows(c, w, W, R, s, e)
          BY <1>11, <4>1, <4>3
      <4>5. Window(d, w, W, s, e)
          BY <1>10, <1>13
      <4>6. Sharing(c, d, w, W, P)
          BY <1>7, <1>9, <1>10, <2>5, <4>3, <4>4, <4>5, FollowedShares
      <4>7. QED
          BY <2>2, <3>1, <4>2, <4>6
    <3>2. CASE i # n
      <4>1. i \in 1 .. n - 1 /\ i \in 1 .. n /\ i + 1 \in 1 .. n
          BY <2>2, <3>2
      <4>2. es[i] = cs[i] /\ es[i + 1] = cs[i + 1]
          BY <2>2, <4>1
      <4>3. Sharing(cs[i], cs[i + 1], w, W, P)
          BY <1>11, <2>1, <2>5, <4>1
      <4>4. QED
          BY <4>2, <4>3
    <3>3. QED
        BY <3>1, <3>2
  <2>6. Len(es) - 1 = n
      BY <2>2
  <2>7. QED
      BY <1>4, <1>5, <2>4, <2>5, <2>6
<1>14. QED
    BY <1>12, <1>13

LEMMA JoinedHead ==
    ASSUME NEW ps \in Seq(Piece), ps # <<>>
    PROVE  /\ Head(ps) \in Piece /\ Head(ps) = ps[1] /\ 1 \in 1 .. Len(ps)
           /\ Tail(ps) \in Seq(Piece) /\ Joined(Tail(ps)) \in Piece
           /\ \A i \in 1 .. Len(Tail(ps)) : \E j \in 1 .. Len(ps) : Tail(ps)[i] = ps[j]
           /\ Joined(ps) = Head(ps) \o Joined(Tail(ps))
<1>1. PICK h : h = Head(ps)
    OBVIOUS
<1>2. PICK b : b = Tail(ps)
    OBVIOUS
<1>3. PICK n : n = Len(ps)
    OBVIOUS
<1>4. /\ n \in Nat /\ n # 0 /\ 1 \in 1 .. n /\ h = ps[1] /\ h \in Piece
      /\ b \in Seq(Piece) /\ Len(b) = n - 1 /\ \A i \in 1 .. n - 1 : b[i] = ps[i + 1]
    BY <1>1, <1>2, <1>3, LenProperties, EmptySeq, HeadTailProperties, ElementOfSeq
<1>5. PICK one : one = <<h>>
    OBVIOUS
<1>6. one \in Seq(Piece) /\ Len(one) = 1 /\ one[1] = h /\ Joined(one) = h
    BY <1>4, <1>5, JoinedFew
<1>7. one \o b = ps
  <2>1. PICK q : q = one \o b
      OBVIOUS
  <2>2. /\ q \in Seq(Piece) /\ Len(q) = 1 + (n - 1)
        /\ \A i \in 1 .. 1 + (n - 1) : q[i] = IF i <= 1 THEN one[i] ELSE b[i - 1]
    <3>1. one \in Seq(Piece) /\ b \in Seq(Piece) /\ Len(one) = 1 /\ Len(b) = n - 1
        BY <1>4, <1>6
    <3>2. /\ one \o b \in Seq(Piece) /\ Len(one \o b) = Len(one) + Len(b)
          /\ \A i \in 1 .. Len(one) + Len(b) :
                (one \o b)[i] = IF i <= Len(one) THEN one[i] ELSE b[i - Len(one)]
        BY <3>1, ConcatProperties
    <3>3. QED
        BY <2>1, <3>1, <3>2
  <2>3. ASSUME NEW i \in 1 .. n PROVE q[i] = ps[i]
    <3>1. CASE i = 1
        BY <1>4, <1>6, <2>2, <3>1
    <3>2. CASE i # 1
      <4>1. i - 1 \in 1 .. n - 1 /\ (i - 1) + 1 = i /\ ~(i <= 1) /\ i \in 1 .. 1 + (n - 1)
          BY <1>4, <3>2
      <4>2. QED
          BY <1>4, <2>2, <4>1
    <3>3. QED
        BY <3>1, <3>2
  <2>4. Len(q) = Len(ps)
      BY <1>3, <1>4, <2>2
  <2>5. q = ps
      BY <1>3, <2>2, <2>3, <2>4, SeqEqual
  <2>6. QED
      BY <2>1, <2>5
<1>8. Joined(b) \in Piece /\ Joined(ps) = h \o Joined(b)
    BY <1>4, <1>6, <1>7, JoinedConcat
<1>9. \A i \in 1 .. Len(b) : \E j \in 1 .. n : b[i] = ps[j]
  <2>1. \A i \in 1 .. n - 1 : i + 1 \in 1 .. n
      BY <1>4
  <2>2. QED
      BY <1>4, <2>1
<1>10. QED
    BY <1>1, <1>2, <1>3, <1>4, <1>8, <1>9

(* One more piece: what stands in the whole, and where.                      *)
LEMMA NextStands ==
    ASSUME NEW w \in Piece, NEW ps \in Seq(Piece), NEW qs \in Seq(Piece), qs # <<>>,
           NEW r, Stands(Joined(ps), w, r), Stands(Joined(qs), w, r + Len(Joined(ps)))
    PROVE  /\ Head(qs) \in Piece /\ Len(Head(qs)) \in Nat
           /\ Stands(Head(qs), w, r + Len(Joined(ps)))
           /\ Len(Joined(Append(ps, Head(qs)))) = Len(Joined(ps)) + Len(Head(qs))
           /\ Stands(Joined(Append(ps, Head(qs))), w, r)
           /\ Stands(Joined(Tail(qs)), w, r + Len(Joined(Append(ps, Head(qs)))))
<1>1. PICK h : h = Head(qs)
    OBVIOUS
<1>2. PICK b : b = Joined(Tail(qs))
    OBVIOUS
<1>3. PICK t : t = Joined(ps)
    OBVIOUS
<1>4. h \in Piece /\ b \in Piece /\ Joined(qs) = h \o b
    BY <1>1, <1>2, JoinedHead
<1>5. /\ Joined(ps) \in Piece /\ Joined(Append(ps, h)) = Joined(ps) \o h
      /\ Len(Joined(ps)) \in Nat /\ Len(h) \in Nat
    BY <1>4, JoinedAppend
<1>6. PICK u : u = Joined(Append(ps, h))
    OBVIOUS
<1>7. t \in Piece /\ u = t \o h /\ Len(t) \in Nat /\ Len(h) \in Nat
    BY <1>3, <1>5, <1>6
<1>8. Len(u) = Len(t) + Len(h)
    BY <1>4, <1>7, Longer
<1>9. r \in Nat \ {0} /\ Stands(t, w, r)
    BY <1>3 DEF Stands
<1>10. PICK q : q = r + Len(t)
    OBVIOUS
<1>11. Stands(h \o b, w, q)
    BY <1>3, <1>4, <1>10
<1>12. Stands(h, w, q) /\ Stands(b, w, q + Len(h))
    BY <1>4, <1>11, AtParts
<1>13. Stands(t \o h, w, r)
  <2>1. Stands(h, w, r + Len(t))
      BY <1>10, <1>12
  <2>2. QED
      BY <1>4, <1>7, <1>9, <2>1, AtParts
<1>14. q + Len(h) = r + Len(u)
    BY <1>7, <1>8, <1>9, <1>10
<1>15. Stands(b, w, r + Len(u))
    BY <1>12, <1>14
<1>16. QED
    BY <1>1, <1>2, <1>3, <1>4, <1>6, <1>7, <1>8, <1>10, <1>12, <1>13, <1>15

(* Every action keeps the chunks linked.                                     *)
LEMMA PackedLinks ==
    ASSUME NEW L, Packing(L), NEW w, NEW W, NEW Q, NEW P, Whole(w, W, Q, P),
           Linking(w, W, Q, P), Packed
    PROVE  Linking(w, W, Q, P)'
<1>1. pieces # <<>> /\ phase = "packing" /\ phase' = "packing" /\ chunks' = chunks
    BY DEF Packing, Packed
<1>2. PICK h : h = Head(pieces)
    OBVIOUS
<1>3. PICK more : more = Append(current, h)
    OBVIOUS
<1>4. PICK rest : rest = Tail(pieces)
    OBVIOUS
<1>5. current' = more /\ pieces' = rest
    BY <1>2, <1>3, <1>4 DEF Packed
<1>6. PICK R : R = Roomless(Q)
    OBVIOUS
<1>7. PICK c : c = Last(chunks)
    OBVIOUS
<1>8. /\ current \in Seq(Piece) /\ pieces \in Seq(Piece)
      /\ \A i \in 1 .. Len(pieces) : Len(pieces[i]) \in 1 .. Size
    BY DEF Packing
<1>9. /\ w \in Piece /\ \A x \in R : Len(x) \in Nat
    BY <1>6, RoomlessLong DEF Whole
<1>10. /\ \A i \in 1 .. Len(current) : current[i] # <<>>
       /\ \A i \in 1 .. Len(pieces) : pieces[i] \in Q
       /\ Overlap > 0 =>
             \A i \in 1 .. Len(chunks) - 1 : Sharing(chunks[i], chunks[i + 1], w, W, P)
    BY DEF Linking
<1>11. PICK s \in Nat \ {0} :
             /\ Stands(Joined(current), w, s)
             /\ Stands(Joined(pieces), w, s + Len(Joined(current)))
             /\ chunks # <<>> =>
                   Follows(Last(chunks), w, W, Roomless(Q), s, (s + Len(Joined(current))) - 1)
    BY <1>1 DEF Linking
<1>12. PICK e : e = (s + Len(Joined(current))) - 1
    OBVIOUS
<1>13. e \in Nat /\ s + Len(Joined(current)) = e + 1
  <2>1. Len(Joined(current)) \in Nat
      BY <1>8, FlattenLaid, LenProperties DEF Joined, Piece
  <2>2. QED
      BY <1>11, <1>12, <2>1
<1>14. Stands(Joined(pieces), w, e + 1)
    BY <1>11, <1>13
<1>15. /\ h \in Piece /\ Len(h) \in Nat /\ Stands(Joined(more), w, s)
       /\ (s + Len(Joined(more))) - 1 = e + Len(h)
       /\ Stands(Joined(rest), w, s + Len(Joined(more)))
  <2>1. PICK ps : ps = current
      OBVIOUS
  <2>2. PICK qs : qs = pieces
      OBVIOUS
  <2>3. /\ w \in Piece /\ ps \in Seq(Piece) /\ qs \in Seq(Piece) /\ qs # <<>>
        /\ Stands(Joined(ps), w, s) /\ Stands(Joined(qs), w, s + Len(Joined(ps)))
      BY <1>1, <1>8, <1>9, <1>11, <2>1, <2>2
  <2>4. h = Head(qs) /\ more = Append(ps, Head(qs)) /\ rest = Tail(qs)
      BY <1>2, <1>3, <1>4, <2>1, <2>2
  <2>5. /\ Head(qs) \in Piece /\ Len(Head(qs)) \in Nat
        /\ Len(Joined(Append(ps, Head(qs)))) = Len(Joined(ps)) + Len(Head(qs))
        /\ Stands(Joined(Append(ps, Head(qs))), w, s)
        /\ Stands(Joined(Tail(qs)), w, s + Len(Joined(Append(ps, Head(qs)))))
      BY <2>3, NextStands
  <2>6. PICK n : n = Len(Joined(current))
      OBVIOUS
  <2>7. PICK m : m = Len(h)
      OBVIOUS
  <2>8. Len(Joined(more)) = n + m /\ m \in Nat
      BY <2>1, <2>4, <2>5, <2>6, <2>7
  <2>9. n \in Nat
      BY <1>8, <2>6, FlattenLaid, LenProperties DEF Joined, Piece
  <2>10. (s + (n + m)) - 1 = ((s + n) - 1) + m
      BY <1>11, <2>8, <2>9
  <2>11. (s + Len(Joined(more))) - 1 = e + Len(h)
      BY <1>12, <2>6, <2>7, <2>8, <2>10
  <2>12. QED
      BY <2>4, <2>5, <2>11
<1>16. ASSUME chunks # <<>> PROVE Follows(c, w, W, R, s, e + Len(h))
  <2>1. Follows(c, w, W, R, s, e)
      BY <1>6, <1>7, <1>11, <1>12, <1>16
  <2>2. e + Len(h) \in Nat /\ e <= e + Len(h) /\ s \in Nat
      BY <1>13, <1>15
  <2>3. QED
      BY <1>9, <1>13, <2>1, <2>2, PackedFollows
<1>17. /\ h # <<>> /\ \A i \in 1 .. Len(rest) : rest[i] \in Q
  <2>1. /\ h = pieces[1] /\ 1 \in 1 .. Len(pieces)
        /\ \A i \in 1 .. Len(rest) : \E j \in 1 .. Len(pieces) : rest[i] = pieces[j]
      BY <1>1, <1>2, <1>4, <1>8, JoinedHead
  <2>2. Len(h) \in 1 .. Size
      BY <1>8, <2>1
  <2>3. h # <<>>
      BY <2>2
  <2>4. QED
      BY <1>10, <2>1, <2>3
<1>18. \A i \in 1 .. Len(more) : more[i] # <<>>
  <2>1. PICK n : n = Len(current)
      OBVIOUS
  <2>2. Len(more) = n + 1 /\ n \in Nat /\ more[n + 1] = h /\ \A i \in 1 .. n : more[i] = current[i]
      BY <1>3, <1>8, <1>15, <2>1, AppendProperties, LenProperties
  <2>3. \A i \in 1 .. n + 1 : i \in 1 .. n \/ i = n + 1
      BY <2>2
  <2>4. QED
      BY <1>10, <1>17, <2>1, <2>2, <2>3
<1>19. /\ Stands(Joined(more), w, s)
       /\ Stands(Joined(rest), w, s + Len(Joined(more)))
       /\ chunks # <<>> => Follows(Last(chunks), w, W, Roomless(Q), s, (s + Len(Joined(more))) - 1)
    BY <1>6, <1>7, <1>15, <1>16
<1>20. QED
    BY <1>1, <1>5, <1>10, <1>11, <1>17, <1>18, <1>19 DEF Linking, Joined, Whole

LEMMA FullLinks ==
    ASSUME NEW L, Packing(L), NEW w, NEW W, NEW Q, NEW P, Whole(w, W, Q, P),
           Linking(w, W, Q, P), Full
    PROVE  Linking(w, W, Q, P)'
<1>1. pieces # <<>> /\ current # <<>> /\ phase = "packing" /\ phase' = "packing"
    BY DEF Packing, Full
<1>2. PICK h : h = Head(pieces)
    OBVIOUS
<1>3. PICK ps : ps = Carry(h)
    OBVIOUS
<1>4. PICK more : more = Append(ps, h)
    OBVIOUS
<1>5. PICK rest : rest = Tail(pieces)
    OBVIOUS
<1>6. PICK es : es = Emit(current)
    OBVIOUS
<1>7. current' = more /\ pieces' = rest /\ chunks' = es
    BY <1>2, <1>3, <1>4, <1>5, <1>6 DEF Full
<1>8. PICK R : R = Roomless(Q)
    OBVIOUS
<1>9. /\ current \in Seq(Piece) /\ pieces \in Seq(Piece) /\ chunks \in Seq(Piece)
      /\ InOrder(current, L)
      /\ \A i \in 1 .. Len(pieces) : Len(pieces[i]) \in 1 .. Size
    BY DEF Packing
<1>10. w \in Piece
    BY DEF Whole
<1>11. /\ \A i \in 1 .. Len(current) : current[i] # <<>>
       /\ \A i \in 1 .. Len(pieces) : pieces[i] \in Q
       /\ Overlap > 0 =>
             \A i \in 1 .. Len(chunks) - 1 : Sharing(chunks[i], chunks[i + 1], w, W, P)
    BY DEF Linking
<1>12. PICK s \in Nat \ {0} :
             /\ Stands(Joined(current), w, s)
             /\ Stands(Joined(pieces), w, s + Len(Joined(current)))
             /\ chunks # <<>> =>
                   Follows(Last(chunks), w, W, Roomless(Q), s, (s + Len(Joined(current))) - 1)
    BY <1>1 DEF Linking
<1>13. PICK t : t = Joined(current)
    OBVIOUS
<1>14. t \in Piece /\ Len(t) \in Nat
    BY <1>9, <1>13, FlattenLaid, LenProperties DEF Joined, Piece
<1>15. PICK e : e = (s + Len(t)) - 1
    OBVIOUS
<1>16. e \in Nat /\ s + Len(t) = e + 1
    BY <1>12, <1>14, <1>15
<1>17. Stands(Joined(pieces), w, e + 1) /\ Stands(t, w, s)
    BY <1>12, <1>13, <1>16
<1>18. /\ h \in Piece /\ h = pieces[1] /\ 1 \in 1 .. Len(pieces) /\ rest \in Seq(Piece)
       /\ \A i \in 1 .. Len(rest) : \E j \in 1 .. Len(pieces) : rest[i] = pieces[j]
    BY <1>1, <1>2, <1>5, <1>9, JoinedHead
<1>19. h # <<>> /\ h \in Q /\ \A i \in 1 .. Len(rest) : rest[i] \in Q
  <2>1. Len(h) \in 1 .. Size
      BY <1>9, <1>18
  <2>2. h # <<>>
      BY <2>1
  <2>3. QED
      BY <1>11, <1>18, <2>2
<1>20. PICK b : b = Joined(ps)
    OBVIOUS
<1>21. /\ ps \in Seq(Piece) /\ \A i \in 1 .. Len(ps) : ps[i] # <<>>
       /\ \E u \in Piece : t = u \o b
       /\ Overlap > 0 /\ b = <<>> => Len(h) + Overlap > Size
    BY <1>1, <1>3, <1>9, <1>11, <1>13, <1>18, <1>20, CarryEnds
<1>22. PICK u \in Piece : t = u \o b
    BY <1>21
<1>23. b \in Piece
    BY <1>20, <1>21, FlattenLaid DEF Joined, Piece
<1>24. PICK r : r = s + Len(u)
    OBVIOUS
<1>25. /\ Len(u) \in Nat /\ Len(b) \in Nat /\ Len(t) = Len(u) + Len(b)
       /\ b = <<>> \/ Len(b) >= 1
    BY <1>22, <1>23, Longer
<1>26. r \in s .. e + 1 /\ r \in Nat \ {0} /\ e = (r + Len(b)) - 1 /\ (r = e + 1 => b = <<>>)
    BY <1>12, <1>16, <1>24, <1>25
<1>27. Stands(Joined(ps), w, r)
  <2>1. Stands(u \o b, w, s)
      BY <1>17, <1>22
  <2>2. Stands(b, w, s + Len(u))
      BY <1>10, <1>22, <1>23, <2>1, AtParts
  <2>3. QED
      BY <1>20, <1>24, <2>2
<1>28. /\ Len(h) \in Nat /\ Stands(h, w, e + 1) /\ ((e + 1) + Len(h)) - 1 = e + Len(h)
       /\ Stands(Joined(more), w, r)
       /\ (r + Len(Joined(more))) - 1 = e + Len(h)
       /\ Stands(Joined(rest), w, r + Len(Joined(more)))
  <2>1. PICK n : n = Len(Joined(ps))
      OBVIOUS
  <2>2. n \in Nat /\ r + n = e + 1 /\ e = (r + n) - 1
      BY <1>16, <1>20, <1>25, <1>26, <2>1
  <2>3. PICK qs : qs = pieces
      OBVIOUS
  <2>4. /\ w \in Piece /\ ps \in Seq(Piece) /\ qs \in Seq(Piece) /\ qs # <<>>
        /\ Stands(Joined(ps), w, r) /\ Stands(Joined(qs), w, r + Len(Joined(ps)))
      BY <1>1, <1>9, <1>10, <1>17, <1>21, <1>27, <2>1, <2>2, <2>3
  <2>5. h = Head(qs) /\ more = Append(ps, Head(qs)) /\ rest = Tail(qs)
      BY <1>2, <1>4, <1>5, <2>3
  <2>6. /\ Len(Head(qs)) \in Nat
        /\ Stands(Head(qs), w, r + Len(Joined(ps)))
        /\ Len(Joined(Append(ps, Head(qs)))) = Len(Joined(ps)) + Len(Head(qs))
        /\ Stands(Joined(Append(ps, Head(qs))), w, r)
        /\ Stands(Joined(Tail(qs)), w, r + Len(Joined(Append(ps, Head(qs)))))
      BY <2>4, NextStands
  <2>7. PICK m : m = Len(h)
      OBVIOUS
  <2>8. Len(Joined(more)) = n + m /\ m \in Nat
      BY <2>1, <2>5, <2>6, <2>7
  <2>9. (r + (n + m)) - 1 = ((r + n) - 1) + m /\ ((e + 1) + m) - 1 = e + m
      BY <1>16, <1>26, <2>2, <2>8
  <2>10. (r + Len(Joined(more))) - 1 = e + Len(h) /\ ((e + 1) + Len(h)) - 1 = e + Len(h)
      BY <2>2, <2>7, <2>8, <2>9
  <2>11. Stands(h, w, e + 1)
      BY <2>1, <2>2, <2>5, <2>6
  <2>12. QED
      BY <2>5, <2>6, <2>10, <2>11
<1>29. Overlap > 0 /\ r = e + 1 =>
          \E x \in R : Stands(x, w, r) /\ (r + Len(x)) - 1 <= e + Len(h)
  <2>1. SUFFICES ASSUME Overlap > 0, r = e + 1
                 PROVE  \E x \in R : Stands(x, w, r) /\ (r + Len(x)) - 1 <= e + Len(h)
      OBVIOUS
  <2>2. Len(h) + Overlap > Size
      BY <1>21, <1>26, <2>1
  <2>3. h \in R
      BY <1>8, <1>19, <2>2 DEF Roomless
  <2>4. Stands(h, w, r)
      BY <1>28, <2>1
  <2>5. (r + Len(h)) - 1 <= e + Len(h)
      BY <1>16, <1>28, <2>1
  <2>6. QED
      BY <2>3, <2>4, <2>5
<1>30. /\ Overlap > 0 =>
             \A i \in 1 .. Len(es) - 1 : Sharing(es[i], es[i + 1], w, W, P)
       /\ \A q \in s .. e + 1, f \in Nat :
             /\ e <= f
             /\ Overlap > 0 /\ q = e + 1 =>
                   \E x \in Roomless(Q) : Stands(x, w, q) /\ (q + Len(x)) - 1 <= f
             /\ es # <<>>
             => Follows(Last(es), w, W, Roomless(Q), q, f)
  <2>1. e = (s + Len(Joined(current))) - 1 /\ Stands(Joined(current), w, s)
      BY <1>12, <1>13, <1>15
  <2>2. chunks # <<>> => Follows(Last(chunks), w, W, Roomless(Q), s, e)
      BY <1>12, <1>13, <1>15
  <2>3. QED
      BY <1>6, <1>9, <1>11, <2>1, <2>2, EmitLinks
<1>31. es # <<>> => Follows(Last(es), w, W, Roomless(Q), r, e + Len(h))
  <2>1. e + Len(h) \in Nat /\ e <= e + Len(h)
      BY <1>16, <1>28
  <2>2. QED
      BY <1>8, <1>26, <1>29, <1>30, <2>1
<1>32. \A i \in 1 .. Len(more) : more[i] # <<>>
  <2>1. PICK n : n = Len(ps)
      OBVIOUS
  <2>2. Len(more) = n + 1 /\ n \in Nat /\ more[n + 1] = h /\ \A i \in 1 .. n : more[i] = ps[i]
      BY <1>4, <1>18, <1>21, <2>1, AppendProperties, LenProperties
  <2>3. \A i \in 1 .. n + 1 : i \in 1 .. n \/ i = n + 1
      BY <2>2
  <2>4. QED
      BY <1>19, <1>21, <2>1, <2>2, <2>3
<1>33. /\ Stands(Joined(more), w, r)
       /\ Stands(Joined(rest), w, r + Len(Joined(more)))
       /\ es # <<>> => Follows(Last(es), w, W, Roomless(Q), r, (r + Len(Joined(more))) - 1)
    BY <1>28, <1>31
<1>34. QED
    BY <1>1, <1>7, <1>19, <1>26, <1>30, <1>32, <1>33 DEF Linking, Joined

LEMMA FinishedLinks ==
    ASSUME NEW L, Packing(L), NEW w, NEW W, NEW Q, NEW P, Whole(w, W, Q, P),
           Linking(w, W, Q, P), Finished
    PROVE  Linking(w, W, Q, P)'
<1>1. /\ phase = "packing" /\ phase' = "split" /\ chunks' = Emit(current)
      /\ current' = current /\ pieces' = pieces
    BY DEF Finished
<1>2. PICK es : es = Emit(current)
    OBVIOUS
<1>3. current \in Seq(Piece) /\ chunks \in Seq(Piece)
    BY DEF Packing
<1>4. /\ \A i \in 1 .. Len(current) : current[i] # <<>>
      /\ \A i \in 1 .. Len(pieces) : pieces[i] \in Q
      /\ Overlap > 0 =>
            \A i \in 1 .. Len(chunks) - 1 : Sharing(chunks[i], chunks[i + 1], w, W, P)
    BY DEF Linking
<1>5. PICK s \in Nat \ {0} :
            /\ Stands(Joined(current), w, s)
            /\ chunks # <<>> =>
                  Follows(Last(chunks), w, W, Roomless(Q), s, (s + Len(Joined(current))) - 1)
    BY <1>1 DEF Linking
<1>6. PICK e : e = (s + Len(Joined(current))) - 1
    OBVIOUS
<1>7. chunks # <<>> => Follows(Last(chunks), w, W, Roomless(Q), s, e)
    BY <1>5, <1>6
<1>8. Overlap > 0 => \A i \in 1 .. Len(es) - 1 : Sharing(es[i], es[i + 1], w, W, P)
    BY <1>2, <1>3, <1>4, <1>5, <1>6, <1>7, EmitLinks
<1>9. QED
    BY <1>1, <1>2, <1>4, <1>8 DEF Linking, Joined

LEMMA ShortLinks ==
    ASSUME NEW L, Packing(L), NEW w, NEW W, NEW Q, NEW P,
           Linking(w, W, Q, P), Short
    PROVE  Linking(w, W, Q, P)'
<1>1. phase' = "split" /\ current' = current /\ pieces' = pieces
    BY DEF Short
<1>2. \A i : i \notin 1 .. Len(chunks') - 1
  <2>1. PICK one : one = [i \in DOMAIN text |-> i]
      OBVIOUS
  <2>2. chunks' = <<>> \/ chunks' = <<one>>
      BY <2>1 DEF Short
  <2>3. Len(<<>>) = 0 /\ Len(<<one>>) = 1
      OBVIOUS
  <2>4. PICK n : n = Len(chunks')
      OBVIOUS
  <2>5. n = 0 \/ n = 1
      BY <2>2, <2>3, <2>4
  <2>6. \A i : i \notin 1 .. n - 1
      BY <2>5
  <2>7. QED
      BY <2>4, <2>6
<1>3. QED
    BY <1>1, <1>2 DEF Linking, Joined

LEMMA LongLinks ==
    ASSUME NEW L, Packing(L), NEW w, NEW W, NEW Q, NEW P, Whole(w, W, Q, P),
           w = Joined(Atomized), Atomized \in Seq(Piece),
           \A i \in 1 .. Len(Atomized) : Atomized[i] \in Q,
           Linking(w, W, Q, P), Long
    PROVE  Linking(w, W, Q, P)'
<1>1. PICK ps : ps = Atomized
    OBVIOUS
<1>2. /\ current = <<>> /\ chunks = <<>> /\ current' = <<>> /\ chunks' = <<>>
      /\ pieces' = ps /\ phase' = "packing"
    BY <1>1 DEF Long, Packing
<1>3. w \in Piece /\ Len(w) \in Nat
    BY LenProperties DEF Whole, Piece
<1>4. Joined(<<>>) = <<>> /\ Len(<<>>) = 0
    BY JoinedFew
<1>5. w = Joined(ps) /\ \A i \in 1 .. Len(ps) : ps[i] \in Q
    BY <1>1
<1>6. Stands(<<>>, w, 1)
    BY <1>3, <1>4 DEF Stands
<1>7. Stands(w, w, 1)
  <2>1. \A i \in 1 .. Len(w) : (1 + i) - 1 = i
      OBVIOUS
  <2>2. (1 + Len(w)) - 1 <= Len(w) /\ 1 \in Nat \ {0}
      BY <1>3
  <2>3. QED
      BY <2>1, <2>2 DEF Stands
<1>8. 1 + Len(Joined(<<>>)) = 1 /\ 1 \in Nat \ {0}
    BY <1>4
<1>9. /\ Stands(Joined(<<>>), w, 1)
      /\ Stands(Joined(ps), w, 1 + Len(Joined(<<>>)))
    BY <1>4, <1>5, <1>6, <1>7, <1>8
<1>10. \A i : i \notin 1 .. Len(<<>>) /\ i \notin 1 .. Len(<<>>) - 1
    BY <1>4
<1>11. QED
    BY <1>2, <1>5, <1>8, <1>9, <1>10 DEF Linking, Joined

(* The inductive invariant of the shared context.                            *)
LinkInv ==
    Linking(Joined(Atomized), Whites, ToSet(Atomized), Stripped(Roomless(ToSet(Atomized))))

(* What the whole, its white space and its pieces are, in the text at hand.  *)
LEMMA WholeOfPieces ==
    ASSUME text \in Seq(Symbols)
    PROVE  /\ Atomized \in Seq(Piece) /\ Len(Atomized) \in Nat
           /\ \A x : x \in ToSet(Atomized) <=> \E i \in 1 .. Len(Atomized) : x = Atomized[i]
           /\ Whole(Joined(Atomized), Whites, ToSet(Atomized), Stripped(Roomless(ToSet(Atomized))))
<1>1. PICK ps : ps = Atomized
    OBVIOUS
<1>2. ps \in Seq(Piece)
    BY <1>1, LettersAreLetters, AtomizedInOrder
<1>3. Len(ps) \in Nat /\ DOMAIN ps = 1 .. Len(ps) /\ \A i \in 1 .. Len(ps) : ps[i] \in Piece
    BY <1>2, LenProperties, ElementOfSeq
<1>4. \A x : x \in ToSet(ps) <=> \E i \in 1 .. Len(ps) : x = ps[i]
    BY <1>3 DEF ToSet
<1>5. ToSet(ps) \in SUBSET Piece
    BY <1>3, <1>4
<1>6. Joined(ps) \in Piece
    BY <1>2, FlattenLaid DEF Joined, Piece
<1>7. QED
    BY <1>1, <1>2, <1>3, <1>4, <1>5, <1>6 DEF Whole

LEMMA LinkInvAlways ==
    ChunkerSpec => []LinkInv
<1>1. ChunkerInit => LinkInv
  <2>1. SUFFICES ASSUME ChunkerInit PROVE LinkInv
      OBVIOUS
  <2>2. pieces = <<>> /\ current = <<>> /\ chunks = <<>> /\ phase = "given"
      BY <2>1 DEF ChunkerInit
  <2>3. \A i : i \notin 1 .. Len(<<>>) /\ i \notin 1 .. Len(<<>>) - 1
      OBVIOUS
  <2>4. QED
      BY <2>2, <2>3 DEF LinkInv, Linking
<1>2. ASSUME ChunkInv, LinkInv, [ChunkerNext]_chunkerVars PROVE LinkInv'
  <2>1. PICK L : L = Letters
      OBVIOUS
  <2>2. text \in Seq(Symbols) /\ Packing(L)
      BY <1>2, <2>1 DEF ChunkInv
  <2>3. PICK w : w = Joined(Atomized)
      OBVIOUS
  <2>4. PICK W : W = Whites
      OBVIOUS
  <2>5. PICK Q : Q = ToSet(Atomized)
      OBVIOUS
  <2>6. PICK P : P = Stripped(Roomless(Q))
      OBVIOUS
  <2>7. /\ Whole(w, W, Q, P) /\ Atomized \in Seq(Piece)
        /\ \A i \in 1 .. Len(Atomized) : Atomized[i] \in Q
      BY <2>2, <2>3, <2>4, <2>5, <2>6, WholeOfPieces
  <2>8. Linking(w, W, Q, P)
      BY <1>2, <2>3, <2>4, <2>5, <2>6 DEF LinkInv
  <2>9. text' = text
      BY <1>2 DEF ChunkerNext, chunkerVars, Short, Long, Packed, Full, Finished
  <2>10. w = Joined(Atomized)' /\ W = Whites' /\ Q = ToSet(Atomized)'
         /\ P = Stripped(Roomless(Q))'
    <3>1. Atomized' = Atomized /\ \A c : Strip(c)' = Strip(c)
        BY <2>9, SameText
    <3>2. w = Joined(Atomized)' /\ Q = ToSet(Atomized)'
        BY <2>3, <2>5, <3>1 DEF Joined
    <3>3. W = Whites'
        BY <2>4, <2>9 DEF Whites, Kind
    <3>4. P = Stripped(Roomless(Q))'
        BY <2>6, <3>1 DEF Stripped, Roomless
    <3>5. QED
        BY <3>2, <3>3, <3>4
  <2>11. Linking(w, W, Q, P)'
    <3>1. CASE Short
        BY <2>2, <2>8, <3>1, ShortLinks
    <3>2. CASE Long
        BY <2>2, <2>3, <2>7, <2>8, <3>2, LongLinks
    <3>3. CASE Packed
        BY <2>2, <2>7, <2>8, <3>3, PackedLinks
    <3>4. CASE Full
        BY <2>2, <2>7, <2>8, <3>4, FullLinks
    <3>5. CASE Finished
        BY <2>2, <2>7, <2>8, <3>5, FinishedLinks
    <3>6. CASE UNCHANGED chunkerVars
        BY <2>8, <3>6 DEF chunkerVars, Linking, Joined
    <3>7. QED
        BY <1>2, <3>1, <3>2, <3>3, <3>4, <3>5, <3>6 DEF ChunkerNext
  <2>12. QED
      BY <2>10, <2>11 DEF LinkInv
<1>3. QED
    BY <1>1, <1>2, ChunkInvAlways, PTL DEF ChunkerSpec

(* NeighboursShare: in a text of any length, whatever the size and the       *)
(* overlap, a chunk begins with the end of the one before, unless its first  *)
(* piece leaves no room, or only white space that was stripped is between.   *)
THEOREM NeighboursShareAlways ==
    ChunkerSpec => []NeighboursShare
<1>1. ASSUME ChunkInv, LinkInv, SizeBound PROVE NeighboursShare
  <2>1. PICK w : w = Joined(Atomized)
      OBVIOUS
  <2>2. PICK W : W = Whites
      OBVIOUS
  <2>3. PICK Q : Q = ToSet(Atomized)
      OBVIOUS
  <2>4. PICK P : P = Stripped(Roomless(Q))
      OBVIOUS
  <2>5. text \in Seq(Symbols) /\ chunks \in Seq(Piece)
      BY <1>1 DEF ChunkInv, Packing
  <2>6. w \in Piece
      BY <2>1, <2>5, WholeOfPieces DEF Whole
  <2>7. DOMAIN w = 1 .. Len(w) /\ Len(w) \in Nat /\ \A k \in 1 .. Len(w) : w[k] \in Nat
      BY <2>6, LenProperties, ElementOfSeq DEF Piece
  <2>8. Overlap > 0 => \A i \in 1 .. Len(chunks) - 1 : Sharing(chunks[i], chunks[i + 1], w, W, P)
      BY <1>1, <2>1, <2>2, <2>3, <2>4 DEF LinkInv, Linking
  <2> DEFINE overlapped(c, d) == \E n \in DOMAIN c : IsPrefix(SubSeq(c, n, Len(c)), d)
             roomless(d) == \E piece \in ToSet(Atomized) :
                               /\ Len(piece) + Overlap > Size
                               /\ Strip(piece) # <<>> /\ IsPrefix(Strip(piece), d)
             apart(c, d) == \E j, l \in DOMAIN w :
                               /\ w[j] = Last(c) /\ w[l] = Head(d) /\ j + 1 < l
                               /\ \A k \in j + 1 .. l - 1 : Kind(w[k]) \in White
  <2>9. ASSUME Overlap > 0, NEW i \in 1 .. Len(chunks) - 1
        PROVE  LET c == chunks[i]
                   d == chunks[i + 1]
               IN overlapped(c, d) \/ roomless(d) \/ apart(c, d)
    <3>1. PICK c : c = chunks[i]
        OBVIOUS
    <3>2. PICK d : d = chunks[i + 1]
        OBVIOUS
    <3>3. c \in Piece
      <4>1. Len(chunks) \in Nat
          BY <2>5, LenProperties
      <4>2. i \in 1 .. Len(chunks)
          BY <2>9, <4>1
      <4>3. QED
          BY <2>5, <3>1, <4>2, ElementOfSeq
    <3>4. DOMAIN c = 1 .. Len(c)
        BY <3>3, LenProperties DEF Piece
    <3>5. Sharing(c, d, w, W, P)
        BY <2>8, <2>9, <3>1, <3>2
    <3>6. CASE \E n \in 1 .. Len(c) : IsPrefix(SubSeq(c, n, Len(c)), d)
        BY <3>1, <3>2, <3>4, <3>6
    <3>7. CASE \E h \in P : IsPrefix(h, d)
      <4>1. PICK h \in P : IsPrefix(h, d)
          BY <3>7
      <4>2. PICK piece \in Roomless(Q) : h = Strip(piece) /\ h # <<>>
          BY <2>4, <4>1 DEF Stripped
      <4>3. piece \in ToSet(Atomized) /\ Len(piece) + Overlap > Size
          BY <2>3, <4>2 DEF Roomless
      <4>4. roomless(d)
          BY <4>1, <4>2, <4>3
      <4>5. QED
          BY <3>2, <4>4
    <3>8. CASE \E j, l \in 1 .. Len(w) :
                  /\ w[j] = Last(c) /\ w[l] = Head(d) /\ j + 1 < l
                  /\ \A k \in j + 1 .. l - 1 : w[k] \in W
      <4>1. \A x \in W : Kind(x) \in White
          BY <2>2 DEF Whites
      <4>2. apart(c, d)
          BY <2>7, <3>8, <4>1
      <4>3. QED
          BY <3>1, <3>2, <4>2
    <3>9. QED
        BY <3>5, <3>6, <3>7, <3>8 DEF Sharing
  <2>10. QED
      BY <1>1, <2>1, <2>9 DEF NeighboursShare
<1>2. QED
    BY <1>1, ChunkInvAlways, LinkInvAlways, SizeBoundAlways, PTL
====
