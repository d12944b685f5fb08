---------------------------- MODULE VectorMemory ----------------------------
(***************************************************************************)
(* One tenant's memory: the calls of LocalMemoryPipeline over              *)
(* ChromaVectorStore (bat/services/rag/pipeline.py,                        *)
(* bat/adapters/vector_chroma.py) from several replicas, each with its own *)
(* cache of collection handles.  A call on Chroma is a thread's job: it    *)
(* takes effect at one moment, or raises without effect, also when nobody  *)
(* waits for it any more.  A handle stands for one collection and raises   *)
(* once that is deleted.                                                   *)
(***************************************************************************)
EXTENDS Naturals, FiniteSets

CONSTANTS Replicas,   \* the processes that share the Chroma server
          Documents,  \* calls of ingest, one document each
          Searches,   \* calls of retrieve
          Erasures,   \* calls of forget_tenant
          At,         \* the replica that serves each call
          Batches     \* the batches embed cuts a document into, a chunk each

Calls == Documents \cup Searches \cup Erasures

ASSUME MemoryAssumption ==
    /\ IsFiniteSet(Calls) /\ At \in [Calls -> Replicas]
    /\ Batches \in Nat \ {0}
    /\ Documents \cap Searches = {}
    /\ Erasures \cap (Documents \cup Searches) = {}

VARIABLES collection,  \* the collection of the tenant's name in Chroma, or none
          contents,    \* the chunks in it
          created,     \* the collections created so far
          cached,      \* _collections.get(namespace) of each replica
          locked,      \* the call that holds each replica's _lock
          pc,          \* where each call is
          job,         \* its job on Chroma: none, pending, done or raised
          handle,      \* the collection it works on
          embedded,    \* the batches it has embedded
          found,       \* what each search had to choose its answer from
          asked,       \* the documents there when each erasure was asked for
          dropped      \* the newest collection deleted

chroma == <<collection, contents, created>>
caches == <<cached, locked>>
observed == <<asked, dropped>>
vars == <<chroma, caches, pc, job, handle, embedded, found, observed>>

None == 0

Chunks(d) == {d} \X (1 .. Batches)
InMemory == {d \in Documents : \E i \in 1 .. Batches : <<d, i>> \in contents}

Init == /\ collection = None /\ contents = {} /\ created = 0
        /\ cached = [r \in Replicas |-> None]
        /\ locked = [r \in Replicas |-> FALSE]
        /\ pc = [c \in Calls |-> "idle"]
        /\ job = [c \in Calls |-> "none"]
        /\ handle = [c \in Calls |-> None]
        /\ embedded = [c \in Calls |-> 0]
        /\ found = [c \in Calls |-> {}]
        /\ asked = [c \in Calls |-> {}] /\ dropped = None

Goto(c, location) == pc' = [pc EXCEPT ![c] = location]
Job(c, state) == job' = [job EXCEPT ![c] = state]

-----------------------------------------------------------------------------
(* _collection, with the lock held across get_or_create_collection.        *)

FoundCached(c) ==
    /\ pc[c] = "idle" /\ c \notin Erasures
    /\ ~locked[At[c]] /\ cached[At[c]] # None
    /\ handle' = [handle EXCEPT ![c] = cached[At[c]]]
    /\ Goto(c, "embedding")
    /\ UNCHANGED <<chroma, caches, job, embedded, found, observed>>

NotCached(c) ==
    /\ pc[c] = "idle" /\ c \notin Erasures
    /\ ~locked[At[c]] /\ cached[At[c]] = None
    /\ locked' = [locked EXCEPT ![At[c]] = TRUE]
    /\ Goto(c, "resolving") /\ Job(c, "pending")
    /\ UNCHANGED <<chroma, cached, handle, embedded, found, observed>>

GetOrCreate(c) ==
    /\ job[c] = "pending" /\ handle[c] = None /\ c \notin Erasures
    /\ Job(c, "done")
    /\ IF collection # None
       THEN UNCHANGED chroma
       ELSE created' = created + 1 /\ collection' = created' /\ contents' = {}
    /\ handle' = [handle EXCEPT ![c] = collection']
    /\ UNCHANGED <<caches, pc, embedded, found, observed>>

Resolved(c) ==
    /\ pc[c] = "resolving" /\ job[c] = "done"
    /\ cached' = [cached EXCEPT ![At[c]] = handle[c]]
    /\ locked' = [locked EXCEPT ![At[c]] = FALSE]
    /\ Goto(c, "embedding") /\ Job(c, "none")
    /\ UNCHANGED <<chroma, handle, embedded, found, observed>>

-----------------------------------------------------------------------------
(* upsert and search: the text is embedded batch by batch, a query in one, *)
(* and then one job is done on the collection resolved before.             *)

Wanted(c) == IF c \in Documents THEN Batches ELSE 1

EmbeddedWriting(c) ==      \* mutant: each batch is stored as soon as it is embedded
    /\ pc[c] = "embedding"
    /\ embedded' = [embedded EXCEPT ![c] = @ + 1]
    /\ contents' = IF c \in Documents /\ handle[c] = collection
                   THEN contents \cup {<<c, embedded'[c]>>} ELSE contents
    /\ IF embedded'[c] < Wanted(c)
       THEN UNCHANGED <<pc, job>>
       ELSE Goto(c, "working") /\ Job(c, "pending")
    /\ UNCHANGED <<collection, created, caches, handle, found, observed>>

Embedded(c) ==
    /\ pc[c] = "embedding"
    /\ embedded' = [embedded EXCEPT ![c] = @ + 1]
    /\ IF embedded'[c] < Wanted(c)
       THEN UNCHANGED <<pc, job>>
       ELSE Goto(c, "working") /\ Job(c, "pending")
    /\ UNCHANGED <<chroma, caches, handle, found, observed>>

EmbeddingFailed(c) ==
    /\ pc[c] = "embedding"
    /\ Goto(c, "failed")
    /\ UNCHANGED <<chroma, caches, job, handle, embedded, found, observed>>

Working(c) == job[c] = "pending" /\ embedded[c] = Wanted(c)

UpsertByName(d) ==      \* mutant: into whatever collection has the name by then
    /\ Working(d)
    /\ collection # None
    /\ Job(d, "done") /\ contents' = contents \cup Chunks(d)
    /\ UNCHANGED <<collection, created, caches, pc, handle, embedded, found, observed>>

Upsert(d) ==
    /\ Working(d)
    /\ IF handle[d] = collection
       THEN Job(d, "done") /\ contents' = contents \cup Chunks(d)
       ELSE Job(d, "raised") /\ UNCHANGED contents
    /\ UNCHANGED <<collection, created, caches, pc, handle, embedded, found, observed>>

QueryChroma(q) ==
    /\ Working(q)
    /\ IF handle[q] = collection
       THEN Job(q, "done") /\ found' = [found EXCEPT ![q] = contents]
       ELSE Job(q, "raised") /\ UNCHANGED found
    /\ UNCHANGED <<chroma, caches, pc, handle, embedded, observed>>

Answered(c) ==
    /\ pc[c] = "working" /\ job[c] \in {"done", "raised"}
    /\ Goto(c, IF job[c] = "done" THEN "succeeded" ELSE "failed")
    /\ UNCHANGED <<chroma, caches, job, handle, embedded, found, observed>>

-----------------------------------------------------------------------------
(* drop_namespace: the cache is cleared under the lock, and the collection *)
(* deleted after it.                                                       *)

Popped(e) ==
    /\ pc[e] = "idle"
    /\ ~locked[At[e]]
    /\ cached' = [cached EXCEPT ![At[e]] = None]
    /\ asked' = [asked EXCEPT ![e] = InMemory]
    /\ Goto(e, "erasing") /\ Job(e, "pending")
    /\ UNCHANGED <<chroma, locked, handle, embedded, found, dropped>>

DeleteCollection(e) ==
    /\ job[e] = "pending"
    /\ Job(e, "done")
    /\ collection' = None /\ contents' = {}
    /\ dropped' = IF collection = None THEN dropped ELSE collection
    /\ UNCHANGED <<created, caches, pc, handle, embedded, found, asked>>

(* Whatever was raised is logged, and the request answered 204.            *)
Forgotten(e) ==
    /\ pc[e] = "erasing" /\ job[e] \in {"done", "raised"}
    /\ Goto(e, "succeeded")
    /\ UNCHANGED <<chroma, caches, job, handle, embedded, found, observed>>

-----------------------------------------------------------------------------
(* The server cannot be reached, or refuses.                               *)
JobFailed(c) ==
    /\ job[c] = "pending"
    /\ Job(c, "raised")
    /\ UNCHANGED <<chroma, caches, pc, handle, embedded, found, observed>>

ReleaseLock(c) ==
    locked' = IF pc[c] = "resolving" THEN [locked EXCEPT ![At[c]] = FALSE] ELSE locked

ResolvingFailed(c) ==
    /\ pc[c] = "resolving" /\ job[c] = "raised"
    /\ ReleaseLock(c)
    /\ Goto(c, "failed")
    /\ UNCHANGED <<chroma, cached, job, handle, embedded, found, observed>>

(* The request is cancelled; its job, if any, goes on without it.          *)
Abandoned(c) ==
    /\ pc[c] \in {"resolving", "embedding", "working", "erasing"}
    /\ ReleaseLock(c)
    /\ Goto(c, "gone")
    /\ UNCHANGED <<chroma, cached, job, handle, embedded, found, observed>>

Next == \/ \E c \in Calls : \/ FoundCached(c) \/ NotCached(c) \/ GetOrCreate(c) \/ Resolved(c)
                            \/ Embedded(c) \/ EmbeddingFailed(c) \/ Answered(c)
                            \/ JobFailed(c) \/ ResolvingFailed(c) \/ Abandoned(c)
        \/ \E d \in Documents : Upsert(d)
        \/ \E q \in Searches : QueryChroma(q)
        \/ \E e \in Erasures : Popped(e) \/ DeleteCollection(e) \/ Forgotten(e)

Spec == Init /\ [][Next]_vars
-----------------------------------------------------------------------------
(* An ingest that was under way when the memory was erased does not bring  *)
(* it back: what is there was written by calls that resolved the           *)
(* collection after the newest erasure, however long they embed and        *)
(* whichever replica's cache they resolved it from.                        *)
ErasureHolds == \A d \in InMemory : handle[d] = collection /\ handle[d] > dropped

(* A document is in memory as a whole or not at all, also when its ingest  *)
(* failed or was abandoned; what a search ranks, before it keeps the best  *)
(* top_k, has it so too; and once the client was told of it, only an       *)
(* erasure takes it away.                                                  *)
WholeDocuments ==
    /\ \A d \in InMemory : Chunks(d) \subseteq contents
    /\ \A q \in Searches : \A d \in Documents :
          Chunks(d) \cap found[q] \in {{}, Chunks(d)}
    /\ \A d \in Documents :
          pc[d] = "succeeded" /\ handle[d] > dropped => d \in InMemory

(* A tenant's memory is hard-deleted: once the erasure is confirmed, none  *)
(* of the documents that were there is left.                               *)
ErasureErases == \A e \in Erasures : pc[e] = "succeeded" => asked[e] \cap InMemory = {}
=============================================================================
