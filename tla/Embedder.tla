------------------------------ MODULE Embedder ------------------------------
(***************************************************************************)
(* LlamaCppEmbedder (bat/adapters/llama_cpp_embedder.py): coroutines embed *)
(* texts batch by batch on one worker thread, which also loads the model   *)
(* and frees it.  The executor is external: first in, first out, a queued  *)
(* job can be cancelled and a started one cannot.                          *)
(***************************************************************************)
EXTENDS Naturals, SequencesExt

CONSTANTS Embeds,    \* calls of embed
          Batches    \* batches per call: texts by embedding.batch_size

ASSUME EmbedderAssumption == Batches \in Nat \ {0} /\ "close" \notin Embeds

VARIABLES llama,     \* self._llama: the instance, or none
          resident,  \* the instances in memory
          loads,     \* instances constructed so far
          queue,     \* the executor's queue
          running,   \* the job on the worker thread
          stopped,   \* the executor has been shut down
          future,    \* what each owner's job has come to
          pc,        \* where each embed is
          vectors,   \* the batches it has vectors of
          closing    \* where close() is

executor == <<queue, running, stopped, future>>
embedderVars == <<llama, resident, loads, executor, pc, vectors, closing>>

None == 0
Owners == Embeds \cup {"close"}
Job(kind, owner, instance) == [kind |-> kind, owner |-> owner, llama |-> instance]
NoJob == Job("none", "none", None)

EmbedderInit ==
    /\ llama = None /\ resident = {} /\ loads = 0
    /\ queue = <<>> /\ running = NoJob /\ stopped = FALSE
    /\ future = [o \in Owners |-> "none"]
    /\ pc = [c \in Embeds |-> "idle"] /\ vectors = [c \in Embeds |-> 0]
    /\ closing = "open"

(* run_in_executor, which raises once the executor is shut down.           *)
Submit(job) ==
    /\ queue' = IF stopped THEN queue ELSE Append(queue, job)
    /\ future' = [future EXCEPT ![job.owner] = IF stopped THEN "raised" ELSE "queued"]
    /\ UNCHANGED <<running, stopped>>

Goto(c, location) == pc' = [pc EXCEPT ![c] = location]

-----------------------------------------------------------------------------
(* embed and load, in the event loop.                                      *)

EmbedCalled(c) ==
    /\ pc[c] = "idle"
    /\ IF llama = None
       THEN Goto(c, "loading") /\ Submit(Job("load", c, None))
       ELSE Goto(c, "embedding") /\ Submit(Job("batch", c, None))
    /\ UNCHANGED <<llama, resident, loads, vectors, closing>>

Loaded(c) ==
    /\ pc[c] = "loading" /\ future[c] = "done"
    /\ Goto(c, "embedding") /\ Submit(Job("batch", c, None))
    /\ UNCHANGED <<llama, resident, loads, vectors, closing>>

BatchEmbedded(c) ==
    /\ pc[c] = "embedding" /\ future[c] = "done"
    /\ vectors' = [vectors EXCEPT ![c] = @ + 1]
    /\ IF vectors'[c] < Batches
       THEN Submit(Job("batch", c, None)) /\ UNCHANGED pc
       ELSE Goto(c, "embedded") /\ UNCHANGED executor
    /\ UNCHANGED <<llama, resident, loads, closing>>

(* The job raised, or shutdown cancelled it under its caller.              *)
EmbedFailed(c) ==
    /\ pc[c] \in {"loading", "embedding"}
    /\ future[c] \in {"raised", "dropped"}
    /\ Goto(c, "failed")
    /\ UNCHANGED <<llama, resident, loads, executor, vectors, closing>>

(* A caller that goes away takes its job out of the queue, if it is there.  *)
EmbedCancelled(c) ==
    /\ pc[c] \in {"loading", "embedding"}
    /\ IF future[c] = "queued"
       THEN /\ \E i \in DOMAIN queue : queue[i].owner = c /\ queue' = RemoveAt(queue, i)
            /\ future' = [future EXCEPT ![c] = "dropped"]
       ELSE UNCHANGED <<queue, future>>
    /\ Goto(c, "gone")
    /\ UNCHANGED <<llama, resident, loads, running, stopped, vectors, closing>>

-----------------------------------------------------------------------------
(* _load_blocking, _embed_blocking and the native close, on the worker.    *)

JobStarted ==
    /\ running = NoJob /\ queue # <<>>
    /\ running' = IF Head(queue).kind = "free" THEN Head(queue)
                  ELSE [Head(queue) EXCEPT !.llama = llama]
    /\ queue' = Tail(queue)
    /\ future' = [future EXCEPT ![Head(queue).owner] = "started"]
    /\ UNCHANGED <<llama, resident, loads, stopped, pc, vectors, closing>>

Ended(outcome) ==
    /\ running' = NoJob
    /\ future' = [future EXCEPT ![running.owner] = outcome]
    /\ UNCHANGED <<queue, stopped, pc, vectors, closing>>

(* An instance that is there is kept, else one is built; the probe that    *)
(* follows may raise and leaves it there.                                  *)
LoadFinished ==
    /\ running.kind = "load"
    /\ IF running.llama # None
       THEN Ended("done") /\ UNCHANGED <<llama, resident, loads>>
       ELSE /\ loads' = loads + 1 /\ llama' = loads'
            /\ resident' = resident \cup {loads'}
            /\ \E outcome \in {"done", "raised"} : Ended(outcome)

BatchFinished ==
    /\ running.kind = "batch"
    /\ Ended(IF running.llama = None THEN "raised" ELSE "done")
    /\ UNCHANGED <<llama, resident, loads>>

JobRaised ==
    /\ running.kind \in {"load", "batch"}
    /\ Ended("raised")
    /\ UNCHANGED <<llama, resident, loads>>

FreeFinished ==
    /\ running.kind = "free"
    /\ resident' = resident \ {running.llama}
    /\ Ended("done")
    /\ UNCHANGED <<llama, loads>>

Worker == JobStarted \/ LoadFinished \/ BatchFinished \/ JobRaised \/ FreeFinished

-----------------------------------------------------------------------------
(* close.                                                                  *)

(* shutdown(wait=False, cancel_futures=True): what is queued is cancelled. *)
Shutdown ==
    /\ stopped' = TRUE /\ queue' = <<>>
    /\ future' = [o \in Owners |-> IF future[o] = "queued" THEN "dropped" ELSE future[o]]
    /\ closing' = "closed"
    /\ UNCHANGED running

CloseCalledInline ==      \* mutant: the instance is freed in the event loop
    /\ closing = "open"
    /\ llama' = None /\ resident' = resident \ {llama}
    /\ Shutdown
    /\ UNCHANGED <<loads, pc, vectors>>

CloseCalled ==
    /\ closing = "open"
    /\ llama' = None
    /\ IF llama = None THEN Shutdown
       ELSE Submit(Job("free", "close", llama)) /\ closing' = "freeing"
    /\ UNCHANGED <<resident, loads, pc, vectors>>

CloseReturned ==
    /\ closing = "freeing" /\ future["close"] = "done"
    /\ Shutdown
    /\ UNCHANGED <<llama, resident, loads, pc, vectors>>

Coroutine(c) == Loaded(c) \/ BatchEmbedded(c) \/ EmbedFailed(c)
=============================================================================
