------------------------------ MODULE Lifespan ------------------------------
(***************************************************************************)
(* The life of the service (bat/api/app.py): the lifespan opens what the   *)
(* endpoints share, serves, and on the way out ends the purge task and     *)
(* closes the model client, the embedder, the session store and Redis, one *)
(* after the other.  Requests that embed may be under way when it stops.   *)
(***************************************************************************)
EXTENDS Embedder

VARIABLES configured,  \* the connections the settings ask for
          life,    \* where lifespan is
          open,    \* the connections that are open
          purge,   \* where _purge_loop is
          closers  \* the resources still to be closed

lifeVars == <<configured, life, open, purge, closers>>
vars == <<embedderVars, lifeVars>>

Connections == {"store", "redis"}
Closers == <<"llm", "embedder", "store", "redis">>

(* Sessions in Postgres or in memory, limits in Redis or in process.       *)
Backends == SUBSET Connections

Init == /\ EmbedderInit
        /\ configured \in Backends
        /\ life = "limiters" /\ open = {}
        /\ purge = "none" /\ closers = Closers

-----------------------------------------------------------------------------
(* Start-up: an exception here ends it, and closes nothing.                *)

LimitersBuilt ==
    /\ life = "limiters"
    /\ life' = IF "redis" \in configured THEN "pinging" ELSE "connecting"
    /\ UNCHANGED <<embedderVars, configured, open, purge, closers>>

RedisConnected ==
    /\ life = "pinging"
    /\ \/ open' = open \cup {"redis"} /\ life' = "verifying"
       \/ life' = "aborted" /\ UNCHANGED open
    /\ UNCHANGED <<embedderVars, configured, purge, closers>>

(* Both scripts are run once.                                              *)
LimitersVerified ==
    /\ life = "verifying"
    /\ life' \in {"connecting", "aborted"}
    /\ UNCHANGED <<embedderVars, configured, open, purge, closers>>

(* connect() of the Postgres store: the pool, then the schema.             *)
Connected ==
    /\ life = "connecting"
    /\ IF "store" \notin configured
       THEN life' = "preloading" /\ UNCHANGED open
       ELSE \/ open' = open \cup {"store"} /\ life' \in {"preloading", "aborted"}
            \/ life' = "aborted" /\ UNCHANGED open
    /\ UNCHANGED <<embedderVars, configured, purge, closers>>

(* The preload of the language model may fail; the service starts.         *)
Preloaded ==
    /\ life = "preloading"
    /\ life' = "serving" /\ purge' = "sleeping"
    /\ UNCHANGED <<embedderVars, configured, open, closers>>

-----------------------------------------------------------------------------
(* Serving.                                                                *)

RequestEmbeds(c) == life = "serving" /\ EmbedCalled(c) /\ UNCHANGED lifeVars

(* A failing purge is logged, and the loop goes on.                        *)
PurgeLoop ==
    /\ \/ purge = "sleeping" /\ life = "serving" /\ purge' = "purging"
       \/ purge = "purging" /\ purge' = "sleeping"
    /\ UNCHANGED <<embedderVars, configured, life, open, closers>>

-----------------------------------------------------------------------------
(* The finally of lifespan.                                                *)

StopUnawaited ==      \* mutant: the purge task is cancelled and not awaited
    /\ life = "serving"
    /\ life' = "closing"
    /\ UNCHANGED <<embedderVars, configured, open, purge, closers>>

Stop ==
    /\ life = "serving"
    /\ life' = "stopping"
    /\ UNCHANGED <<embedderVars, configured, open, purge, closers>>

PurgeEnded ==
    /\ life = "stopping" /\ purge # "none"
    /\ purge' = "none" /\ life' = "closing"
    /\ UNCHANGED <<embedderVars, configured, open, closers>>

CloserDone == closers' = Tail(closers)
Closing(resource) == life = "closing" /\ closers # <<>> /\ Head(closers) = resource

CloseModelClient ==
    /\ Closing("llm")
    /\ CloserDone
    /\ UNCHANGED <<embedderVars, configured, life, open, purge>>

CloseEmbedder ==
    /\ Closing("embedder")
    /\ CloseCalled
    /\ UNCHANGED lifeVars

EmbedderClosed ==
    /\ Closing("embedder")
    /\ closing = "closed" /\ UNCHANGED embedderVars
    /\ CloserDone
    /\ UNCHANGED <<configured, life, open, purge>>

CloseOrAbort(connection) ==      \* mutant: an exception is not suppressed
    /\ Closing(connection)
    /\ \/ open' = open \ {connection} /\ CloserDone /\ UNCHANGED life
       \/ life' = "aborted" /\ UNCHANGED <<open, closers>>
    /\ UNCHANGED <<embedderVars, configured, purge>>

(* close() raises or not; the next one is closed either way.               *)
CloseConnection(connection) ==
    /\ Closing(connection)
    /\ open' \in {open, open \ {connection}}
    /\ CloserDone
    /\ UNCHANGED <<embedderVars, configured, life, purge>>

Stopped ==
    /\ life = "closing" /\ closers = <<>>
    /\ life' = "stopped"
    /\ UNCHANGED <<embedderVars, configured, open, purge, closers>>

LifespanStep ==
    \/ LimitersBuilt \/ RedisConnected \/ LimitersVerified \/ Connected \/ Preloaded
    \/ PurgeEnded
    \/ CloseModelClient \/ CloseEmbedder \/ EmbedderClosed
    \/ \E connection \in Connections : CloseConnection(connection)
    \/ Stopped
    \/ Closing("embedder") /\ CloseReturned /\ UNCHANGED lifeVars

Resume(c) == Coroutine(c) /\ UNCHANGED lifeVars
Cancel(c) == EmbedCancelled(c) /\ UNCHANGED lifeVars
Thread == Worker /\ UNCHANGED lifeVars

Next == \/ LifespanStep \/ PurgeLoop \/ Stop
        \/ \E c \in Embeds : RequestEmbeds(c) \/ Resume(c) \/ Cancel(c)
        \/ Thread

(* The loop resumes whoever can go on, and native calls end.               *)
Fairness == /\ WF_vars(LifespanStep) /\ WF_vars(Thread)
            /\ \A c \in Embeds : WF_vars(Resume(c))

Spec == Init /\ [][Next]_vars /\ Fairness
-----------------------------------------------------------------------------
(* Nothing is used after it was closed: no batch is embedded with freed    *)
(* weights, however late its job was queued, and no purge is under way on  *)
(* a store that is being closed.                                           *)
NothingUsedAfterClose ==
    /\ running.kind = "batch" /\ running.llama # None => running.llama \in resident
    /\ purge = "purging" => "store" \in ToSet(closers) /\ life # "closing"

(* A service told to stop asks every resource to close and ends, whatever  *)
(* raises on the way; every embed comes back, with a vector for each text  *)
(* or with an error, also when close() comes between two of its batches.   *)
ShutdownEnds ==
    /\ (life = "stopping") ~> (life = "stopped" /\ closers = <<>> /\ stopped)
    /\ \A c \in Embeds : (pc[c] \in {"loading", "embedding"}) ~>
           \/ pc[c] = "embedded" /\ vectors[c] = Batches
           \/ pc[c] \in {"failed", "gone"}
=============================================================================
