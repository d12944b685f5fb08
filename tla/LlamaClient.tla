---------------------------- MODULE LlamaClient ----------------------------
(***************************************************************************)
(* LlamaCppClient (bat/adapters/llama_cpp_client.py): asynchronous callers *)
(* on one event loop, sharing a model whose native calls run on a          *)
(* one-worker thread pool.                                                 *)
(*                                                                         *)
(* An action of the event loop is everything one coroutine does between    *)
(* two awaits; an action of the worker is a step of the inference thread.  *)
(* Loop and worker actions interleave freely.  A call is one invocation of *)
(* complete() or stream(); a timeout, a cancellation of the calling task,  *)
(* a native failure and close() may hit it at every await.                 *)
(***************************************************************************)
EXTENDS Naturals, Sequences, SequencesExt

CONSTANTS Calls,          \* invocations of complete() and stream()
          StreamCalls,    \* those of stream()
          ToolCalls,      \* those of complete() that advertise tools
          MaxQueueDepth,  \* settings.model.max_queue_depth
          MaxTokens,      \* settings.model.max_tokens
          ConfigFormat,   \* settings.model.chat_format, or NoFormat
          ToolFormat,     \* settings.model.tool_chat_format, or NoFormat
          NativeFormat,   \* the template Llama() picks when given none
          NoFormat,       \* Python's None, for a format
          NoCall,         \* no call
          Closer          \* the task that runs close()

ASSUME CallsAssumption ==
    /\ StreamCalls \subseteq Calls
    /\ ToolCalls \subseteq Calls \ StreamCalls
    /\ NoCall \notin Calls
    /\ Closer \notin Calls
ASSUME BoundsAssumption ==
    /\ MaxQueueDepth \in Nat \ {0}
    /\ MaxTokens \in Nat
ASSUME FormatsAssumption ==
    /\ NativeFormat # NoFormat

VARIABLES pc,          \* where each call is
          outcome,     \* how each call ended
          waiters,     \* self._waiters
          slot,        \* the call inside `async with self._slot`, or NoCall
          slotQueue,   \* the calls suspended in self._slot.acquire(), FIFO
          llama,       \* self._llama: 0 is None, n the n-th Llama instance
          loads,       \* number of Llama instances constructed
          freed,       \* the instances whose native close() was entered
          chatFormat,  \* the chat_format attribute of the instance in use
          savedFormat, \* `previous` of the _with_chat_format in progress
          rendered,    \* the template each generation was rendered with
          jobs,        \* the executor's FIFO of jobs not yet started
          running,     \* the jobs its worker threads are executing
          future,      \* the asyncio future of each owner's latest job
          stopped,     \* the executor has been shut down
          inbox,       \* the asyncio.Queue of each stream
          cancelled,   \* the threading.Event of each stream
          produced,    \* tokens the producer of a stream has enqueued
          yielded,     \* tokens the stream has yielded to its consumer
          closer       \* where the task that runs close() is

loopVars   == <<pc, outcome, waiters, slot, slotQueue>>
modelVars  == <<llama, loads, freed, chatFormat, savedFormat, rendered>>
poolVars   == <<jobs, running, future, stopped>>
streamVars == <<inbox, cancelled, produced, yielded>>
vars == <<loopVars, modelVars, poolVars, streamVars, closer>>

Owners == Calls \cup {Closer}
Formats == {NativeFormat, ConfigFormat, ToolFormat} \ {NoFormat}

Job == [kind : {"load", "complete", "stream", "leaving", "close"},
        by : Owners, llama : Nat]

Inside == {"queued", "granted", "loading", "generating",
           "streaming", "yielded", "unwinding"}
HoldsSlot == Inside \ {"queued"}
Outcomes == {"ok", "full", "timeout", "cancelled", "error",
             "load failed", "unavailable", "shut down"}

(* The format passed to _with_chat_format for call c, and the template the *)
(* generation must then be rendered with.                                  *)
FormatFor(c) == IF c \in ToolCalls THEN ToolFormat ELSE ConfigFormat
LoadedFormat == IF ConfigFormat = NoFormat THEN NativeFormat ELSE ConfigFormat
Wanted == [c \in Calls |-> IF FormatFor(c) = NoFormat THEN LoadedFormat
                                                      ELSE FormatFor(c)]

(* settings.model.preload: the weights are loaded before serving, or not.  *)
Init == /\ pc = [c \in Calls |-> "start"]
        /\ outcome = [c \in Calls |-> "none"]
        /\ waiters = 0
        /\ slot = NoCall
        /\ slotQueue = <<>>
        /\ llama \in {0, 1}
        /\ loads = llama
        /\ freed = {}
        /\ chatFormat = LoadedFormat
        /\ savedFormat = LoadedFormat
        /\ rendered = [c \in Calls |-> NoFormat]
        /\ jobs = <<>>
        /\ running = {}
        /\ future = [o \in Owners |-> "none"]
        /\ stopped = FALSE
        /\ inbox = [c \in StreamCalls |-> <<>>]
        /\ cancelled = [c \in StreamCalls |-> FALSE]
        /\ produced = [c \in StreamCalls |-> 0]
        /\ yielded = [c \in StreamCalls |-> 0]
        /\ closer = "open"

-----------------------------------------------------------------------------
(* Admission, the slot and the executor.                                   *)

(* loop.run_in_executor; a shut-down executor raises and nothing changes.  *)
Submit(kind, o, w) ==
    /\ jobs' = Append(jobs, [kind |-> kind, by |-> o, llama |-> w])
    /\ future' = [future EXCEPT ![o] = "pending"]
    /\ UNCHANGED <<running, stopped>>

GenerationKind(c) == IF c \in StreamCalls THEN "stream" ELSE "complete"

(* What a call submits once it owns the slot: _ensure_loaded, then _run or *)
(* stream.                                                                 *)
Proceed(c) ==
    /\ ~stopped
    /\ IF llama = 0
       THEN Submit("load", c, 0)
       ELSE Submit(GenerationKind(c), c, llama)

PcAfterProceed(c) ==
    IF llama = 0 THEN "loading"
    ELSE IF c \in StreamCalls THEN "streaming" ELSE "generating"

(* Semaphore.release: the slot passes to the longest waiter, which runs    *)
(* again when the loop schedules it.                                       *)
PassSlot(pcs) ==
    IF slotQueue = <<>>
    THEN /\ slot' = NoCall
         /\ pc' = pcs
         /\ UNCHANGED slotQueue
    ELSE /\ slot' = Head(slotQueue)
         /\ slotQueue' = Tail(slotQueue)
         /\ pc' = [pcs EXCEPT ![Head(slotQueue)] = "granted"]

LeaveQueue == waiters' = IF waiters = 0 THEN 0 ELSE waiters - 1

(* A call that owns the slot ends: `async with` and `finally` unwind.      *)
Finish(c, how) ==
    /\ PassSlot([pc EXCEPT ![c] = "done"])
    /\ outcome' = [outcome EXCEPT ![c] = how]
    /\ LeaveQueue

(* Cancelling the future of a job drops the job if it has not started; a   *)
(* started one runs on and its result is discarded.                        *)
DropJob(c) ==
    /\ IF \E i \in DOMAIN jobs : jobs[i].by = c
       THEN \E i \in DOMAIN jobs : /\ jobs[i].by = c
                                   /\ jobs' = RemoveAt(jobs, i)
       ELSE UNCHANGED jobs
    /\ future' = [future EXCEPT ![c] = "cancelled"]
    /\ UNCHANGED <<running, stopped>>

-----------------------------------------------------------------------------
(* The event loop: complete() and stream().                                *)

Reject(c) ==
    /\ pc[c] = "start"
    /\ waiters >= MaxQueueDepth
    /\ pc' = [pc EXCEPT ![c] = "done"]
    /\ outcome' = [outcome EXCEPT ![c] = "full"]
    /\ UNCHANGED <<waiters, slot, slotQueue, modelVars, poolVars, streamVars, closer>>

EnterAndWait(c) ==
    /\ pc[c] = "start"
    /\ waiters < MaxQueueDepth
    /\ waiters' = waiters + 1
    /\ slot # NoCall
    /\ slotQueue' = Append(slotQueue, c)
    /\ pc' = [pc EXCEPT ![c] = "queued"]
    /\ UNCHANGED <<outcome, slot, modelVars, poolVars, streamVars, closer>>

(* A free slot is taken without suspending, so entering runs straight      *)
(* through to the first run_in_executor.                                   *)
EnterAndProceed(c) ==
    /\ pc[c] = "start"
    /\ waiters < MaxQueueDepth
    /\ slot = NoCall
    /\ waiters' = waiters + 1
    /\ slot' = c
    /\ Proceed(c)
    /\ pc' = [pc EXCEPT ![c] = PcAfterProceed(c)]
    /\ UNCHANGED <<outcome, slotQueue, modelVars, streamVars, closer>>

(* The executor refuses the job; the finally blocks undo the entry.        *)
EnterAfterShutdown(c) ==
    /\ pc[c] = "start"
    /\ waiters < MaxQueueDepth
    /\ slot = NoCall
    /\ stopped
    /\ pc' = [pc EXCEPT ![c] = "done"]
    /\ outcome' = [outcome EXCEPT ![c] = "shut down"]
    /\ UNCHANGED <<waiters, slot, slotQueue, modelVars, poolVars, streamVars, closer>>

SlotGranted(c) ==
    /\ pc[c] = "granted"
    /\ \/ /\ Proceed(c)
          /\ pc' = [pc EXCEPT ![c] = PcAfterProceed(c)]
          /\ UNCHANGED <<outcome, waiters, slot, slotQueue>>
       \/ /\ stopped
          /\ Finish(c, "shut down")
          /\ UNCHANGED poolVars
    /\ UNCHANGED <<modelVars, streamVars, closer>>

(* `await self.load()` returns inside _ensure_loaded; self._llama is read  *)
(* again, because close() may have run in between.                         *)
LoadReturned(c) ==
    /\ pc[c] = "loading"
    /\ \/ /\ future[c] = "failed"
          /\ Finish(c, "load failed")
          /\ UNCHANGED poolVars
       \/ /\ future[c] = "cancelled"
          /\ Finish(c, "cancelled")
          /\ UNCHANGED poolVars
       \/ /\ future[c] = "ok"
          /\ llama = 0
          /\ Finish(c, "unavailable")
          /\ UNCHANGED poolVars
       \/ /\ future[c] = "ok"
          /\ llama # 0
          /\ stopped
          /\ Finish(c, "shut down")
          /\ UNCHANGED poolVars
       \/ /\ future[c] = "ok"
          /\ llama # 0
          /\ Proceed(c)
          /\ pc' = [pc EXCEPT ![c] = PcAfterProceed(c)]
          /\ UNCHANGED <<outcome, waiters, slot, slotQueue>>
    /\ UNCHANGED <<modelVars, streamVars, closer>>

(* _run resumes with the result, the native exception or the cancellation  *)
(* of its job by shutdown().                                               *)
CompletionReturned(c) ==
    /\ pc[c] = "generating"
    /\ \/ /\ future[c] = "ok"
          /\ Finish(c, "ok")
       \/ /\ future[c] = "failed"
          /\ Finish(c, "error")
       \/ /\ future[c] = "cancelled"
          /\ Finish(c, "cancelled")
    /\ UNCHANGED <<modelVars, poolVars, streamVars, closer>>

(* asyncio.wait_for gives up; it covers the executor job only, not the     *)
(* wait for the slot and not the load.                                     *)
CompletionTimedOut(c) ==
    /\ pc[c] = "generating"
    /\ Finish(c, "timeout")
    /\ DropJob(c)
    /\ UNCHANGED <<modelVars, streamVars, closer>>

(* Mutant: the waiter leaves without _leave_queue.                         *)
CancelledInQueueUncounted(c) ==
    /\ pc[c] = "queued"
    /\ pc' = [pc EXCEPT ![c] = "done"]
    /\ outcome' = [outcome EXCEPT ![c] = "cancelled"]
    /\ \E i \in DOMAIN slotQueue : /\ slotQueue[i] = c
                                   /\ slotQueue' = RemoveAt(slotQueue, i)
    /\ UNCHANGED <<waiters, slot, modelVars, poolVars, streamVars, closer>>

(* The calling task is cancelled while it awaits the slot, ...             *)
CancelledInQueue(c) ==
    /\ pc[c] = "queued"
    /\ pc' = [pc EXCEPT ![c] = "done"]
    /\ outcome' = [outcome EXCEPT ![c] = "cancelled"]
    /\ \E i \in DOMAIN slotQueue : /\ slotQueue[i] = c
                                   /\ slotQueue' = RemoveAt(slotQueue, i)
    /\ LeaveQueue
    /\ UNCHANGED <<slot, modelVars, poolVars, streamVars, closer>>

(* Mutant: a waiter cancelled between its wake-up and its resumption does  *)
(* not pass the wake-up on.                                                *)
CancelledWhenGrantedLosingSlot(c) ==
    /\ pc[c] = "granted"
    /\ pc' = [pc EXCEPT ![c] = "done"]
    /\ outcome' = [outcome EXCEPT ![c] = "cancelled"]
    /\ LeaveQueue
    /\ UNCHANGED <<slot, slotQueue, modelVars, poolVars, streamVars, closer>>

(* ... after it was handed the slot but before it ran again, ...           *)
CancelledWhenGranted(c) ==
    /\ pc[c] = "granted"
    /\ Finish(c, "cancelled")
    /\ UNCHANGED <<modelVars, poolVars, streamVars, closer>>

(* ... or while it awaits its load or its completion.                      *)
CancelledInJob(c) ==
    /\ pc[c] \in {"loading", "generating"}
    /\ Finish(c, "cancelled")
    /\ DropJob(c)
    /\ UNCHANGED <<modelVars, streamVars, closer>>

(* The next await queue.get() of a stream returns a token, ...             *)
TokenReceived(c) ==
    /\ pc[c] = "streaming"
    /\ inbox[c] # <<>>
    /\ Head(inbox[c]) = "token"
    /\ inbox' = [inbox EXCEPT ![c] = Tail(@)]
    /\ yielded' = [yielded EXCEPT ![c] = @ + 1]
    /\ pc' = [pc EXCEPT ![c] = "yielded"]
    /\ UNCHANGED <<outcome, waiters, slot, slotQueue, modelVars, poolVars,
                   cancelled, produced, closer>>

(* The stream leaves its loop: its finally sets `cancel` and awaits        *)
(* asyncio.shield(future).                                                 *)
Unwind(c, how) ==
    /\ pc' = [pc EXCEPT ![c] = "unwinding"]
    /\ outcome' = [outcome EXCEPT ![c] = how]
    /\ cancelled' = [cancelled EXCEPT ![c] = TRUE]
    /\ UNCHANGED <<waiters, slot, slotQueue, modelVars, poolVars,
                   produced, yielded, closer>>

(* ... or _DONE, or the exception the producer forwarded.                  *)
StreamEnded(c) ==
    /\ pc[c] = "streaming"
    /\ inbox[c] # <<>>
    /\ \/ /\ Head(inbox[c]) = "DONE"
          /\ Unwind(c, "ok")
       \/ /\ Head(inbox[c]) = "exception"
          /\ Unwind(c, "error")
    /\ inbox' = [inbox EXCEPT ![c] = Tail(@)]

(* The consumer asks for the next token, ...                               *)
TokenRequested(c) ==
    /\ pc[c] = "yielded"
    /\ pc' = [pc EXCEPT ![c] = "streaming"]
    /\ UNCHANGED <<outcome, waiters, slot, slotQueue, modelVars, poolVars,
                   streamVars, closer>>

(* ... or closes the generator, which is suspended at its yield.           *)
StreamClosed(c) ==
    /\ pc[c] = "yielded"
    /\ Unwind(c, "cancelled")
    /\ UNCHANGED inbox

StreamTimedOut(c) ==
    /\ pc[c] = "streaming"
    /\ Unwind(c, "timeout")
    /\ UNCHANGED inbox

CancelledInStream(c) ==
    /\ pc[c] = "streaming"
    /\ Unwind(c, "cancelled")
    /\ UNCHANGED inbox

FinishStream(c) ==
    /\ pc[c] = "unwinding"
    /\ PassSlot([pc EXCEPT ![c] = "done"])
    /\ LeaveQueue
    /\ UNCHANGED <<outcome, modelVars, poolVars, streamVars, closer>>

(* The producer has returned, or its job was cancelled by shutdown().      *)
StreamUnwound(c) ==
    /\ future[c] # "pending"
    /\ FinishStream(c)

(* A cancellation while the finally awaits the producer is suppressed, and *)
(* the stream goes on without waiting for it.                              *)
CancelledInUnwind(c) ==
    /\ future[c] = "pending"
    /\ FinishStream(c)

-----------------------------------------------------------------------------
(* The event loop: close().                                                *)

(* executor.shutdown(wait=False, cancel_futures=True).                     *)
Shutdown ==
    /\ stopped' = TRUE
    /\ jobs' = <<>>
    /\ future' = [o \in Owners |->
                    IF \E i \in DOMAIN jobs : jobs[i].by = o THEN "cancelled"
                                                             ELSE future[o]]
    /\ closer' = "closed"
    /\ UNCHANGED <<loopVars, loads, freed, chatFormat, savedFormat, rendered,
                   running, streamVars>>

(* Mutant: the client still holds the instance while it is being closed.   *)
CloseModelKept ==
    /\ closer = "open"
    /\ llama # 0
    /\ Submit("close", Closer, llama)
    /\ closer' = "closing"
    /\ UNCHANGED <<loopVars, modelVars, streamVars>>

(* self._llama becomes None before the native close is queued.             *)
CloseModel ==
    /\ closer = "open"
    /\ llama # 0
    /\ llama' = 0
    /\ Submit("close", Closer, llama)
    /\ closer' = "closing"
    /\ UNCHANGED <<loopVars, loads, freed, chatFormat, savedFormat, rendered,
                   streamVars>>

CloseUnloaded ==
    /\ closer = "open"
    /\ llama = 0
    /\ Shutdown
    /\ UNCHANGED llama

CloseReturned ==
    /\ closer = "closing"
    /\ future[Closer] # "pending"
    /\ Shutdown
    /\ UNCHANGED llama

-----------------------------------------------------------------------------
(* The inference thread.                                                   *)

(* ThreadPoolExecutor(max_workers=1).                                      *)
WorkerFree == running = {}

(* A worker takes the oldest job of the given kind.                        *)
Start(kind) ==
    /\ WorkerFree
    /\ jobs # <<>>
    /\ Head(jobs).kind = kind
    /\ jobs' = Tail(jobs)
    /\ running' = running \cup {Head(jobs)}
    /\ UNCHANGED <<future, stopped, loopVars, streamVars, closer>>

(* A running job returns; its future is resolved unless it was cancelled.  *)
Return(job, how) ==
    /\ job \in running
    /\ running' = running \ {job}
    /\ future' = IF future[job.by] = "pending"
                 THEN [future EXCEPT ![job.by] = how]
                 ELSE future
    /\ UNCHANGED <<jobs, stopped, loopVars, closer>>

StartLoad ==
    /\ Start("load")
    /\ UNCHANGED modelVars

(* _load_blocking: nothing to do, a new instance, or an exception.         *)
FinishLoad(job) ==
    /\ job.kind = "load"
    /\ \/ /\ Return(job, "ok")
          /\ llama # 0
          /\ UNCHANGED modelVars
       \/ /\ Return(job, "ok")
          /\ llama = 0
          /\ loads' = loads + 1
          /\ llama' = loads + 1
          /\ chatFormat' = LoadedFormat
          /\ UNCHANGED <<freed, savedFormat, rendered>>
       \/ /\ Return(job, "failed")
          /\ llama = 0
          /\ UNCHANGED modelVars
    /\ UNCHANGED streamVars

(* _with_chat_format around a native call that runs to completion: the     *)
(* handler is resolved when the call is made, the attribute restored when  *)
(* it returns or raises.                                                   *)
SwapFormatUnguarded(c) == FormatFor(c)     \* mutant: None is assigned too

SwapFormat(c) == IF FormatFor(c) = NoFormat THEN chatFormat ELSE FormatFor(c)

StartCompletion ==
    /\ Start("complete")
    /\ LET c == Head(jobs).by IN
        /\ savedFormat' = chatFormat
        /\ chatFormat' = SwapFormat(c)
        /\ rendered' = [rendered EXCEPT ![c] = SwapFormat(c)]
    /\ UNCHANGED <<llama, loads, freed>>

(* Mutant: the template is not restored.                                   *)
FinishCompletionUnrestored(job) ==
    /\ job.kind = "complete"
    /\ \/ Return(job, "ok")
       \/ Return(job, "failed")
    /\ UNCHANGED <<modelVars, streamVars>>

FinishCompletion(job) ==
    /\ job.kind = "complete"
    /\ \/ Return(job, "ok")
       \/ Return(job, "failed")
    /\ chatFormat' = savedFormat
    /\ UNCHANGED <<llama, loads, freed, savedFormat, rendered, streamVars>>

(* produce(): creating the token generator returns at once, so the swap is *)
(* already undone when the first token is computed.                        *)
StartStream ==
    /\ Start("stream")
    /\ LET c == Head(jobs).by IN
        rendered' = [rendered EXCEPT ![c] = SwapFormat(c)]
    /\ UNCHANGED <<llama, loads, freed, chatFormat, savedFormat>>

ProduceToken(job) ==
    /\ job \in running
    /\ job.kind = "stream"
    /\ ~cancelled[job.by]
    /\ produced[job.by] < MaxTokens
    /\ produced' = [produced EXCEPT ![job.by] = @ + 1]
    /\ inbox' = [inbox EXCEPT ![job.by] = Append(@, "token")]
    /\ UNCHANGED <<loopVars, modelVars, poolVars, cancelled, yielded, closer>>

(* Mutant: _DONE overtakes tokens that are still unread.                   *)
StopProducingEarly(job) ==
    /\ job \in running
    /\ job.kind = "stream"
    /\ inbox' = [inbox EXCEPT ![job.by] = <<"DONE">> \o @]
    /\ running' = (running \ {job}) \cup {[job EXCEPT !.kind = "leaving"]}
    /\ UNCHANGED <<loopVars, modelVars, jobs, future, stopped, cancelled,
                   produced, yielded, closer>>

(* Mutant: a bounded queue, whose put blocks the inference thread.         *)
StopProducingBlocked(job) ==
    /\ job \in running
    /\ job.kind = "stream"
    /\ inbox[job.by] = <<>>
    /\ inbox' = [inbox EXCEPT ![job.by] = <<"DONE">>]
    /\ running' = (running \ {job}) \cup {[job EXCEPT !.kind = "leaving"]}
    /\ UNCHANGED <<loopVars, modelVars, jobs, future, stopped, cancelled,
                   produced, yielded, closer>>

(* The generator is exhausted, raises, or `cancel` was seen; _DONE is      *)
(* enqueued last, and the future resolves after that.                      *)
StopProducing(job) ==
    /\ job \in running
    /\ job.kind = "stream"
    /\ \E last \in {<<"DONE">>, <<"exception", "DONE">>} :
          inbox' = [inbox EXCEPT ![job.by] = @ \o last]
    /\ running' = (running \ {job}) \cup {[job EXCEPT !.kind = "leaving"]}
    /\ UNCHANGED <<loopVars, modelVars, jobs, future, stopped, cancelled,
                   produced, yielded, closer>>

FinishStreaming(job) ==
    /\ job.kind = "leaving"
    /\ Return(job, "ok")
    /\ UNCHANGED <<modelVars, streamVars>>

StartClose ==
    /\ Start("close")
    /\ freed' = freed \cup {Head(jobs).llama}
    /\ UNCHANGED <<llama, loads, chatFormat, savedFormat, rendered>>

FinishClose(job) ==
    /\ job.kind = "close"
    /\ \/ Return(job, "ok")
       \/ Return(job, "failed")
    /\ UNCHANGED <<modelVars, streamVars>>

-----------------------------------------------------------------------------
Enter(c) == \/ Reject(c)
            \/ EnterAndWait(c)
            \/ EnterAndProceed(c)
            \/ EnterAfterShutdown(c)

(* What the loop does on its own once the awaited event has happened.      *)
Resume(c) == \/ SlotGranted(c)
             \/ LoadReturned(c)
             \/ CompletionReturned(c)
             \/ StreamEnded(c)
             \/ TokenReceived(c)
             \/ StreamUnwound(c)

TimedOut(c) == CompletionTimedOut(c) \/ StreamTimedOut(c)

Cancelled(c) == \/ CancelledInQueue(c)
                \/ CancelledWhenGranted(c)
                \/ CancelledInJob(c)
                \/ CancelledInStream(c)
                \/ CancelledInUnwind(c)

Consume(c) == TokenRequested(c) \/ StreamClosed(c)

Close == CloseModel \/ CloseUnloaded \/ CloseReturned

Worker == \/ StartLoad
          \/ StartCompletion
          \/ StartStream
          \/ StartClose
          \/ \E job \in running : \/ FinishLoad(job)
                                  \/ FinishCompletion(job)
                                  \/ StopProducing(job)
                                  \/ FinishStreaming(job)
                                  \/ FinishClose(job)

Next == \/ \E c \in Calls : \/ Enter(c)
                            \/ Resume(c)
                            \/ TimedOut(c)
                            \/ Cancelled(c)
        \/ \E c \in StreamCalls : Consume(c)
        \/ \E job \in running : ProduceToken(job)
        \/ Close
        \/ Worker

Spec == Init /\ [][Next]_vars

(* Native calls return (max_tokens bounds them), the loop runs every       *)
(* coroutine whose await is over, and every timer expires.  Consumers of a *)
(* stream are assumed to read on or to close it: nothing in this module    *)
(* bounds how long a token may stay unread.                                *)
Fairness == /\ \A c \in Calls : WF_vars(Resume(c)) /\ WF_vars(TimedOut(c))
            /\ \A c \in StreamCalls : WF_vars(Consume(c))
            /\ WF_vars(CloseReturned)
            /\ WF_vars(Worker)

FairSpec == Spec /\ Fairness

-----------------------------------------------------------------------------
TypeOK ==
    /\ pc \in [Calls -> Inside \cup {"start", "done"}]
    /\ outcome \in [Calls -> Outcomes \cup {"none"}]
    /\ waiters \in Nat
    /\ slot \in Calls \cup {NoCall}
    /\ slotQueue \in Seq(Calls)
    /\ llama \in Nat
    /\ loads \in Nat
    /\ freed \subseteq Nat
    /\ chatFormat \in Formats
    /\ savedFormat \in Formats
    /\ rendered \in [Calls -> Formats \cup {NoFormat}]
    /\ jobs \in Seq(Job)
    /\ running \subseteq Job
    /\ future \in [Owners -> {"none", "pending", "ok", "failed", "cancelled"}]
    /\ stopped \in BOOLEAN
    /\ inbox \in [StreamCalls -> Seq({"token", "exception", "DONE"})]
    /\ cancelled \in [StreamCalls -> BOOLEAN]
    /\ produced \in [StreamCalls -> Nat]
    /\ yielded \in [StreamCalls -> Nat]
    /\ closer \in {"open", "closing", "closed"}

(* The slot belongs to exactly the call that is inside `async with`, and   *)
(* is free only when nobody waits: no wake-up is lost whichever way its    *)
(* owner leaves (result, error, timeout, cancellation at any await).       *)
SlotOwned ==
    /\ \A c \in Calls : pc[c] \in HoldsSlot <=> slot = c
    /\ \A c \in Calls : pc[c] = "queued" <=> \E i \in DOMAIN slotQueue : slotQueue[i] = c
    /\ slot = NoCall => slotQueue = <<>>

(* _waiters counts exactly the calls between _enter_queue and              *)
(* _leave_queue, and never exceeds max_queue_depth: a call that ends on an *)
(* unusual path neither leaks its place nor gives back somebody else's.    *)
QueueAccounted ==
    /\ waiters = Len(slotQueue) + IF slot = NoCall THEN 0 ELSE 1
    /\ waiters <= MaxQueueDepth

(* The inference thread never runs two jobs at once and never enters an    *)
(* instance whose native close has begun, although a timed-out caller      *)
(* gives its slot away while its native call still runs and close() may be *)
(* called at any moment.                                                   *)
NoUseAfterClose ==
    /\ \A j, k \in running : j = k
    /\ \A j \in running : j.kind \in {"complete", "stream"} => j.llama \notin freed

(* A stream that ends normally has yielded every token its producer        *)
(* enqueued, and a completion that ends normally was really generated.     *)
NothingLost ==
    \A c \in Calls :
        pc[c] = "done" /\ outcome[c] = "ok" =>
            /\ rendered[c] # NoFormat
            /\ c \in StreamCalls => yielded[c] = produced[c]

(* The instances whose memory has not been given back.                     *)
Resident == (1..loads) \ freed

(* Every admitted call leaves with some outcome, even when close() runs    *)
(* under it, and close() itself returns.                                   *)
AdmittedCallsLeave ==
    \A c \in Calls : pc[c] \in Inside ~> pc[c] = "done"

CloseTerminates == closer = "closing" ~> closer = "closed"

(* The client drives the binding as the binding demands.                   *)
Using == {j.llama : j \in {k \in running : k.kind \in {"complete", "stream", "leaving"}}}

Native == INSTANCE NativeModel WITH
    NoTemplate <- NoFormat,
    resident <- Resident,
    using <- Using

ImplementsNativeModel == Native!Spec
=============================================================================
