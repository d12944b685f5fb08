------------------------- MODULE LlamaClient_proofs -------------------------
(***************************************************************************)
(* Theorems about LlamaClient for every set of calls, every queue depth,   *)
(* every token bound and every choice of chat formats: its slots are kept  *)
(* account of, it loses nothing, and it implements NativeModel.            *)
(***************************************************************************)
EXTENDS LlamaClient, SequenceTheorems, TLAPS

(* Removing one element of a sequence keeps the others in their order.     *)
LEMMA RemoveAtFacts ==
    ASSUME NEW S, NEW s \in Seq(S), NEW i \in DOMAIN s
    PROVE  /\ RemoveAt(s, i) \in Seq(S)
           /\ Len(RemoveAt(s, i)) = Len(s) - 1
           /\ \A k \in 1 .. Len(s) - 1 :
                RemoveAt(s, i)[k] = IF k < i THEN s[k] ELSE s[k + 1]
<1> DEFINE before == SubSeq(s, 1, i - 1)
           after == SubSeq(s, i + 1, Len(s))
<1>1. i \in 1 .. Len(s) /\ Len(s) \in Nat
  BY LenProperties
<1>2. /\ before \in Seq(S)
      /\ Len(before) = i - 1
      /\ \A k \in 1 .. i - 1 : before[k] = s[k]
  BY <1>1, SubSeqProperties
<1>3. /\ after \in Seq(S)
      /\ Len(after) = Len(s) - i
      /\ \A k \in 1 .. Len(s) - i : after[k] = s[k + i]
  BY <1>1, SubSeqProperties
<1>4. RemoveAt(s, i) = before \o after
  BY DEF RemoveAt
<1> HIDE DEF before, after
<1>5. /\ before \o after \in Seq(S)
      /\ Len(before \o after) = Len(before) + Len(after)
      /\ \A k \in 1 .. Len(before) + Len(after) :
            (before \o after)[k] = IF k <= Len(before) THEN before[k]
                                   ELSE after[k - Len(before)]
  BY <1>2, <1>3, ConcatProperties
<1>6. Len(before) + Len(after) = Len(s) - 1
  BY <1>1, <1>2, <1>3
<1>7. ASSUME NEW k \in 1 .. Len(s) - 1
      PROVE  (before \o after)[k] = IF k < i THEN s[k] ELSE s[k + 1]
  <2>1. CASE k < i
    <3>1. k \in 1 .. i - 1 /\ k \in 1 .. Len(before) + Len(after) /\ k <= Len(before)
      BY <1>1, <1>2, <1>6, <2>1
    <3>2. (before \o after)[k] = before[k] /\ before[k] = s[k]
      BY <1>2, <1>5, <3>1
    <3> QED
      BY <2>1, <3>2
  <2>2. CASE ~(k < i)
    <3>1. (before \o after)[k] = after[k - (i - 1)]
      BY <1>1, <1>2, <1>5, <1>6, <1>7, <2>2
    <3>2. k - (i - 1) \in 1 .. Len(s) - i /\ (k - (i - 1)) + i = k + 1
      BY <1>1, <1>7, <2>2
    <3> QED
      BY <1>1, <1>3, <2>2, <3>1, <3>2
  <2> QED
    BY ONLY <2>1, <2>2, Zenon
<1> QED
  BY <1>4, <1>5, <1>6, <1>7

-----------------------------------------------------------------------------
(* Typing of the pieces the actions are built from.                        *)

LEMMA FormatsTyped ==
    /\ LoadedFormat \in Formats
    /\ \A c : FormatFor(c) # NoFormat => FormatFor(c) \in Formats
    /\ TypeOK => \A c : SwapFormat(c) \in Formats
BY FormatsAssumption
   DEF LoadedFormat, Formats, FormatFor, SwapFormat, TypeOK

LEMMA SubmitTyped ==
    ASSUME TypeOK, NEW o \in Owners, NEW w \in Nat,
           NEW kind \in {"load", "complete", "stream", "close"},
           Submit(kind, o, w)
    PROVE  /\ jobs' \in Seq(Job)
           /\ running' \subseteq Job
           /\ future' \in [Owners -> {"none", "pending", "ok", "failed", "cancelled"}]
           /\ stopped' \in BOOLEAN
<1>1. [kind |-> kind, by |-> o, llama |-> w] \in Job
  BY DEF Job
<1>2. jobs' \in Seq(Job)
  BY <1>1, AppendProperties DEF TypeOK, Submit
<1> QED
  BY <1>2 DEF TypeOK, Submit

LEMMA ProceedTyped ==
    ASSUME TypeOK, NEW c \in Calls, Proceed(c)
    PROVE  /\ jobs' \in Seq(Job)
           /\ running' \subseteq Job
           /\ future' \in [Owners -> {"none", "pending", "ok", "failed", "cancelled"}]
           /\ stopped' \in BOOLEAN
           /\ PcAfterProceed(c) \in Inside
<1>1. c \in Owners /\ llama \in Nat /\ 0 \in Nat
  BY DEF Owners, TypeOK
<1>2. GenerationKind(c) \in {"complete", "stream"}
  BY DEF GenerationKind
<1>3. PcAfterProceed(c) \in Inside
  BY DEF PcAfterProceed, Inside
<1>4. CASE llama = 0
  BY <1>1, <1>3, <1>4, SubmitTyped DEF Proceed
<1>5. CASE llama # 0
  BY <1>1, <1>2, <1>3, <1>5, SubmitTyped DEF Proceed
<1> QED
  BY <1>4, <1>5

LEMMA PassSlotTyped ==
    ASSUME TypeOK, NEW pcs \in [Calls -> Inside \cup {"start", "done"}],
           PassSlot(pcs)
    PROVE  /\ pc' \in [Calls -> Inside \cup {"start", "done"}]
           /\ slot' \in Calls \cup {NoCall}
           /\ slotQueue' \in Seq(Calls)
<1>1. CASE slotQueue = <<>>
  BY <1>1 DEF PassSlot, TypeOK
<1>2. CASE slotQueue # <<>>
  <2>1. Head(slotQueue) \in Calls /\ Tail(slotQueue) \in Seq(Calls)
    BY <1>2, HeadTailProperties DEF TypeOK
  <2> QED
    BY <1>2, <2>1 DEF PassSlot, Inside
<1> QED
  BY <1>1, <1>2

LEMMA FinishTyped ==
    ASSUME TypeOK, NEW c \in Calls, NEW how \in Outcomes, Finish(c, how)
    PROVE  /\ pc' \in [Calls -> Inside \cup {"start", "done"}]
           /\ slot' \in Calls \cup {NoCall}
           /\ slotQueue' \in Seq(Calls)
           /\ outcome' \in [Calls -> Outcomes \cup {"none"}]
           /\ waiters' \in Nat
<1>1. [pc EXCEPT ![c] = "done"] \in [Calls -> Inside \cup {"start", "done"}]
  BY DEF TypeOK
<1>2. /\ pc' \in [Calls -> Inside \cup {"start", "done"}]
      /\ slot' \in Calls \cup {NoCall}
      /\ slotQueue' \in Seq(Calls)
  BY <1>1, PassSlotTyped DEF Finish
<1>3. outcome' \in [Calls -> Outcomes \cup {"none"}]
  BY DEF Finish, TypeOK
<1>4. waiters' \in Nat
  BY DEF Finish, LeaveQueue, TypeOK
<1> QED
  BY <1>2, <1>3, <1>4

Items == {"token", "exception", "DONE"}

LEMMA CountTyped ==
    ASSUME NEW f \in [StreamCalls -> Nat], NEW c
    PROVE  [f EXCEPT ![c] = @ + 1] \in [StreamCalls -> Nat]
<1>1. CASE c \in StreamCalls
  <2>1. f[c] + 1 \in Nat
    BY <1>1
  <2> QED
    BY <1>1, <2>1
<1>2. CASE c \notin StreamCalls
  BY <1>2
<1> QED
  BY <1>1, <1>2

LEMMA InboxTyped ==
    ASSUME TypeOK, NEW c
    PROVE  /\ inbox[c] # <<>> =>
                [inbox EXCEPT ![c] = Tail(@)] \in [StreamCalls -> Seq(Items)]
           /\ [inbox EXCEPT ![c] = Append(@, "token")]
                \in [StreamCalls -> Seq(Items)]
           /\ \A last \in {<<"DONE">>, <<"exception", "DONE">>} :
                [inbox EXCEPT ![c] = @ \o last] \in [StreamCalls -> Seq(Items)]
<1>1. inbox \in [StreamCalls -> Seq(Items)]
  BY DEF TypeOK, Items
<1>2. CASE c \notin StreamCalls
  BY <1>1, <1>2
<1>3. CASE c \in StreamCalls
  <2>1. inbox[c] \in Seq(Items)
    BY <1>1, <1>3
  <2>2. inbox[c] # <<>> => Tail(inbox[c]) \in Seq(Items)
    BY <2>1, HeadTailProperties
  <2>3. Append(inbox[c], "token") \in Seq(Items)
    BY <2>1, AppendProperties DEF Items
  <2>4. \A last \in {<<"DONE">>, <<"exception", "DONE">>} : last \in Seq(Items)
    <3>1. "DONE" \in Items /\ "exception" \in Items
      BY DEF Items
    <3>2. <<"DONE">> \in Seq(Items) /\ <<"exception", "DONE">> \in Seq(Items)
      BY <3>1
    <3> QED
      BY <3>2
  <2>5. \A last \in {<<"DONE">>, <<"exception", "DONE">>} :
            inbox[c] \o last \in Seq(Items)
    BY <2>1, <2>4, ConcatProperties
  <2> QED
    BY <1>1, <1>3, <2>2, <2>3, <2>5
<1> QED
  BY <1>2, <1>3

LEMMA FinishStreamTyped ==
    ASSUME TypeOK, NEW c \in Calls, FinishStream(c)
    PROVE  /\ pc' \in [Calls -> Inside \cup {"start", "done"}]
           /\ slot' \in Calls \cup {NoCall}
           /\ slotQueue' \in Seq(Calls)
           /\ waiters' \in Nat
<1>1. [pc EXCEPT ![c] = "done"] \in [Calls -> Inside \cup {"start", "done"}]
  BY DEF TypeOK
<1>2. /\ pc' \in [Calls -> Inside \cup {"start", "done"}]
      /\ slot' \in Calls \cup {NoCall}
      /\ slotQueue' \in Seq(Calls)
  BY <1>1, PassSlotTyped DEF FinishStream
<1>3. waiters' \in Nat
  BY DEF FinishStream, LeaveQueue, TypeOK
<1> QED
  BY <1>2, <1>3

LEMMA DropJobTyped ==
    ASSUME TypeOK, NEW c \in Calls, DropJob(c)
    PROVE  /\ jobs' \in Seq(Job)
           /\ running' \subseteq Job
           /\ future' \in [Owners -> {"none", "pending", "ok", "failed", "cancelled"}]
           /\ stopped' \in BOOLEAN
<1>1. jobs' \in Seq(Job)
  BY RemoveAtFacts DEF DropJob, TypeOK
<1> QED
  BY <1>1 DEF DropJob, TypeOK

LEMMA StartTyped ==
    ASSUME TypeOK, NEW kind, Start(kind)
    PROVE  /\ jobs' \in Seq(Job)
           /\ running' \subseteq Job
           /\ Head(jobs) \in Job
<1>1. Head(jobs) \in Job /\ Tail(jobs) \in Seq(Job)
  BY HeadTailProperties DEF Start, TypeOK
<1> QED
  BY <1>1 DEF Start, TypeOK

-----------------------------------------------------------------------------
(* Every variable keeps its type, whatever the calls, the worker and       *)
(* close() do: bat/adapters/llama_cpp_client.py.                           *)
THEOREM TypeCorrect == Spec => []TypeOK
<1>1. Init => TypeOK
  <2> SUFFICES ASSUME Init PROVE TypeOK
    OBVIOUS
  <2>1. /\ slotQueue \in Seq(Calls)
        /\ jobs \in Seq(Job)
        /\ inbox \in [StreamCalls -> Seq(Items)]
    BY EmptySeq DEF Init
  <2>2. chatFormat \in Formats /\ savedFormat \in Formats
    BY FormatsTyped DEF Init
  <2>3. llama \in Nat /\ loads \in Nat /\ waiters \in Nat
    BY DEF Init
  <2> QED
    BY <2>1, <2>2, <2>3 DEF Init, TypeOK, Items
<1>2. TypeOK /\ [Next]_vars => TypeOK'
  <2> SUFFICES ASSUME TypeOK, [Next]_vars
               PROVE  TypeOK'
    OBVIOUS
  <2> USE DEF loopVars, modelVars, poolVars, streamVars
  <2>1. ASSUME NEW c \in Calls, Reject(c)
        PROVE  TypeOK'
    BY <2>1 DEF Reject, TypeOK, Outcomes
  <2>2. ASSUME NEW c \in Calls, EnterAndWait(c)
        PROVE  TypeOK'
    BY <2>2, AppendProperties DEF EnterAndWait, TypeOK, Inside
  <2>3. ASSUME NEW c \in Calls, EnterAndProceed(c)
        PROVE  TypeOK'
    BY <2>3, ProceedTyped DEF EnterAndProceed, TypeOK
  <2>4. ASSUME NEW c \in Calls, EnterAfterShutdown(c)
        PROVE  TypeOK'
    BY <2>4 DEF EnterAfterShutdown, TypeOK, Outcomes
  <2>5. ASSUME NEW c \in Calls, SlotGranted(c)
        PROVE  TypeOK'
    BY <2>5, ProceedTyped, FinishTyped DEF SlotGranted, TypeOK, Outcomes
  <2>6. ASSUME NEW c \in Calls, LoadReturned(c)
        PROVE  TypeOK'
    BY <2>6, ProceedTyped, FinishTyped DEF LoadReturned, TypeOK, Outcomes
  <2>7. ASSUME NEW c \in Calls, CompletionReturned(c)
        PROVE  TypeOK'
    BY <2>7, FinishTyped DEF CompletionReturned, TypeOK, Outcomes
  <2>8. ASSUME NEW c \in Calls, StreamEnded(c)
        PROVE  TypeOK'
    BY <2>8, InboxTyped DEF StreamEnded, Unwind, TypeOK, Outcomes, Inside, Items
  <2>9. ASSUME NEW c \in Calls, TokenReceived(c)
        PROVE  TypeOK'
    <3>1. [yielded EXCEPT ![c] = @ + 1] \in [StreamCalls -> Nat]
      BY CountTyped DEF TypeOK
    <3> QED
      BY <2>9, <3>1, InboxTyped DEF TokenReceived, TypeOK, Inside, Items
  <2>10. ASSUME NEW c \in Calls, StreamUnwound(c)
        PROVE  TypeOK'
    <3>1. FinishStream(c)
      BY <2>10 DEF StreamUnwound
    <3> QED
      BY <3>1, FinishStreamTyped DEF FinishStream, TypeOK
  <2>11. ASSUME NEW c \in Calls, CompletionTimedOut(c)
        PROVE  TypeOK'
    BY <2>11, FinishTyped, DropJobTyped DEF CompletionTimedOut, TypeOK, Outcomes
  <2>12. ASSUME NEW c \in Calls, StreamTimedOut(c)
        PROVE  TypeOK'
    BY <2>12 DEF StreamTimedOut, Unwind, TypeOK, Outcomes, Inside
  <2>13. ASSUME NEW c \in Calls, CancelledInQueue(c)
        PROVE  TypeOK'
    <3>1. slotQueue' \in Seq(Calls)
      BY <2>13, RemoveAtFacts DEF CancelledInQueue, TypeOK
    <3> QED
      <4>1. waiters' \in Nat
        BY <2>13 DEF CancelledInQueue, LeaveQueue, TypeOK
      <4>2. pc' \in [Calls -> Inside \cup {"start", "done"}]
        BY <2>13 DEF CancelledInQueue, TypeOK
      <4>3. outcome' \in [Calls -> Outcomes \cup {"none"}]
        BY <2>13 DEF CancelledInQueue, TypeOK, Outcomes
      <4> QED
        BY <2>13, <3>1, <4>1, <4>2, <4>3 DEF CancelledInQueue, TypeOK
  <2>14. ASSUME NEW c \in Calls, CancelledWhenGranted(c)
        PROVE  TypeOK'
    BY <2>14, FinishTyped DEF CancelledWhenGranted, TypeOK, Outcomes
  <2>15. ASSUME NEW c \in Calls, CancelledInJob(c)
        PROVE  TypeOK'
    BY <2>15, FinishTyped, DropJobTyped DEF CancelledInJob, TypeOK, Outcomes
  <2>16. ASSUME NEW c \in Calls, CancelledInStream(c)
        PROVE  TypeOK'
    BY <2>16 DEF CancelledInStream, Unwind, TypeOK, Outcomes, Inside
  <2>17. ASSUME NEW c \in Calls, CancelledInUnwind(c)
        PROVE  TypeOK'
    <3>1. FinishStream(c)
      BY <2>17 DEF CancelledInUnwind
    <3> QED
      BY <3>1, FinishStreamTyped DEF FinishStream, TypeOK
  <2>18. ASSUME NEW c \in StreamCalls, TokenRequested(c)
        PROVE  TypeOK'
    BY <2>18 DEF TokenRequested, TypeOK, Inside
  <2>19. ASSUME NEW c \in StreamCalls, StreamClosed(c)
        PROVE  TypeOK'
    BY <2>19 DEF StreamClosed, Unwind, TypeOK, Outcomes, Inside
  <2>20. ASSUME NEW job \in running, ProduceToken(job)
        PROVE  TypeOK'
    <3>1. [produced EXCEPT ![job.by] = @ + 1] \in [StreamCalls -> Nat]
      BY CountTyped DEF TypeOK
    <3> QED
      BY <2>20, <3>1, InboxTyped DEF ProduceToken, TypeOK, Items
  <2>21. ASSUME NEW job \in running, FinishLoad(job)
        PROVE  TypeOK'
    <3>1. Return(job, "ok") \/ Return(job, "failed")
      BY <2>21 DEF FinishLoad
    <3>2. /\ jobs' = jobs /\ stopped' = stopped /\ running' \subseteq Job
          /\ future' \in [Owners -> {"none", "pending", "ok", "failed", "cancelled"}]
          /\ UNCHANGED loopVars /\ closer' = closer
      BY <3>1 DEF Return, TypeOK
    <3>3. /\ llama' \in Nat /\ loads' \in Nat /\ freed' = freed
          /\ chatFormat' \in Formats /\ savedFormat' = savedFormat
          /\ rendered' = rendered /\ UNCHANGED streamVars
      BY <2>21, FormatsTyped DEF FinishLoad, TypeOK
    <3> QED
      BY <3>2, <3>3 DEF TypeOK
  <2>22. ASSUME NEW job \in running, FinishCompletion(job)
        PROVE  TypeOK'
    BY <2>22 DEF FinishCompletion, Return, TypeOK
  <2>23. ASSUME NEW job \in running, StopProducing(job)
        PROVE  TypeOK'
    <3>1. [job EXCEPT !.kind = "leaving"] \in Job
      BY DEF Job, TypeOK
    <3>2. inbox' \in [StreamCalls -> Seq({"token", "exception", "DONE"})]
      <4>1. PICK last \in {<<"DONE">>, <<"exception", "DONE">>} :
              inbox' = [inbox EXCEPT ![job.by] = @ \o last]
        BY <2>23 DEF StopProducing
      <4>2. [inbox EXCEPT ![job.by] = @ \o last] \in [StreamCalls -> Seq(Items)]
        BY InboxTyped
      <4> QED
        BY <4>1, <4>2 DEF Items
    <3> QED
      BY <2>23, <3>1, <3>2 DEF StopProducing, TypeOK
  <2>24. ASSUME NEW job \in running, FinishStreaming(job)
        PROVE  TypeOK'
    BY <2>24 DEF FinishStreaming, Return, TypeOK
  <2>25. ASSUME NEW job \in running, FinishClose(job)
        PROVE  TypeOK'
    BY <2>25 DEF FinishClose, Return, TypeOK
  <2>26. ASSUME CloseModel
        PROVE  TypeOK'
    <3>1. Closer \in Owners
      BY DEF Owners
    <3> QED
      BY <2>26, <3>1, SubmitTyped DEF CloseModel, TypeOK
  <2>27. ASSUME CloseUnloaded
        PROVE  TypeOK'
    BY <2>27 DEF CloseUnloaded, Shutdown, TypeOK
  <2>28. ASSUME CloseReturned
        PROVE  TypeOK'
    BY <2>28 DEF CloseReturned, Shutdown, TypeOK
  <2>29. ASSUME StartLoad
        PROVE  TypeOK'
    BY <2>29, StartTyped DEF StartLoad, Start, TypeOK
  <2>30. ASSUME StartCompletion
        PROVE  TypeOK'
    BY <2>30, StartTyped, FormatsTyped DEF StartCompletion, Start, TypeOK
  <2>31. ASSUME StartStream
        PROVE  TypeOK'
    BY <2>31, StartTyped, FormatsTyped DEF StartStream, Start, TypeOK
  <2>32. ASSUME StartClose
        PROVE  TypeOK'
    BY <2>32, StartTyped DEF StartClose, Start, TypeOK, Job
  <2>33. CASE UNCHANGED vars
    BY <2>33 DEF vars, TypeOK
  <2> QED
    BY <2>1, <2>2, <2>3, <2>4, <2>5, <2>6, <2>7, <2>8, <2>9, <2>10, <2>11, <2>12, <2>13, <2>14, <2>15, <2>16, <2>17, <2>18, <2>19, <2>20, <2>21, <2>22, <2>23, <2>24, <2>25, <2>26, <2>27, <2>28, <2>29, <2>30, <2>31, <2>32, <2>33
       DEF Next, Enter, Resume, TimedOut, Cancelled, Consume, Close, Worker
<1> QED
  BY <1>1, <1>2, PTL DEF Spec

-----------------------------------------------------------------------------
(* Why no generation runs on a freed instance.  The event loop forgets an  *)
(* instance before it queues the close of it, and the queue is FIFO: so    *)
(* every job that uses an instance stands ahead of the job that closes it, *)
(* and the instance the client still holds is not about to be closed.      *)

Uses(job) == job.kind \in {"complete", "stream", "leaving"}

OneAtATime == \A j, k \in running : j = k

InstancesCounted == llama <= loads /\ freed \subseteq 1 .. loads

QueuedBeforeClose ==
    /\ \A i \in DOMAIN jobs :
          /\ jobs[i].llama <= loads
          /\ Uses(jobs[i]) => jobs[i].llama \in (1 .. loads) \ freed
          /\ jobs[i].kind = "close" => jobs[i].llama # 0
    /\ \A i, k \in DOMAIN jobs :
          /\ Uses(jobs[i])
          /\ jobs[k].kind = "close"
          /\ jobs[i].llama = jobs[k].llama
          => i < k

HeldIsOpen ==
    llama # 0 => /\ llama \notin freed
                 /\ \A i \in DOMAIN jobs :
                        jobs[i].kind = "close" => jobs[i].llama # llama

RunningIsOpen == \A j \in running : Uses(j) => j.llama \in (1 .. loads) \ freed

NativeInv == /\ OneAtATime
             /\ InstancesCounted
             /\ QueuedBeforeClose
             /\ HeldIsOpen
             /\ RunningIsOpen

nativeVars == <<jobs, running, llama, loads, freed>>

LEMMA NativeUnchanged ==
    ASSUME NativeInv, UNCHANGED nativeVars
    PROVE  NativeInv'
BY DEF NativeInv, nativeVars, OneAtATime, InstancesCounted, QueuedBeforeClose,
       HeldIsOpen, RunningIsOpen

(* A call that owns the slot appends a load, or a job for the instance the *)
(* client holds.                                                           *)
LEMMA NativeProceed ==
    ASSUME TypeOK, NativeInv, NEW c \in Calls, Proceed(c), UNCHANGED modelVars
    PROVE  NativeInv'
<1> DEFINE kind == IF llama = 0 THEN "load" ELSE GenerationKind(c)
           job == [kind |-> kind, by |-> c, llama |-> llama]
<1>1. /\ jobs' = Append(jobs, job)
      /\ UNCHANGED <<running, llama, loads, freed>>
  BY DEF Proceed, Submit, modelVars
<1>2. job \in Job
  BY DEF Job, Owners, GenerationKind, TypeOK
<1>3. /\ DOMAIN jobs = 1 .. Len(jobs)
      /\ DOMAIN jobs' = 1 .. Len(jobs) + 1
      /\ Len(jobs) \in Nat
      /\ \A i \in DOMAIN jobs : jobs'[i] = jobs[i]
      /\ jobs'[Len(jobs) + 1] = job
  BY <1>1, <1>2, AppendProperties, LenProperties DEF TypeOK
<1>4. /\ job.kind # "close"
      /\ Uses(job) => job.llama # 0
      /\ job.llama = llama
      /\ llama \in Nat /\ loads \in Nat
  BY DEF GenerationKind, Uses, TypeOK
<1> HIDE DEF job
<1>5. QueuedBeforeClose'
  <2>1. ASSUME NEW i \in DOMAIN jobs'
        PROVE  /\ jobs'[i].llama <= loads'
               /\ Uses(jobs'[i]) => jobs'[i].llama \in (1 .. loads') \ freed'
               /\ jobs'[i].kind = "close" => jobs'[i].llama # 0
    <3>1. CASE i \in DOMAIN jobs
      BY <1>1, <1>3, <3>1 DEF NativeInv, QueuedBeforeClose
    <3>2. CASE i = Len(jobs) + 1
      BY <1>1, <1>3, <1>4, <3>2 DEF NativeInv, InstancesCounted, HeldIsOpen
    <3> QED
      BY <1>3, <2>1, <3>1, <3>2
  <2>2. ASSUME NEW i \in DOMAIN jobs', NEW k \in DOMAIN jobs',
               Uses(jobs'[i]), jobs'[k].kind = "close",
               jobs'[i].llama = jobs'[k].llama
        PROVE  i < k
    <3>1. k \in DOMAIN jobs /\ jobs'[k] = jobs[k]
      BY <1>3, <1>4, <2>2
    <3>2. CASE i \in DOMAIN jobs
      BY <1>3, <2>2, <3>1, <3>2 DEF NativeInv, QueuedBeforeClose
    <3>3. CASE i = Len(jobs) + 1
      BY <1>3, <1>4, <2>2, <3>1, <3>3 DEF NativeInv, HeldIsOpen
    <3> QED
      BY <1>3, <2>2, <3>2, <3>3
  <2> QED
    BY <2>1, <2>2 DEF QueuedBeforeClose, Uses
<1>6. HeldIsOpen'
  BY <1>1, <1>3, <1>4 DEF NativeInv, HeldIsOpen
<1> QED
  BY <1>1, <1>5, <1>6
     DEF NativeInv, OneAtATime, InstancesCounted, RunningIsOpen

(* Removing a job keeps the order of the others.                           *)
LEMMA NativeDrop ==
    ASSUME TypeOK, NativeInv, NEW c \in Calls, DropJob(c), UNCHANGED modelVars
    PROVE  NativeInv'
<1>1. UNCHANGED <<running, llama, loads, freed>>
  BY DEF DropJob, modelVars
<1>2. CASE jobs' = jobs
  BY <1>1, <1>2, NativeUnchanged DEF nativeVars
<1>3. CASE \E n \in DOMAIN jobs : jobs' = RemoveAt(jobs, n)
  <2>1. PICK n \in DOMAIN jobs : jobs' = RemoveAt(jobs, n)
    BY <1>3
  <2> DEFINE old(i) == IF i < n THEN i ELSE i + 1
  <2>2. /\ jobs' \in Seq(Job)
        /\ Len(jobs') = Len(jobs) - 1
        /\ \A i \in 1 .. Len(jobs) - 1 :
              jobs'[i] = IF i < n THEN jobs[i] ELSE jobs[i + 1]
    BY <2>1, RemoveAtFacts DEF TypeOK
  <2>3. n \in 1 .. Len(jobs) /\ Len(jobs) \in Nat /\ DOMAIN jobs = 1 .. Len(jobs)
    BY LenProperties DEF TypeOK
  <2>4. DOMAIN jobs' = 1 .. Len(jobs) - 1
    BY <2>2, LenProperties
  <2>5. \A i \in DOMAIN jobs' : old(i) \in DOMAIN jobs /\ jobs'[i] = jobs[old(i)]
    BY <2>2, <2>3, <2>4
  <2>6. \A i, k \in DOMAIN jobs' : old(i) < old(k) => i < k
    BY <2>3, <2>4
  <2> HIDE DEF old
  <2>7. QueuedBeforeClose'
    BY <1>1, <2>5, <2>6 DEF NativeInv, QueuedBeforeClose, Uses
  <2>8. HeldIsOpen'
    BY <1>1, <2>5 DEF NativeInv, HeldIsOpen
  <2> QED
    BY <1>1, <2>7, <2>8
       DEF NativeInv, OneAtATime, InstancesCounted, RunningIsOpen
<1> QED
  BY <1>2, <1>3 DEF DropJob

LEMMA NativeShutdown ==
    ASSUME NativeInv, Shutdown, UNCHANGED llama
    PROVE  NativeInv'
<1>1. jobs' = <<>> /\ DOMAIN jobs' = {}
  BY DEF Shutdown
<1> QED
  BY <1>1 DEF Shutdown, NativeInv, OneAtATime, InstancesCounted,
              QueuedBeforeClose, HeldIsOpen, RunningIsOpen

(* A worker starts the oldest job; if that job closes an instance, nothing *)
(* behind it uses the instance.                                            *)
LEMMA NativeStart ==
    ASSUME TypeOK, NativeInv, NEW kind, Start(kind),
           UNCHANGED <<llama, loads>>,
           freed' = IF kind = "close" THEN freed \cup {Head(jobs).llama} ELSE freed,
           kind = "close" => Head(jobs).llama \in 1 .. loads
    PROVE  NativeInv'
<1>1. /\ jobs # <<>>
      /\ jobs' = Tail(jobs)
      /\ running = {}
      /\ running' = {Head(jobs)}
      /\ Head(jobs).kind = kind
  BY DEF Start, WorkerFree
<1>2. /\ Len(jobs) \in Nat \ {0}
      /\ DOMAIN jobs = 1 .. Len(jobs)
      /\ Head(jobs) = jobs[1]
      /\ Tail(jobs) \in Seq(Job)
      /\ Len(Tail(jobs)) = Len(jobs) - 1
      /\ \A i \in 1 .. Len(jobs) - 1 : Tail(jobs)[i] = jobs[i + 1]
  BY <1>1, EmptySeq, LenProperties, HeadTailProperties DEF TypeOK
<1>3. DOMAIN jobs' = 1 .. Len(jobs) - 1
  BY <1>1, <1>2, LenProperties
<1>4. \A i \in DOMAIN jobs' : i + 1 \in DOMAIN jobs /\ jobs'[i] = jobs[i + 1]
  BY <1>1, <1>2, <1>3
<1>5. \A i \in DOMAIN jobs' :
        Uses(jobs'[i]) => jobs'[i].llama \in (1 .. loads') \ freed'
  <2> SUFFICES ASSUME NEW i \in DOMAIN jobs', Uses(jobs'[i])
               PROVE  jobs'[i].llama \in (1 .. loads') \ freed'
    OBVIOUS
  <2>1. Uses(jobs[i + 1]) /\ jobs[i + 1].llama \in (1 .. loads) \ freed
    BY <1>4 DEF NativeInv, QueuedBeforeClose
  <2>2. CASE kind = "close"
    <3>1. ~(i + 1 < 1)
      BY <1>3
    <3>2. jobs[i + 1].llama # jobs[1].llama
      BY <1>1, <1>2, <1>4, <2>1, <2>2, <3>1 DEF NativeInv, QueuedBeforeClose
    <3> QED
      BY <1>2, <1>4, <2>1, <2>2, <3>2
  <2>3. CASE kind # "close"
    BY <1>4, <2>1, <2>3
  <2> QED
    BY <2>2, <2>3
<1>6. QueuedBeforeClose'
  <2>1. \A i \in DOMAIN jobs' :
            /\ jobs'[i].llama <= loads'
            /\ jobs'[i].kind = "close" => jobs'[i].llama # 0
    BY <1>4 DEF NativeInv, QueuedBeforeClose
  <2>2. ASSUME NEW i \in DOMAIN jobs', NEW k \in DOMAIN jobs',
               Uses(jobs'[i]), jobs'[k].kind = "close",
               jobs'[i].llama = jobs'[k].llama
        PROVE  i < k
    <3>1. i + 1 < k + 1
      BY <1>4, <2>2 DEF NativeInv, QueuedBeforeClose
    <3> QED
      BY <1>3, <3>1
  <2> QED
    BY <1>5, <2>1, <2>2 DEF QueuedBeforeClose, Uses
<1>7. HeldIsOpen'
  BY <1>1, <1>2, <1>4 DEF NativeInv, HeldIsOpen
<1>8. RunningIsOpen'
  <2>1. kind = "close" => ~Uses(Head(jobs))
    BY <1>1 DEF Uses
  <2>2. kind # "close" => RunningIsOpen'
    BY <1>1, <1>2 DEF RunningIsOpen, NativeInv, QueuedBeforeClose, Uses
  <2> QED
    BY <1>1, <2>1, <2>2 DEF RunningIsOpen, Uses
<1>9. OneAtATime' /\ InstancesCounted'
  BY <1>1 DEF OneAtATime, NativeInv, InstancesCounted
<1> QED
  BY <1>6, <1>7, <1>8, <1>9 DEF NativeInv

LEMMA NativeReturn ==
    ASSUME NativeInv, NEW job \in running,
           running' \in {running \ {job},
                         (running \ {job}) \cup {[job EXCEPT !.kind = "leaving"]}},
           running' = running \ {job} \/ Uses(job),
           running \subseteq Job,
           UNCHANGED <<jobs, llama, loads, freed>>
    PROVE  NativeInv'
<1>1. OneAtATime'
  BY DEF NativeInv, OneAtATime
<1>2. RunningIsOpen'
  <2>1. [job EXCEPT !.kind = "leaving"].llama = job.llama
    BY DEF Job
  <2> QED
    BY <2>1 DEF NativeInv, RunningIsOpen, Uses
<1> QED
  BY <1>1, <1>2 DEF NativeInv, InstancesCounted, QueuedBeforeClose, HeldIsOpen

(* close() forgets the instance it queues for closing.                     *)
LEMMA NativeClose ==
    ASSUME TypeOK, NativeInv, CloseModel
    PROVE  NativeInv'
<1> DEFINE job == [kind |-> "close", by |-> Closer, llama |-> llama]
<1>1. /\ jobs' = Append(jobs, job)
      /\ llama # 0 /\ llama' = 0
      /\ UNCHANGED <<running, loads, freed>>
  BY DEF CloseModel, Submit
<1>2. job \in Job
  BY DEF Job, Owners, TypeOK
<1>3. /\ DOMAIN jobs = 1 .. Len(jobs)
      /\ DOMAIN jobs' = 1 .. Len(jobs) + 1
      /\ Len(jobs) \in Nat
      /\ \A i \in DOMAIN jobs : jobs'[i] = jobs[i]
      /\ jobs'[Len(jobs) + 1] = job
  BY <1>1, <1>2, AppendProperties, LenProperties DEF TypeOK
<1>4. job.kind = "close" /\ ~Uses(job) /\ job.llama = llama
  BY DEF Uses
<1> HIDE DEF job
<1>5. ASSUME NEW i \in DOMAIN jobs'
      PROVE  /\ jobs'[i].llama <= loads'
             /\ Uses(jobs'[i]) => jobs'[i].llama \in (1 .. loads') \ freed'
             /\ jobs'[i].kind = "close" => jobs'[i].llama # 0
  <2>1. CASE i \in DOMAIN jobs
    BY <1>1, <1>3, <2>1 DEF NativeInv, QueuedBeforeClose
  <2>2. CASE i = Len(jobs) + 1
    BY <1>1, <1>3, <1>4, <2>2 DEF NativeInv, InstancesCounted
  <2> QED
    BY <1>3, <1>5, <2>1, <2>2
<1>6. ASSUME NEW i \in DOMAIN jobs', NEW k \in DOMAIN jobs',
             Uses(jobs'[i]), jobs'[k].kind = "close",
             jobs'[i].llama = jobs'[k].llama
      PROVE  i < k
  <2>1. i \in DOMAIN jobs /\ jobs'[i] = jobs[i]
    BY <1>3, <1>4, <1>6
  <2>2. CASE k \in DOMAIN jobs
    BY <1>3, <1>6, <2>1, <2>2 DEF NativeInv, QueuedBeforeClose
  <2>3. CASE k = Len(jobs) + 1
    BY <1>3, <2>1, <2>3
  <2> QED
    BY <1>3, <1>6, <2>2, <2>3
<1>7. QueuedBeforeClose'
  BY <1>5, <1>6 DEF QueuedBeforeClose, Uses
<1>8. HeldIsOpen' /\ InstancesCounted'
  BY <1>1 DEF HeldIsOpen, NativeInv, InstancesCounted, TypeOK
<1> QED
  BY <1>1, <1>7, <1>8 DEF NativeInv, OneAtATime, RunningIsOpen

LEMMA JobsTyped ==
    ASSUME TypeOK
    PROVE  \A i \in DOMAIN jobs : jobs[i] \in Job /\ jobs[i].llama \in Nat
<1>1. \A i \in DOMAIN jobs : jobs[i] \in Job
  BY ElementOfSeq, LenProperties DEF TypeOK
<1> QED
  BY <1>1 DEF Job

LEMMA NativeLoad ==
    ASSUME TypeOK, NativeInv, NEW job \in running, FinishLoad(job)
    PROVE  NativeInv'
<1>1. running' = running \ {job} /\ jobs' = jobs
  BY DEF FinishLoad, Return
<1>2. CASE UNCHANGED modelVars
  BY <1>1, <1>2, NativeReturn DEF modelVars, TypeOK
<1>3. CASE llama = 0 /\ loads' = loads + 1 /\ llama' = loads + 1 /\ freed' = freed
  <2>1. loads \in Nat
    BY DEF TypeOK
  <2>2. \A i \in DOMAIN jobs : jobs[i].llama # loads + 1
    <3>1. \A i \in DOMAIN jobs : jobs[i].llama \in Nat /\ jobs[i].llama <= loads
      BY JobsTyped DEF NativeInv, QueuedBeforeClose
    <3> QED
      BY <2>1, <3>1
  <2>3. loads + 1 \notin freed
    BY <2>1 DEF NativeInv, InstancesCounted
  <2>4. QueuedBeforeClose'
    <3>1. \A i \in DOMAIN jobs :
              /\ jobs[i].llama <= loads + 1
              /\ Uses(jobs[i]) => jobs[i].llama \in (1 .. loads + 1) \ freed
      BY <2>1, JobsTyped DEF NativeInv, QueuedBeforeClose
    <3> QED
      BY <1>1, <1>3, <3>1 DEF NativeInv, QueuedBeforeClose, Uses
  <2>5. HeldIsOpen'
    BY <1>1, <1>3, <2>2, <2>3 DEF HeldIsOpen
  <2>6. RunningIsOpen'
    BY <1>1, <1>3, <2>1 DEF NativeInv, RunningIsOpen
  <2>7. InstancesCounted'
    BY <1>3, <2>1 DEF NativeInv, InstancesCounted
  <2> QED
    BY <1>1, <2>4, <2>5, <2>6, <2>7 DEF NativeInv, OneAtATime
<1> QED
  BY <1>2, <1>3 DEF FinishLoad

LEMMA NativeInductive == TypeOK /\ NativeInv /\ [Next]_vars => NativeInv'
<1> SUFFICES ASSUME TypeOK, NativeInv, [Next]_vars
             PROVE  NativeInv'
  OBVIOUS
<1> USE DEF modelVars, poolVars
<1>1. ASSUME NEW c \in Calls, Reject(c)
      PROVE  NativeInv'
  BY <1>1, NativeUnchanged DEF Reject, nativeVars
<1>2. ASSUME NEW c \in Calls, EnterAndWait(c)
      PROVE  NativeInv'
  BY <1>2, NativeUnchanged DEF EnterAndWait, nativeVars
<1>3. ASSUME NEW c \in Calls, EnterAfterShutdown(c)
      PROVE  NativeInv'
  BY <1>3, NativeUnchanged DEF EnterAfterShutdown, nativeVars
<1>4. ASSUME NEW c \in Calls, CompletionReturned(c)
      PROVE  NativeInv'
  BY <1>4, NativeUnchanged DEF CompletionReturned, nativeVars
<1>5. ASSUME NEW c \in Calls, StreamEnded(c)
      PROVE  NativeInv'
  BY <1>5, NativeUnchanged DEF StreamEnded, Unwind, nativeVars
<1>6. ASSUME NEW c \in Calls, TokenReceived(c)
      PROVE  NativeInv'
  BY <1>6, NativeUnchanged DEF TokenReceived, nativeVars
<1>7. ASSUME NEW c \in Calls, StreamUnwound(c)
      PROVE  NativeInv'
  BY <1>7, NativeUnchanged DEF StreamUnwound, FinishStream, nativeVars
<1>8. ASSUME NEW c \in Calls, StreamTimedOut(c)
      PROVE  NativeInv'
  BY <1>8, NativeUnchanged DEF StreamTimedOut, Unwind, nativeVars
<1>9. ASSUME NEW c \in Calls, CancelledInQueue(c)
      PROVE  NativeInv'
  BY <1>9, NativeUnchanged DEF CancelledInQueue, nativeVars
<1>10. ASSUME NEW c \in Calls, CancelledWhenGranted(c)
      PROVE  NativeInv'
  BY <1>10, NativeUnchanged DEF CancelledWhenGranted, nativeVars
<1>11. ASSUME NEW c \in Calls, CancelledInStream(c)
      PROVE  NativeInv'
  BY <1>11, NativeUnchanged DEF CancelledInStream, Unwind, nativeVars
<1>12. ASSUME NEW c \in Calls, CancelledInUnwind(c)
      PROVE  NativeInv'
  BY <1>12, NativeUnchanged DEF CancelledInUnwind, FinishStream, nativeVars
<1>13. ASSUME NEW c \in StreamCalls, TokenRequested(c)
      PROVE  NativeInv'
  BY <1>13, NativeUnchanged DEF TokenRequested, Unwind, nativeVars
<1>14. ASSUME NEW c \in StreamCalls, StreamClosed(c)
      PROVE  NativeInv'
  BY <1>14, NativeUnchanged DEF StreamClosed, Unwind, nativeVars
<1>15. ASSUME NEW c \in Calls, EnterAndProceed(c)
      PROVE  NativeInv'
  BY <1>15, NativeProceed DEF EnterAndProceed
<1>16. ASSUME NEW c \in Calls, SlotGranted(c)
      PROVE  NativeInv'
  BY <1>16, NativeProceed, NativeUnchanged DEF SlotGranted, nativeVars
<1>17. ASSUME NEW c \in Calls, LoadReturned(c)
      PROVE  NativeInv'
  BY <1>17, NativeProceed, NativeUnchanged DEF LoadReturned, nativeVars
<1>18. ASSUME NEW c \in Calls, CompletionTimedOut(c)
      PROVE  NativeInv'
  BY <1>18, NativeDrop DEF CompletionTimedOut
<1>19. ASSUME NEW c \in Calls, CancelledInJob(c)
      PROVE  NativeInv'
  BY <1>19, NativeDrop DEF CancelledInJob
<1>20. ASSUME CloseModel
      PROVE  NativeInv'
  BY <1>20, NativeClose
<1>21. ASSUME CloseUnloaded
      PROVE  NativeInv'
  BY <1>21, NativeShutdown DEF CloseUnloaded
<1>22. ASSUME CloseReturned
      PROVE  NativeInv'
  BY <1>22, NativeShutdown DEF CloseReturned
<1>23. ASSUME StartLoad
      PROVE  NativeInv'
  BY <1>23, NativeStart DEF StartLoad
<1>24. ASSUME StartCompletion
      PROVE  NativeInv'
  BY <1>24, NativeStart DEF StartCompletion
<1>25. ASSUME StartStream
      PROVE  NativeInv'
  BY <1>25, NativeStart DEF StartStream
<1>26. ASSUME StartClose
      PROVE  NativeInv'
  <2>1. Head(jobs) = jobs[1] /\ 1 \in DOMAIN jobs /\ Head(jobs) \in Job
    BY <1>26, EmptySeq, LenProperties, HeadTailProperties DEF StartClose, Start, TypeOK
  <2>2. Head(jobs).llama \in 1 .. loads
    BY <1>26, <2>1 DEF StartClose, Start, NativeInv, QueuedBeforeClose, Job, TypeOK
  <2> QED
    BY <1>26, <2>2, NativeStart DEF StartClose
<1>27. ASSUME NEW job \in running, FinishLoad(job)
      PROVE  NativeInv'
  BY <1>27, NativeLoad
<1>28. ASSUME NEW job \in running, FinishCompletion(job)
      PROVE  NativeInv'
  BY <1>28, NativeReturn DEF FinishCompletion, Return, TypeOK
<1>29. ASSUME NEW job \in running, FinishStreaming(job)
      PROVE  NativeInv'
  BY <1>29, NativeReturn DEF FinishStreaming, Return, TypeOK
<1>30. ASSUME NEW job \in running, FinishClose(job)
      PROVE  NativeInv'
  BY <1>30, NativeReturn DEF FinishClose, Return, TypeOK
<1>31. ASSUME NEW job \in running, StopProducing(job)
      PROVE  NativeInv'
  BY <1>31, NativeReturn DEF StopProducing, Uses, TypeOK
<1>32. ASSUME NEW job \in running, ProduceToken(job)
      PROVE  NativeInv'
  BY <1>32, NativeUnchanged DEF ProduceToken, nativeVars
<1>33. CASE UNCHANGED vars
  BY <1>33, NativeUnchanged DEF vars, nativeVars
<1> QED
  BY <1>1, <1>2, <1>3, <1>4, <1>5, <1>6, <1>7, <1>8, <1>9, <1>10,
     <1>11, <1>12, <1>13, <1>14, <1>15, <1>16, <1>17, <1>18,
     <1>19, <1>20, <1>21, <1>22, <1>23, <1>24, <1>25, <1>26,
     <1>27, <1>28, <1>29, <1>30, <1>31, <1>32, <1>33
     DEF Next, Enter, Resume, TimedOut, Cancelled, Consume, Close, Worker

(* No two native calls ever run at once and none runs on weights whose     *)
(* close has begun, although timed-out callers leave their native call     *)
(* behind and close() may come at any moment: _run, close and              *)
(* _load_blocking of bat/adapters/llama_cpp_client.py.                     *)
THEOREM NoUseAfterCloseAlways == Spec => []NoUseAfterClose
<1>1. Init => NativeInv
  BY DEF Init, NativeInv, OneAtATime, InstancesCounted, QueuedBeforeClose,
         HeldIsOpen, RunningIsOpen
<1>2. NativeInv => NoUseAfterClose
  BY DEF NativeInv, OneAtATime, RunningIsOpen, Uses, NoUseAfterClose
<1> QED
  BY <1>1, <1>2, NativeInductive, TypeCorrect, PTL DEF Spec

-----------------------------------------------------------------------------
(* The accounting of the queue and of the slot.                            *)

QueueDistinct ==
    \A i, k \in DOMAIN slotQueue : slotQueue[i] = slotQueue[k] => i = k

SlotInv == SlotOwned /\ QueueDistinct /\ QueueAccounted

slotVars == <<pc, waiters, slot, slotQueue>>

LEMMA SlotUnchanged ==
    ASSUME SlotInv, UNCHANGED slotVars
    PROVE  SlotInv'
BY DEF SlotInv, slotVars, SlotOwned, QueueDistinct, QueueAccounted

(* A call that keeps the slot, or that never entered.                      *)
LEMMA SlotMoved ==
    ASSUME TypeOK, SlotInv, NEW c \in Calls, NEW to,
           pc' = [pc EXCEPT ![c] = to],
           \/ pc[c] \in HoldsSlot /\ to \in HoldsSlot
           \/ pc[c] = "start" /\ to = "done",
           UNCHANGED <<waiters, slot, slotQueue>>
    PROVE  SlotInv'
<1>1. \A d \in Calls : pc'[d] \in HoldsSlot <=> pc[d] \in HoldsSlot
  BY DEF TypeOK, HoldsSlot, Inside
<1>2. \A d \in Calls : pc'[d] = "queued" <=> pc[d] = "queued"
  BY DEF TypeOK, HoldsSlot, Inside
<1> QED
  BY <1>1, <1>2 DEF SlotInv, SlotOwned, QueueDistinct, QueueAccounted

LEMMA SlotTaken ==
    ASSUME TypeOK, SlotInv, NEW c \in Calls, NEW to \in HoldsSlot,
           pc[c] = "start", waiters < MaxQueueDepth, slot = NoCall,
           waiters' = waiters + 1, slot' = c,
           pc' = [pc EXCEPT ![c] = to],
           UNCHANGED slotQueue
    PROVE  SlotInv'
<1>1. \A d \in Calls : pc'[d] \in HoldsSlot <=> d = c
  BY CallsAssumption DEF TypeOK, SlotInv, SlotOwned
<1>2. \A d \in Calls : pc'[d] = "queued" <=> pc[d] = "queued"
  BY DEF TypeOK, HoldsSlot, Inside
<1>3. SlotOwned' /\ QueueDistinct'
  BY <1>1, <1>2, CallsAssumption DEF SlotInv, SlotOwned, QueueDistinct
<1>4. QueueAccounted'
  <2>1. waiters = Len(slotQueue) + 0
    BY DEF SlotInv, QueueAccounted
  <2>2. Len(slotQueue) \in Nat
    BY LenProperties DEF TypeOK
  <2> QED
    BY <2>1, <2>2, CallsAssumption, BoundsAssumption DEF QueueAccounted
<1> QED
  BY <1>3, <1>4 DEF SlotInv

LEMMA SlotAwaited ==
    ASSUME TypeOK, SlotInv, NEW c \in Calls, EnterAndWait(c)
    PROVE  SlotInv'
<1>1. /\ slotQueue' = Append(slotQueue, c)
      /\ pc' = [pc EXCEPT ![c] = "queued"]
      /\ pc[c] = "start"
      /\ slot # NoCall /\ slot' = slot
      /\ waiters' = waiters + 1 /\ waiters < MaxQueueDepth
  BY DEF EnterAndWait
<1>2. /\ DOMAIN slotQueue = 1 .. Len(slotQueue)
      /\ DOMAIN slotQueue' = 1 .. Len(slotQueue) + 1
      /\ Len(slotQueue') = Len(slotQueue) + 1
      /\ Len(slotQueue) \in Nat
      /\ \A i \in DOMAIN slotQueue : slotQueue'[i] = slotQueue[i]
      /\ slotQueue'[Len(slotQueue) + 1] = c
  BY <1>1, AppendProperties, LenProperties DEF TypeOK
<1>3. \A i \in DOMAIN slotQueue : slotQueue[i] # c
  BY <1>1 DEF SlotInv, SlotOwned
<1>4. ASSUME NEW d \in Calls
      PROVE  pc'[d] \in HoldsSlot <=> slot' = d
  <2>1. pc'[d] = IF d = c THEN "queued" ELSE pc[d]
    BY <1>1 DEF TypeOK
  <2>2. pc[c] \notin HoldsSlot /\ "queued" \notin HoldsSlot
    BY <1>1 DEF HoldsSlot, Inside
  <2>3. pc[d] \in HoldsSlot <=> slot = d
    BY DEF SlotInv, SlotOwned
  <2> QED
    BY ONLY <1>1, <2>1, <2>2, <2>3, d \in Calls
<1>5. ASSUME NEW d \in Calls
      PROVE  pc'[d] = "queued" <=> \E i \in DOMAIN slotQueue' : slotQueue'[i] = d
  <2>1. CASE d = c
    <3>1. pc'[c] = "queued"
      BY <1>1 DEF TypeOK
    <3>2. Len(slotQueue) + 1 \in DOMAIN slotQueue'
      BY <1>2
    <3> QED
      BY ONLY <1>2, <2>1, <3>1, <3>2
  <2>2. CASE d # c
    <3>1. pc'[d] = pc[d]
      BY <1>1, <2>2 DEF TypeOK
    <3> QED
      BY <1>2, <2>2, <3>1 DEF SlotInv, SlotOwned
  <2> QED
    BY <2>1, <2>2
<1>6. QueueDistinct'
  BY <1>2, <1>3 DEF SlotInv, QueueDistinct
<1>7. QueueAccounted'
  BY <1>1, <1>2, BoundsAssumption DEF TypeOK, SlotInv, QueueAccounted
<1> QED
  BY <1>1, <1>4, <1>5, <1>6, <1>7 DEF SlotInv, SlotOwned

(* The owner of the slot leaves: the slot passes to the head of the queue. *)
LEMMA SlotPassed ==
    ASSUME TypeOK, SlotInv, NEW c \in Calls, pc[c] \in HoldsSlot,
           PassSlot([pc EXCEPT ![c] = "done"]), LeaveQueue
    PROVE  SlotInv'
<1>1. slot = c /\ c # NoCall
  BY CallsAssumption DEF SlotInv, SlotOwned
<1>2. /\ Len(slotQueue) \in Nat
      /\ DOMAIN slotQueue = 1 .. Len(slotQueue)
  BY LenProperties DEF TypeOK
<1>3. waiters = Len(slotQueue) + 1 /\ waiters <= MaxQueueDepth
      /\ waiters' = Len(slotQueue)
  BY <1>1, <1>2 DEF SlotInv, QueueAccounted, LeaveQueue
<1>4. CASE slotQueue = <<>>
  <2>1. /\ slot' = NoCall /\ slotQueue' = slotQueue
        /\ pc' = [pc EXCEPT ![c] = "done"]
    BY <1>4 DEF PassSlot
  <2>2. \A d \in Calls : pc'[d] \notin HoldsSlot /\ d # NoCall
    BY <1>1, <2>1, CallsAssumption
       DEF TypeOK, SlotInv, SlotOwned, HoldsSlot, Inside
  <2>3. \A d \in Calls : pc'[d] = "queued" <=> pc[d] = "queued"
    BY <2>1 DEF TypeOK, HoldsSlot, Inside
  <2>4. QueueAccounted'
    BY <1>2, <1>3, <1>4, <2>1, BoundsAssumption DEF QueueAccounted
  <2> QED
    BY <1>4, <2>1, <2>2, <2>3, <2>4 DEF SlotInv, SlotOwned, QueueDistinct
<1>5. CASE slotQueue # <<>>
  <2> DEFINE next == slotQueue[1]
  <2>1. /\ Len(slotQueue) >= 1
        /\ Head(slotQueue) = next
        /\ next \in Calls
        /\ DOMAIN slotQueue' = 1 .. Len(slotQueue) - 1
        /\ Len(slotQueue') = Len(slotQueue) - 1
        /\ \A i \in 1 .. Len(slotQueue) - 1 : slotQueue'[i] = slotQueue[i + 1]
        /\ slotQueue' = Tail(slotQueue)
        /\ slot' = next
        /\ pc' = [[pc EXCEPT ![c] = "done"] EXCEPT ![next] = "granted"]
    <3>1. Tail(slotQueue) \in Seq(Calls) /\ slotQueue \in Seq(Calls)
      BY <1>5, HeadTailProperties DEF TypeOK
    <3>2. Len(slotQueue) \in Nat \ {0}
      BY <1>5, <3>1, EmptySeq
    <3>3. Head(slotQueue) = next /\ next \in Calls
      BY <1>5, <3>1, <3>2, ElementOfSeq
    <3>4. Len(Tail(slotQueue)) = Len(slotQueue) - 1
          /\ DOMAIN Tail(slotQueue) = 1 .. Len(slotQueue) - 1
          /\ \A i \in 1 .. Len(slotQueue) - 1 : Tail(slotQueue)[i] = slotQueue[i + 1]
      BY <1>5, <3>1, HeadTailProperties, LenProperties
    <3>5. /\ slotQueue' = Tail(slotQueue)
          /\ slot' = Head(slotQueue)
          /\ pc' = [[pc EXCEPT ![c] = "done"] EXCEPT ![Head(slotQueue)] = "granted"]
      BY <1>5 DEF PassSlot
    <3>6. Len(slotQueue) >= 1
      BY <3>2
    <3> QED
      BY <3>3, <3>4, <3>5, <3>6
  <2>2. pc[next] = "queued" /\ next # c /\ next # NoCall
    BY <1>2, <2>1, CallsAssumption DEF SlotInv, SlotOwned, HoldsSlot
  <2>3. \A d \in Calls : pc'[d] = IF d = c THEN "done"
                                  ELSE IF d = next THEN "granted" ELSE pc[d]
    BY <2>1, <2>2 DEF TypeOK
  <2> HIDE DEF next
  <2>4. \A d \in Calls : pc'[d] \in HoldsSlot <=> slot' = d
    <3>1. \A d \in Calls : pc[d] \in HoldsSlot => d = c
      BY <1>1 DEF SlotInv, SlotOwned
    <3>2. slot' = next
      BY <2>1
    <3>3. "done" \notin HoldsSlot /\ "granted" \in HoldsSlot
      BY DEF HoldsSlot, Inside
    <3> QED
      BY <2>2, <2>3, <3>1, <3>2, <3>3
  <2>5. ASSUME NEW d \in Calls
        PROVE  pc'[d] = "queued" <=> \E i \in DOMAIN slotQueue' : slotQueue'[i] = d
    <3>1. CASE d = c
      <4>1. \A i \in DOMAIN slotQueue : slotQueue[i] # c
        BY DEF SlotInv, SlotOwned, HoldsSlot
      <4> QED
        <5>1. \A k \in DOMAIN slotQueue' : slotQueue'[k] # c
          BY <1>2, <2>1, <4>1
        <5> QED
          BY <2>3, <3>1, <5>1
    <3>2. CASE d = next
      <4>1. \A i \in DOMAIN slotQueue : slotQueue[i] = next => i = 1
        BY <1>2, <2>1 DEF SlotInv, QueueDistinct, next
      <4> QED
        <5>1. \A k \in DOMAIN slotQueue' : slotQueue'[k] # next
          <6> SUFFICES ASSUME NEW k \in DOMAIN slotQueue', slotQueue'[k] = next
                       PROVE  FALSE
            OBVIOUS
          <6>1. k + 1 \in DOMAIN slotQueue /\ slotQueue[k + 1] = next /\ k + 1 # 1
            BY <1>2, <2>1
          <6> QED
            BY <4>1, <6>1
        <5> QED
          BY <2>2, <2>3, <3>2, <5>1
    <3>3. CASE d # c /\ d # next
      <4>1. pc'[d] = pc[d]
        BY <2>3, <3>3
      <4>2. ASSUME NEW i \in DOMAIN slotQueue, slotQueue[i] = d
            PROVE  \E k \in DOMAIN slotQueue' : slotQueue'[k] = d
        <5>1. i # 1
          BY <3>3, <4>2 DEF next
        <5>2. i - 1 \in DOMAIN slotQueue' /\ slotQueue'[i - 1] = slotQueue[i]
          BY <1>2, <2>1, <5>1
        <5> QED
          BY <4>2, <5>2
      <4>3. ASSUME NEW k \in DOMAIN slotQueue', slotQueue'[k] = d
            PROVE  \E i \in DOMAIN slotQueue : slotQueue[i] = d
        <5>1. k + 1 \in DOMAIN slotQueue /\ slotQueue'[k] = slotQueue[k + 1]
          BY <1>2, <2>1
        <5> QED
          BY <4>3, <5>1
      <4> QED
        BY <4>1, <4>2, <4>3 DEF SlotInv, SlotOwned
    <3> QED
      BY <3>1, <3>2, <3>3
  <2>6. QueueDistinct'
    BY <1>2, <2>1 DEF SlotInv, QueueDistinct
  <2>7. QueueAccounted'
    BY <1>2, <1>3, <2>1, <2>2, BoundsAssumption DEF QueueAccounted
  <2> QED
    BY <2>1, <2>2, <2>4, <2>5, <2>6, <2>7 DEF SlotInv, SlotOwned
<1> QED
  BY <1>4, <1>5

(* A cancelled waiter takes itself, and nobody else, out of the queue.     *)
LEMMA SlotAbandoned ==
    ASSUME TypeOK, SlotInv, NEW c \in Calls, CancelledInQueue(c)
    PROVE  SlotInv'
<1>1. /\ pc[c] = "queued"
      /\ pc' = [pc EXCEPT ![c] = "done"]
      /\ slot' = slot
      /\ LeaveQueue
  BY DEF CancelledInQueue
<1>2. PICK n \in DOMAIN slotQueue :
          slotQueue[n] = c /\ slotQueue' = RemoveAt(slotQueue, n)
  BY DEF CancelledInQueue
<1> DEFINE old(i) == IF i < n THEN i ELSE i + 1
           new(i) == IF i < n THEN i ELSE i - 1
<1>3. n \in 1 .. Len(slotQueue) /\ Len(slotQueue) \in Nat
      /\ DOMAIN slotQueue = 1 .. Len(slotQueue)
  BY LenProperties DEF TypeOK
<1>4. /\ Len(slotQueue') = Len(slotQueue) - 1
      /\ slotQueue' \in Seq(Calls)
      /\ \A i \in 1 .. Len(slotQueue) - 1 :
            slotQueue'[i] = IF i < n THEN slotQueue[i] ELSE slotQueue[i + 1]
  BY <1>2, RemoveAtFacts DEF TypeOK
<1>5. DOMAIN slotQueue' = 1 .. Len(slotQueue) - 1
  BY <1>4, LenProperties
<1>6. \A i \in DOMAIN slotQueue' :
          /\ old(i) \in DOMAIN slotQueue
          /\ old(i) # n
          /\ slotQueue'[i] = slotQueue[old(i)]
  BY <1>3, <1>4, <1>5
<1>7. \A i \in DOMAIN slotQueue : i # n =>
          new(i) \in DOMAIN slotQueue' /\ old(new(i)) = i
  BY <1>3, <1>5
<1>8. \A i, k \in DOMAIN slotQueue' : old(i) = old(k) => i = k
  BY <1>3, <1>5
<1> HIDE DEF old, new
<1>9. \A i \in DOMAIN slotQueue : slotQueue[i] = c => i = n
  BY <1>2 DEF SlotInv, QueueDistinct
<1>10. \A d \in Calls : pc'[d] = IF d = c THEN "done" ELSE pc[d]
  BY <1>1 DEF TypeOK
<1>11. \A d \in Calls : pc'[d] \in HoldsSlot <=> slot' = d
  <2>1. "done" \notin HoldsSlot /\ "queued" \notin HoldsSlot
    BY DEF HoldsSlot, Inside
  <2>2. slot # c
    BY <1>1, <2>1 DEF SlotInv, SlotOwned
  <2> QED
    BY <1>1, <1>10, <2>1, <2>2 DEF SlotInv, SlotOwned
<1>12. ASSUME NEW d \in Calls
       PROVE  pc'[d] = "queued" <=> \E i \in DOMAIN slotQueue' : slotQueue'[i] = d
  <2>1. CASE d = c
    BY <1>6, <1>9, <1>10, <2>1
  <2>2. CASE d # c
    <3>1. pc'[d] = "queued" <=> \E i \in DOMAIN slotQueue : slotQueue[i] = d
      BY <1>10, <2>2 DEF SlotInv, SlotOwned
    <3>2. ASSUME NEW i \in DOMAIN slotQueue, slotQueue[i] = d
          PROVE  \E k \in DOMAIN slotQueue' : slotQueue'[k] = d
      <4>1. i # n
        BY <1>2, <2>2, <3>2
      <4> QED
        BY <1>6, <1>7, <3>2, <4>1
    <3>3. (\E k \in DOMAIN slotQueue' : slotQueue'[k] = d)
          => \E i \in DOMAIN slotQueue : slotQueue[i] = d
      BY <1>6
    <3> QED
      BY <3>1, <3>2, <3>3
  <2> QED
    BY <2>1, <2>2
<1>13. QueueDistinct'
  BY <1>6, <1>8 DEF SlotInv, QueueDistinct
<1>14. slot' # NoCall
  BY <1>1, <1>3 DEF SlotInv, SlotOwned
<1>15. QueueAccounted'
  BY <1>1, <1>3, <1>4, <1>14, BoundsAssumption
     DEF SlotInv, QueueAccounted, LeaveQueue
<1> QED
  BY <1>11, <1>12, <1>13, <1>14, <1>15 DEF SlotInv, SlotOwned

LEMMA SlotInductive == TypeOK /\ SlotInv /\ [Next]_vars => SlotInv'
<1> SUFFICES ASSUME TypeOK, SlotInv, [Next]_vars
             PROVE  SlotInv'
  OBVIOUS
<1> USE DEF loopVars
<1>0. /\ {"granted", "loading", "generating", "streaming", "yielded",
           "unwinding"} \subseteq HoldsSlot
      /\ \A c : PcAfterProceed(c) \in HoldsSlot
  BY DEF HoldsSlot, Inside, PcAfterProceed
<1>1. ASSUME NEW c \in Calls, Reject(c)
      PROVE  SlotInv'
  BY <1>1, SlotMoved DEF Reject
<1>2. ASSUME NEW c \in Calls, EnterAfterShutdown(c)
      PROVE  SlotInv'
  BY <1>2, SlotMoved DEF EnterAfterShutdown
<1>3. ASSUME NEW c \in Calls, EnterAndWait(c)
      PROVE  SlotInv'
  BY <1>3, SlotAwaited
<1>4. ASSUME NEW c \in Calls, EnterAndProceed(c)
      PROVE  SlotInv'
  BY <1>0, <1>4, SlotTaken DEF EnterAndProceed
<1>5. ASSUME NEW c \in Calls, SlotGranted(c)
      PROVE  SlotInv'
  <2>1. CASE pc' = [pc EXCEPT ![c] = PcAfterProceed(c)]
             /\ UNCHANGED <<waiters, slot, slotQueue>>
    BY <1>0, <1>5, <2>1, SlotMoved DEF SlotGranted
  <2>2. CASE PassSlot([pc EXCEPT ![c] = "done"]) /\ LeaveQueue
    BY <1>0, <1>5, <2>2, SlotPassed DEF SlotGranted
  <2> QED
    BY <1>5, <2>1, <2>2 DEF SlotGranted, Finish
<1>6. ASSUME NEW c \in Calls, LoadReturned(c)
      PROVE  SlotInv'
  <2>1. CASE pc' = [pc EXCEPT ![c] = PcAfterProceed(c)]
             /\ UNCHANGED <<waiters, slot, slotQueue>>
    BY <1>0, <1>6, <2>1, SlotMoved DEF LoadReturned
  <2>2. CASE PassSlot([pc EXCEPT ![c] = "done"]) /\ LeaveQueue
    BY <1>0, <1>6, <2>2, SlotPassed DEF LoadReturned
  <2> QED
    BY <1>6, <2>1, <2>2 DEF LoadReturned, Finish
<1>7. ASSUME NEW c \in Calls, CompletionReturned(c)
      PROVE  SlotInv'
  BY <1>0, <1>7, SlotPassed DEF CompletionReturned, Finish
<1>8. ASSUME NEW c \in Calls, CompletionTimedOut(c)
      PROVE  SlotInv'
  BY <1>0, <1>8, SlotPassed DEF CompletionTimedOut, Finish
<1>9. ASSUME NEW c \in Calls, CancelledWhenGranted(c)
      PROVE  SlotInv'
  BY <1>0, <1>9, SlotPassed DEF CancelledWhenGranted, Finish
<1>10. ASSUME NEW c \in Calls, CancelledInJob(c)
      PROVE  SlotInv'
  BY <1>0, <1>10, SlotPassed DEF CancelledInJob, Finish
<1>11. ASSUME NEW c \in Calls, StreamUnwound(c)
      PROVE  SlotInv'
  BY <1>0, <1>11, SlotPassed DEF StreamUnwound, FinishStream
<1>12. ASSUME NEW c \in Calls, CancelledInUnwind(c)
      PROVE  SlotInv'
  BY <1>0, <1>12, SlotPassed DEF CancelledInUnwind, FinishStream
<1>13. ASSUME NEW c \in Calls, StreamEnded(c)
      PROVE  SlotInv'
  BY <1>0, <1>13, SlotMoved DEF StreamEnded, Unwind
<1>14. ASSUME NEW c \in Calls, StreamTimedOut(c)
      PROVE  SlotInv'
  BY <1>0, <1>14, SlotMoved DEF StreamTimedOut, Unwind
<1>15. ASSUME NEW c \in Calls, CancelledInStream(c)
      PROVE  SlotInv'
  BY <1>0, <1>15, SlotMoved DEF CancelledInStream, Unwind
<1>16. ASSUME NEW c \in Calls, TokenReceived(c)
      PROVE  SlotInv'
  BY <1>0, <1>16, SlotMoved DEF TokenReceived
<1>17. ASSUME NEW c \in Calls, CancelledInQueue(c)
      PROVE  SlotInv'
  BY <1>17, SlotAbandoned
<1>18. ASSUME NEW c \in StreamCalls, TokenRequested(c)
      PROVE  SlotInv'
  BY <1>0, <1>18, SlotMoved, CallsAssumption DEF TokenRequested
<1>19. ASSUME NEW c \in StreamCalls, StreamClosed(c)
      PROVE  SlotInv'
  BY <1>0, <1>19, SlotMoved, CallsAssumption DEF StreamClosed, Unwind
<1>20. ASSUME Close
      PROVE  SlotInv'
  BY <1>20, SlotUnchanged DEF Close, CloseModel, CloseUnloaded,
     CloseReturned, Shutdown, slotVars
<1>21. ASSUME StartLoad \/ StartCompletion \/ StartStream \/ StartClose
      PROVE  SlotInv'
  BY <1>21, SlotUnchanged DEF StartLoad, StartCompletion, StartStream,
     StartClose, Start, slotVars
<1>22. ASSUME NEW job \in running, FinishLoad(job) \/ FinishCompletion(job)
             \/ FinishStreaming(job) \/ FinishClose(job)
      PROVE  SlotInv'
  BY <1>22, SlotUnchanged DEF FinishLoad, FinishCompletion,
     FinishStreaming, FinishClose, Return, slotVars
<1>23. ASSUME NEW job \in running, StopProducing(job) \/ ProduceToken(job)
      PROVE  SlotInv'
  BY <1>23, SlotUnchanged DEF StopProducing, ProduceToken, slotVars
<1>24. CASE UNCHANGED vars
  BY <1>24, SlotUnchanged DEF vars, slotVars
<1> QED
  BY <1>1, <1>2, <1>3, <1>4, <1>5, <1>6, <1>7, <1>8, <1>9, <1>10,
     <1>11, <1>12, <1>13, <1>14, <1>15, <1>16, <1>17, <1>18,
     <1>19, <1>20, <1>21, <1>22, <1>23, <1>24
     DEF Next, Enter, Resume, TimedOut, Cancelled, Consume, Close, Worker

LEMMA SlotInitially == Init => SlotInv
<1> SUFFICES ASSUME Init PROVE SlotInv
  OBVIOUS
<1>1. DOMAIN slotQueue = {} /\ Len(slotQueue) = 0
  BY EmptySeq DEF Init
<1> QED
  BY <1>1, CallsAssumption, BoundsAssumption
     DEF Init, SlotInv, SlotOwned, QueueDistinct, QueueAccounted, HoldsSlot, Inside

(* Whichever way a call leaves - result, native error, timeout, a          *)
(* cancellation at any await, a refused job - the slot passes on and no    *)
(* wake-up is lost: the semaphore of LlamaCppClient.                       *)
THEOREM SlotOwnedAlways == Spec => []SlotOwned
<1>1. SlotInv => SlotOwned
  BY DEF SlotInv
<1> QED
  BY <1>1, SlotInitially, SlotInductive, TypeCorrect, PTL DEF Spec

(* _waiters is exact and bounded: _enter_queue and _leave_queue pair up on *)
(* every path, for any number of callers and any max_queue_depth.          *)
THEOREM QueueAccountedAlways == Spec => []QueueAccounted
<1>1. SlotInv => QueueAccounted
  BY DEF SlotInv
<1> QED
  BY <1>1, SlotInitially, SlotInductive, TypeCorrect, PTL DEF Spec

-----------------------------------------------------------------------------
(* Nothing is lost, and the refinement of NativeModel.                       *)

Early == {"start", "queued", "granted"}
Live == Early \cup {"loading", "generating", "streaming", "yielded"}

(* Nothing has been generated for the call.                                *)
Untouched(c) ==
    /\ rendered[c] = NoFormat
    /\ c \in StreamCalls => inbox[c] = <<>> /\ produced[c] = 0 /\ yielded[c] = 0

(* A job belongs to a call that awaits it or has given it up.              *)
Fits(j) ==
    \/ j.kind = "close" /\ j.by = Closer /\ closer # "open"
    \/ /\ j.kind = "load" /\ j.by \in Calls
       /\ pc[j.by] = "done" \/ (pc[j.by] = "loading" /\ future[j.by] = "pending")
    \/ j.kind = "complete" /\ j.by \in Calls \ StreamCalls /\ pc[j.by] \in {"generating", "done"}
    \/ /\ j.kind \in {"stream", "leaving"} /\ j.by \in StreamCalls
       /\ pc[j.by] \in {"streaming", "yielded", "unwinding", "done"}

OneJobEach ==
    /\ \A i, k \in DOMAIN jobs : jobs[i].by = jobs[k].by => i = k
    /\ \A i \in DOMAIN jobs, j \in running : jobs[i].by # j.by

QueuedJob(j) == /\ Fits(j)
                /\ j.kind # "leaving"
                /\ Uses(j) => Untouched(j.by)

RunningJob(j) ==
    /\ Fits(j)
    /\ Uses(j) => rendered[j.by] # NoFormat
    /\ j.kind = "stream" => produced[j.by] = yielded[j.by] + Len(inbox[j.by])
    /\ j.kind = "complete" => savedFormat = LoadedFormat

Inbox(c) ==
    /\ inbox[c] # <<>> => rendered[c] # NoFormat
    /\ \E unread \in 0 .. Len(inbox[c]) :
          /\ produced[c] = yielded[c] + unread
          /\ \A i \in DOMAIN inbox[c] : inbox[c][i] = "token" <=> i <= unread

CallState(c) ==
    /\ pc[c] \in Early \cup {"loading"} => Untouched(c)
    /\ pc[c] \in Live => outcome[c] # "ok"
    /\ pc[c] = "generating" => c \notin StreamCalls
    /\ pc[c] \in {"streaming", "yielded", "unwinding"} => c \in StreamCalls
    /\ pc[c] = "generating" /\ future[c] = "ok" => rendered[c] # NoFormat
    /\ outcome[c] = "ok" =>
          /\ rendered[c] # NoFormat
          /\ c \in StreamCalls => cancelled[c] /\ produced[c] = yielded[c]
    /\ c \in StreamCalls => Inbox(c)

(* The template is swapped only while a completion runs.                   *)
FormatRestored == (\A j \in running : j.kind # "complete") => chatFormat = LoadedFormat

CallsInv == /\ OneJobEach
            /\ \A i \in DOMAIN jobs : QueuedJob(jobs[i])
            /\ \A j \in running : RunningJob(j)
            /\ \A c \in Calls : CallState(c)
            /\ FormatRestored

generationVars == <<rendered, chatFormat, savedFormat, inbox, produced, yielded, cancelled>>

-----------------------------------------------------------------------------
(* Steps of the event loop.                                                *)

(* How a call may move while its job, if any, stays where it is: it stays, *)
(* gives up, or waits on for the slot.                                     *)
Moved(d) == \/ pc'[d] = pc[d]
            \/ pc'[d] = "done"
            \/ pc[d] \in Early /\ pc'[d] \in Early

(* ... and what it may have come to.                                       *)
Concluded(d) ==
    \/ outcome'[d] = outcome[d]
    \/ outcome'[d] # "ok"
    \/ pc[d] = "generating" /\ future[d] = "ok" /\ pc'[d] = "done"

(* The owner of the slot leaves: only the head of the queue moves besides. *)
LEMMA PassMoves ==
    ASSUME TypeOK, SlotInv, NEW c \in Calls, pc[c] # "queued",
           PassSlot([pc EXCEPT ![c] = "done"])
    PROVE  /\ pc'[c] = "done"
           /\ \A d \in Calls : Moved(d)
<1>1. CASE slotQueue = <<>>
  BY <1>1 DEF PassSlot, TypeOK, Moved
<1>2. CASE slotQueue # <<>>
  <2>1. Head(slotQueue) \in Calls /\ Head(slotQueue) = slotQueue[1] /\ 1 \in DOMAIN slotQueue
    BY <1>2, HeadTailProperties, EmptySeq, LenProperties DEF TypeOK
  <2>2. pc[Head(slotQueue)] = "queued"
    BY <2>1 DEF SlotInv, SlotOwned
  <2> QED
    BY <1>2, <2>1, <2>2 DEF PassSlot, TypeOK, Moved, Early
<1> QED
  BY <1>1, <1>2

LEMMA FinishMoves ==
    ASSUME TypeOK, SlotInv, NEW c \in Calls, pc[c] # "queued", NEW how, Finish(c, how),
           how # "ok" \/ (pc[c] = "generating" /\ future[c] = "ok")
    PROVE  /\ pc'[c] = "done"
           /\ \A d \in Calls : Moved(d) /\ Concluded(d)
<1>1. /\ pc'[c] = "done"
      /\ \A d \in Calls : Moved(d)
  BY PassMoves DEF Finish
<1>2. \A d \in Calls : Concluded(d)
  BY <1>1 DEF Finish, TypeOK, Concluded
<1> QED
  BY <1>1, <1>2

(* A job that neither starts nor returns stays what it is, unless its own  *)
(* call moves in a way that it must not.                                   *)
LEMMA FitsStays ==
    ASSUME NEW j \in Job, Fits(j), closer' = closer \/ closer' # "open",
           j.by \in Calls => /\ Moved(j.by)
                             /\ future'[j.by] = future[j.by] \/ pc'[j.by] = "done"
    PROVE  Fits(j)'
<1>1. CASE j.by = Closer
  BY <1>1, CallsAssumption DEF Fits
<1>2. CASE j.by \in Calls
  <2>1. pc'[j.by] = pc[j.by] \/ pc'[j.by] = "done" \/ pc[j.by] \in Early
    BY <1>2 DEF Moved
  <2>2. pc[j.by] \notin Early
    BY <1>2, CallsAssumption DEF Fits, Early
  <2>3. (pc'[j.by] = pc[j.by] /\ future'[j.by] = future[j.by]) \/ pc'[j.by] = "done"
    BY <1>2, <2>1, <2>2
  <2>4. CASE j.kind = "load"
    BY <1>2, <2>3, <2>4 DEF Fits
  <2>5. CASE j.kind = "complete"
    BY <1>2, <2>3, <2>5 DEF Fits
  <2>6. CASE j.kind \in {"stream", "leaving"}
    BY <1>2, <2>3, <2>6 DEF Fits
  <2>7. CASE j.kind = "close"
    BY <1>2, <2>7, CallsAssumption DEF Fits
  <2> QED
    BY <2>4, <2>5, <2>6, <2>7 DEF Job
<1> QED
  BY <1>1, <1>2 DEF Job, Owners

LEMMA CallStays ==
    ASSUME NEW c \in Calls, CallState(c), Moved(c), Concluded(c),
           UNCHANGED generationVars,
           future'[c] = future[c] \/ pc'[c] = "done" \/ future'[c] # "ok"
    PROVE  CallState(c)'
<1>1. (pc[c] \in Early \cup {"loading"})' => pc[c] \in Early \cup {"loading"}
  BY DEF Moved, Early
<1>2. Untouched(c)' <=> Untouched(c)
  BY DEF Untouched, generationVars
<1>3. Inbox(c)' <=> Inbox(c)
  BY DEF Inbox, generationVars
<1>4. (pc[c] \in Live)' => pc[c] \in Live
  BY DEF Moved, Early, Live
<1>5. (pc[c] \in Live => outcome[c] # "ok")'
  BY <1>4 DEF CallState, Concluded, Live, Early
<1>6. /\ pc'[c] = "generating" => c \notin StreamCalls
      /\ pc'[c] \in {"streaming", "yielded", "unwinding"} => c \in StreamCalls
      /\ pc'[c] = "generating" /\ future'[c] = "ok" => rendered'[c] # NoFormat
  BY DEF CallState, Moved, Early, generationVars
<1>7. outcome'[c] = "ok" =>
          /\ rendered'[c] # NoFormat
          /\ c \in StreamCalls => cancelled'[c] /\ produced'[c] = yielded'[c]
  BY DEF CallState, Concluded, generationVars
<1> QED
  BY <1>1, <1>2, <1>3, <1>5, <1>6, <1>7 DEF CallState

(* The jobs of the queue after some of them have gone.                     *)
Fewer == \E old \in [DOMAIN jobs' -> DOMAIN jobs] :
            /\ \A i \in DOMAIN jobs' : jobs'[i] = jobs[old[i]]
            /\ \A i, k \in DOMAIN jobs' : old[i] = old[k] => i = k

LEMMA SameFewer == ASSUME UNCHANGED jobs PROVE Fewer
<1>1. [i \in DOMAIN jobs' |-> i] \in [DOMAIN jobs' -> DOMAIN jobs]
  OBVIOUS
<1> QED
  BY <1>1 DEF Fewer

(* Nobody's job starts; some may leave the queue with the calls that gave  *)
(* them up.                                                                *)
LEMMA Quiet ==
    ASSUME TypeOK, CallsInv, Fewer,
           UNCHANGED running, UNCHANGED generationVars,
           closer' = closer \/ closer' # "open",
           \A d \in Calls : Moved(d) /\ Concluded(d),
           \A d \in Calls : future'[d] = future[d] \/ pc'[d] = "done"
    PROVE  CallsInv'
<1>1. PICK old \in [DOMAIN jobs' -> DOMAIN jobs] :
            /\ \A i \in DOMAIN jobs' : jobs'[i] = jobs[old[i]]
            /\ \A i, k \in DOMAIN jobs' : old[i] = old[k] => i = k
  BY DEF Fewer
<1>2. /\ \A i \in DOMAIN jobs : jobs[i] \in Job
      /\ running \subseteq Job
  BY JobsTyped DEF TypeOK
<1>3. OneJobEach'
  BY <1>1 DEF CallsInv, OneJobEach
<1>4. ASSUME NEW b \in Job, QueuedJob(b) PROVE QueuedJob(b)'
  <2>1. Fits(b) /\ (b.by \in Calls => Moved(b.by) /\ (future'[b.by] = future[b.by] \/ pc'[b.by] = "done"))
    BY <1>4 DEF QueuedJob
  <2>2. Fits(b)'
    BY <2>1, FitsStays
  <2>3. Untouched(b.by) => Untouched(b.by)'
    BY DEF Untouched, generationVars
  <2> QED
    BY <1>4, <2>2, <2>3 DEF QueuedJob, Uses
<1>5. ASSUME NEW i \in DOMAIN jobs' PROVE QueuedJob(jobs[i])'
  <2>1. PICK b \in Job : b = jobs[old[i]] /\ b = jobs'[i] /\ QueuedJob(b)
    BY <1>1, <1>2 DEF CallsInv
  <2>2. QueuedJob(b)'
    BY <2>1, <1>4
  <2> QED
    BY <2>1, <2>2
<1>6. ASSUME NEW j \in running' PROVE RunningJob(j)'
  <2>1. j \in Job /\ RunningJob(j)
    BY <1>2 DEF CallsInv
  <2>2. Fits(j)'
    BY <2>1, FitsStays DEF RunningJob
  <2> QED
    BY <2>1, <2>2 DEF RunningJob, Uses, generationVars
<1>7. \A c \in Calls : CallState(c)'
  BY CallStays DEF CallsInv
<1>8. FormatRestored'
  BY DEF CallsInv, FormatRestored, generationVars
<1> QED
  BY <1>3, <1>5, <1>6, <1>7, <1>8 DEF CallsInv

-----------------------------------------------------------------------------
(* Steps of one call or one job.                                           *)

(* Nothing changes but what belongs to o.                                  *)
SameElsewhere(o) ==
    \A d \in Calls \ {o} :
        /\ pc'[d] = pc[d] /\ outcome'[d] = outcome[d] /\ future'[d] = future[d]
        /\ rendered'[d] = rendered[d]
        /\ d \in StreamCalls => /\ inbox'[d] = inbox[d] /\ produced'[d] = produced[d]
                                /\ yielded'[d] = yielded[d] /\ cancelled'[d] = cancelled[d]

LEMMA Elsewhere ==
    ASSUME NEW o, SameElsewhere(o), closer' = closer \/ closer' # "open"
    PROVE  /\ \A b \in Job : b.by # o /\ QueuedJob(b) => QueuedJob(b)'
           /\ \A b \in Job : /\ b.by # o /\ RunningJob(b)
                             /\ b.kind = "complete" => savedFormat' = savedFormat
                             => RunningJob(b)'
           /\ \A d \in Calls : d # o /\ CallState(d) => CallState(d)'
<1>1. ASSUME NEW b \in Job, b.by # o, Fits(b)
      PROVE  /\ Fits(b)'
             /\ b.by \in Calls => rendered'[b.by] = rendered[b.by]
             /\ b.by \in StreamCalls => /\ inbox'[b.by] = inbox[b.by]
                                        /\ produced'[b.by] = produced[b.by]
                                        /\ yielded'[b.by] = yielded[b.by]
             /\ Uses(b) => b.by \in Calls
             /\ b.kind = "stream" => b.by \in StreamCalls
  <2>1. b.by \in Calls => Moved(b.by) /\ future'[b.by] = future[b.by]
    BY <1>1 DEF SameElsewhere, Moved
  <2>2. Fits(b)'
    BY <1>1, <2>1, FitsStays
  <2>3. b.by \in StreamCalls => b.by \in Calls
    BY CallsAssumption
  <2> QED
    BY <1>1, <2>2, <2>3, CallsAssumption DEF SameElsewhere, Fits, Uses
<1>2. ASSUME NEW b \in Job, b.by # o, QueuedJob(b) PROVE QueuedJob(b)'
  BY <1>1, <1>2 DEF QueuedJob, Uses, Untouched
<1>3. ASSUME NEW b \in Job, b.by # o, RunningJob(b),
             b.kind = "complete" => savedFormat' = savedFormat
      PROVE  RunningJob(b)'
  BY <1>1, <1>3 DEF RunningJob, Uses
<1>4. ASSUME NEW d \in Calls, d # o, CallState(d) PROVE CallState(d)'
  <2>1. /\ pc'[d] = pc[d] /\ outcome'[d] = outcome[d] /\ future'[d] = future[d]
        /\ rendered'[d] = rendered[d]
        /\ d \in StreamCalls => /\ inbox'[d] = inbox[d] /\ produced'[d] = produced[d]
                                /\ yielded'[d] = yielded[d] /\ cancelled'[d] = cancelled[d]
    BY <1>4 DEF SameElsewhere
  <2> QED
    BY <1>4, <2>1 DEF CallState, Untouched, Inbox
<1> QED
  BY <1>2, <1>3, <1>4

(* A job is queued for a call that has none.                               *)
LEMMA JobQueued ==
    ASSUME TypeOK, CallsInv, NEW job \in Job,
           jobs' = Append(jobs, job),
           \A i \in DOMAIN jobs : jobs[i].by # job.by,
           \A j \in running : j.by # job.by,
           SameElsewhere(job.by), QueuedJob(job)',
           job.by \in Calls => CallState(job.by)',
           UNCHANGED <<running, chatFormat, savedFormat>>,
           closer' = closer \/ closer' # "open"
    PROVE  CallsInv'
<1>1. /\ DOMAIN jobs = 1 .. Len(jobs)
      /\ DOMAIN jobs' = 1 .. Len(jobs) + 1
      /\ Len(jobs) \in Nat
      /\ \A i \in DOMAIN jobs : jobs'[i] = jobs[i] /\ jobs[i] \in Job
      /\ jobs'[Len(jobs) + 1] = job
  BY AppendProperties, LenProperties, JobsTyped DEF TypeOK
<1>2. running \subseteq Job
  BY DEF TypeOK
<1>3. OneJobEach'
  BY <1>1 DEF CallsInv, OneJobEach
<1>4. ASSUME NEW i \in DOMAIN jobs' PROVE QueuedJob(jobs[i])'
  <2>1. CASE i \in DOMAIN jobs
    <3>1. PICK b \in Job : b = jobs[i] /\ b = jobs'[i] /\ QueuedJob(b) /\ b.by # job.by
      BY <1>1, <2>1 DEF CallsInv
    <3>2. QueuedJob(b)'
      BY <3>1, Elsewhere
    <3> QED
      BY <3>1, <3>2
  <2>2. CASE i = Len(jobs) + 1
    BY <1>1, <2>2
  <2> QED
    BY <1>1, <1>4, <2>1, <2>2
<1>5. ASSUME NEW j \in running' PROVE RunningJob(j)'
  BY <1>2, <1>5, Elsewhere DEF CallsInv
<1>6. \A c \in Calls : CallState(c)'
  BY Elsewhere DEF CallsInv
<1>7. FormatRestored'
  BY DEF CallsInv, FormatRestored
<1> QED
  BY <1>3, <1>4, <1>5, <1>6, <1>7 DEF CallsInv

LEMMA CallsProceed ==
    ASSUME TypeOK, CallsInv, NEW c \in Calls, Proceed(c),
           \/ pc[c] \in {"start", "granted"}
           \/ pc[c] = "loading" /\ future[c] = "ok" /\ llama # 0,
           pc' = [pc EXCEPT ![c] = PcAfterProceed(c)],
           UNCHANGED <<outcome, modelVars, streamVars, closer>>
    PROVE  CallsInv'
<1> DEFINE job == [kind |-> IF llama = 0 THEN "load" ELSE GenerationKind(c),
                   by |-> c, llama |-> llama]
<1>1. /\ jobs' = Append(jobs, job)
      /\ future' = [future EXCEPT ![c] = "pending"]
      /\ UNCHANGED running
  BY DEF Proceed, Submit
<1>2. job \in Job /\ job.by = c
  BY DEF Job, Owners, GenerationKind, TypeOK
<1>3. ASSUME NEW j, Fits(j) PROVE j.by # c
  BY <1>3, CallsAssumption DEF Fits
<1>4. /\ \A i \in DOMAIN jobs : jobs[i].by # c
      /\ \A j \in running : j.by # c
  BY <1>3 DEF CallsInv, QueuedJob, RunningJob
<1>5. CallState(c) /\ Untouched(c) /\ outcome[c] # "ok"
  BY DEF CallsInv, CallState, Early, Live
<1>6. /\ pc'[c] = PcAfterProceed(c) /\ future'[c] = "pending"
      /\ Untouched(c)' /\ outcome'[c] # "ok"
  BY <1>1, <1>5 DEF TypeOK, Owners, Untouched, modelVars, streamVars
<1>7. CallState(c)'
  <2>1. c \in StreamCalls => Inbox(c)'
    BY <1>5 DEF CallState, Inbox, modelVars, streamVars
  <2> QED
    BY <1>6, <2>1 DEF CallState, PcAfterProceed
<1>8. PICK b \in Job : b = job
  BY <1>2
<1>9. QueuedJob(b)'
  BY <1>2, <1>6, <1>8 DEF QueuedJob, Fits, Uses, GenerationKind, PcAfterProceed
<1>10. SameElsewhere(c)
  BY <1>1 DEF SameElsewhere, modelVars, streamVars, TypeOK, Owners
<1>11. b.by = c
  BY <1>2, <1>8
<1>12. jobs' = Append(jobs, b)
  BY <1>1, <1>8
<1> HIDE DEF job
<1> QED
  BY <1>1, <1>4, <1>7, <1>9, <1>10, <1>11, <1>12, JobQueued DEF modelVars

(* close() queues the only job of its task.                                *)
LEMMA CallsClose ==
    ASSUME TypeOK, CallsInv, CloseModel
    PROVE  CallsInv'
<1>1. PICK b \in Job : b = [kind |-> "close", by |-> Closer, llama |-> llama]
  BY DEF Job, Owners, TypeOK
<1>2. /\ jobs' = Append(jobs, b) /\ b.by = Closer /\ b.kind = "close"
      /\ closer = "open" /\ closer' = "closing"
      /\ UNCHANGED <<running, chatFormat, savedFormat>>
  BY <1>1 DEF CloseModel, Submit
<1>3. ASSUME NEW j, Fits(j) PROVE j.by # Closer
  BY <1>2, <1>3, CallsAssumption DEF Fits
<1>4. /\ \A i \in DOMAIN jobs : jobs[i].by # b.by
      /\ \A j \in running : j.by # b.by
  BY <1>2, <1>3 DEF CallsInv, QueuedJob, RunningJob
<1>5. SameElsewhere(b.by)
  BY <1>2 DEF CloseModel, Submit, SameElsewhere, loopVars, streamVars, TypeOK, Owners
<1>6. QueuedJob(b)'
  BY <1>2 DEF QueuedJob, Fits, Uses
<1> QED
  BY <1>2, <1>4, <1>5, <1>6, CallsAssumption, JobQueued

(* A step of one call that leaves all jobs where they are.                 *)
LEMMA OneCall ==
    ASSUME TypeOK, CallsInv, NEW c \in Calls, SameElsewhere(c), CallState(c)',
           UNCHANGED <<jobs, running, chatFormat, savedFormat, closer>>,
           \A b \in Job : b.by = c /\ QueuedJob(b) => QueuedJob(b)',
           \A b \in Job : b.by = c /\ RunningJob(b) => RunningJob(b)'
    PROVE  CallsInv'
<1>1. /\ \A i \in DOMAIN jobs : jobs[i] \in Job
      /\ running \subseteq Job
  BY JobsTyped DEF TypeOK
<1>2. OneJobEach'
  BY DEF CallsInv, OneJobEach
<1>3. ASSUME NEW i \in DOMAIN jobs' PROVE QueuedJob(jobs[i])'
  <2>1. PICK b \in Job : b = jobs[i] /\ b = jobs'[i] /\ QueuedJob(b)
    BY <1>1 DEF CallsInv
  <2>2. QueuedJob(b)'
    BY <2>1, Elsewhere
  <2> QED
    BY <2>1, <2>2
<1>4. ASSUME NEW j \in running' PROVE RunningJob(j)'
  BY <1>1, <1>4, Elsewhere DEF CallsInv
<1>5. \A d \in Calls : CallState(d)'
  BY Elsewhere DEF CallsInv
<1>6. FormatRestored'
  BY DEF CallsInv, FormatRestored
<1> QED
  BY <1>2, <1>3, <1>4, <1>5, <1>6 DEF CallsInv

-----------------------------------------------------------------------------
(* The consumer's side of a stream.                                        *)

LEMMA InboxHead ==
    ASSUME TypeOK, NEW c \in StreamCalls, Inbox(c), inbox[c] # <<>>
    PROVE  /\ Head(inbox[c]) = inbox[c][1] /\ 1 \in DOMAIN inbox[c]
           /\ Len(inbox[c]) \in Nat \ {0} /\ DOMAIN inbox[c] = 1 .. Len(inbox[c])
           /\ Len(Tail(inbox[c])) = Len(inbox[c]) - 1
           /\ DOMAIN Tail(inbox[c]) = 1 .. Len(inbox[c]) - 1
           /\ \A i \in 1 .. Len(inbox[c]) - 1 : Tail(inbox[c])[i] = inbox[c][i + 1]
           /\ produced[c] \in Nat /\ yielded[c] \in Nat
<1>1. inbox[c] \in Seq(Items)
  BY DEF TypeOK, Items
<1> QED
  BY <1>1, EmptySeq, LenProperties, HeadTailProperties DEF TypeOK

(* The stream moves on without touching its queue, and not to success.     *)
LEMMA CallsStreamMoved ==
    ASSUME TypeOK, CallsInv, NEW c \in StreamCalls, pc[c] \in {"streaming", "yielded"},
           NEW to \in {"streaming", "yielded", "unwinding"},
           pc' = [pc EXCEPT ![c] = to],
           outcome' = outcome \/ \E how \in Outcomes \ {"ok"} :
                                    outcome' = [outcome EXCEPT ![c] = how],
           cancelled' = cancelled \/ cancelled' = [cancelled EXCEPT ![c] = TRUE],
           UNCHANGED <<jobs, running, future, rendered, chatFormat, savedFormat,
                       inbox, produced, yielded, closer>>
    PROVE  CallsInv'
<1>1. c \in Calls /\ CallState(c) /\ outcome[c] # "ok" /\ pc'[c] = to
  BY CallsAssumption DEF CallsInv, CallState, Live, TypeOK
<1>2. outcome'[c] # "ok"
  BY <1>1 DEF TypeOK
<1>3. Inbox(c)'
  BY <1>1 DEF CallState, Inbox
<1>4. CallState(c)'
  BY <1>1, <1>2, <1>3 DEF CallState, Early, Live
<1>5. SameElsewhere(c)
  BY DEF SameElsewhere, TypeOK
<1>6. ASSUME NEW b \in Job, b.by = c, Fits(b) PROVE Fits(b)'
  BY <1>1, <1>6, CallsAssumption DEF Fits
<1>7. \A b \in Job : b.by = c /\ QueuedJob(b) => QueuedJob(b)'
  BY <1>6 DEF QueuedJob, Untouched, Uses
<1>8. \A b \in Job : b.by = c /\ RunningJob(b) => RunningJob(b)'
  BY <1>6 DEF RunningJob, Uses
<1> QED
  BY <1>1, <1>4, <1>5, <1>7, <1>8, OneCall

LEMMA CallsToken ==
    ASSUME TypeOK, CallsInv, NEW c \in Calls, TokenReceived(c)
    PROVE  CallsInv'
<1>1. CallState(c) /\ c \in StreamCalls /\ outcome[c] # "ok" /\ inbox[c] # <<>>
  BY DEF CallsInv, CallState, TokenReceived, Live
<1>2. Inbox(c) /\ rendered[c] # NoFormat
  BY <1>1 DEF CallState, Inbox
<1>3. /\ pc'[c] = "yielded" /\ outcome' = outcome /\ rendered' = rendered
      /\ inbox'[c] = Tail(inbox[c]) /\ yielded'[c] = yielded[c] + 1
      /\ produced' = produced /\ cancelled' = cancelled
      /\ UNCHANGED <<jobs, running, future, chatFormat, savedFormat, closer>>
  BY <1>1 DEF TokenReceived, TypeOK, modelVars, poolVars
<1>4. Inbox(c)'
  <2>1. PICK unread \in 0 .. Len(inbox[c]) :
            /\ produced[c] = yielded[c] + unread
            /\ \A i \in DOMAIN inbox[c] : inbox[c][i] = "token" <=> i <= unread
    BY <1>2 DEF Inbox
  <2>2. unread >= 1
    BY <1>1, <1>2, <2>1, InboxHead DEF TokenReceived
  <2>3. /\ unread - 1 \in 0 .. Len(Tail(inbox[c]))
        /\ produced[c] = yielded[c] + 1 + (unread - 1)
    BY <1>1, <1>2, <2>1, <2>2, InboxHead
  <2>4. \A i \in DOMAIN Tail(inbox[c]) : Tail(inbox[c])[i] = "token" <=> i <= unread - 1
    BY <1>1, <1>2, <2>1, InboxHead
  <2> QED
    BY <1>2, <1>3, <2>3, <2>4 DEF Inbox
<1>5. CallState(c)'
  BY <1>1, <1>3, <1>4 DEF CallState, Early
<1>6. SameElsewhere(c)
  BY <1>3 DEF TokenReceived, SameElsewhere, TypeOK
<1>7. ASSUME NEW b \in Job, b.by = c, Fits(b) PROVE Fits(b)'
  BY <1>1, <1>3, <1>7, CallsAssumption DEF Fits, TokenReceived
<1>8. \A b \in Job : b.by = c /\ QueuedJob(b) => QueuedJob(b)'
  BY <1>1, <1>7, CallsAssumption DEF QueuedJob, Untouched, Uses, Fits, TokenReceived
<1>9. ASSUME NEW b \in Job, b.by = c, RunningJob(b) PROVE RunningJob(b)'
  <2>1. /\ Len(inbox[c]) \in Nat /\ Len(inbox'[c]) = Len(inbox[c]) - 1
        /\ yielded[c] \in Nat
    BY <1>1, <1>2, <1>3, InboxHead
  <2>2. b.kind = "stream" => produced[c] = yielded[c] + Len(inbox[c])
    BY <1>9 DEF RunningJob
  <2>3. b.kind = "stream" => produced'[c] = yielded'[c] + Len(inbox'[c])
    BY <1>3, <2>1, <2>2
  <2> QED
    BY <1>3, <1>7, <1>9, <2>3 DEF RunningJob, Uses
<1> QED
  BY <1>3, <1>5, <1>6, <1>8, <1>9, OneCall

(* The end is read when every token has been: no producer is left.         *)
LEMMA CallsStreamEnded ==
    ASSUME TypeOK, CallsInv, NEW c \in Calls, StreamEnded(c)
    PROVE  CallsInv'
<1>1. CallState(c) /\ c \in StreamCalls /\ outcome[c] # "ok" /\ inbox[c] # <<>>
  BY DEF CallsInv, CallState, StreamEnded, Live
<1>2. Inbox(c) /\ rendered[c] # NoFormat
  BY <1>1 DEF CallState, Inbox
<1>3. /\ pc[c] = "streaming" /\ pc'[c] = "unwinding" /\ rendered' = rendered
      /\ inbox'[c] = Tail(inbox[c]) /\ yielded' = yielded /\ produced' = produced
      /\ cancelled'[c] = TRUE
      /\ Head(inbox[c]) # "token"
      /\ UNCHANGED <<jobs, running, future, chatFormat, savedFormat, closer>>
  BY <1>1 DEF StreamEnded, Unwind, TypeOK, modelVars, poolVars
<1>4. PICK unread \in 0 .. Len(inbox[c]) :
          /\ produced[c] = yielded[c] + unread
          /\ \A i \in DOMAIN inbox[c] : inbox[c][i] = "token" <=> i <= unread
  BY <1>2 DEF Inbox
<1>5. unread = 0 /\ produced[c] = yielded[c]
  BY <1>1, <1>2, <1>3, <1>4, InboxHead
<1>6. Inbox(c)'
  <2>1. \A i \in DOMAIN Tail(inbox[c]) : ~(i <= 0) /\ Tail(inbox[c])[i] # "token"
    BY <1>1, <1>2, <1>4, <1>5, InboxHead
  <2>2. 0 \in 0 .. Len(Tail(inbox[c])) /\ produced[c] = yielded[c] + 0
    BY <1>1, <1>2, <1>5, InboxHead
  <2> QED
    BY <1>2, <1>3, <2>1, <2>2 DEF Inbox
<1>7. CallState(c)'
  BY <1>1, <1>2, <1>3, <1>5, <1>6 DEF CallState, Early, Live
<1>8. SameElsewhere(c)
  BY <1>3 DEF StreamEnded, Unwind, SameElsewhere, TypeOK
<1>9. ASSUME NEW b \in Job, b.by = c, Fits(b) PROVE Fits(b)'
  BY <1>1, <1>3, <1>9, CallsAssumption DEF Fits
<1>10. \A b \in Job : b.by = c /\ QueuedJob(b) => QueuedJob(b)'
  BY <1>1, <1>3, <1>9, CallsAssumption DEF QueuedJob, Untouched, Uses, Fits
<1>11. ASSUME NEW b \in Job, b.by = c, RunningJob(b) PROVE RunningJob(b)'
  <2>1. b.kind # "stream"
    BY <1>1, <1>2, <1>5, <1>11, InboxHead DEF RunningJob
  <2> QED
    BY <1>3, <1>9, <1>11, <2>1 DEF RunningJob, Uses
<1> QED
  BY <1>3, <1>7, <1>8, <1>10, <1>11, OneCall

-----------------------------------------------------------------------------
(* Steps of the inference thread, and the shutdown.                        *)

LEMMA CallsShutdown ==
    ASSUME TypeOK, CallsInv, Shutdown
    PROVE  CallsInv'
<1>1. /\ jobs' = <<>> /\ DOMAIN jobs' = {} /\ running' = running
      /\ closer' = "closed" /\ pc' = pc /\ outcome' = outcome
      /\ UNCHANGED generationVars
  BY DEF Shutdown, loopVars, streamVars, generationVars
<1>2. \A o \in Owners : future'[o] = future[o] \/ future'[o] = "cancelled"
  BY DEF Shutdown
<1>3. \A j \in running : j \in Job /\ future'[j.by] = future[j.by]
  BY DEF Shutdown, CallsInv, OneJobEach, TypeOK, Job
<1>4. ASSUME NEW j \in running' PROVE RunningJob(j)'
  <2>1. RunningJob(j) /\ j \in Job /\ Fits(j)
    BY <1>1, <1>3, <1>4 DEF CallsInv, RunningJob
  <2>2. Fits(j)'
    BY <1>1, <1>3, <1>4, <2>1, FitsStays DEF Moved
  <2> QED
    BY <1>1, <2>1, <2>2 DEF RunningJob, Uses, generationVars
<1>5. \A c \in Calls : CallState(c)'
  <2> SUFFICES ASSUME NEW c \in Calls PROVE CallState(c)'
    OBVIOUS
  <2>1. Moved(c) /\ Concluded(c) /\ (future'[c] = future[c] \/ future'[c] # "ok")
    BY <1>1, <1>2 DEF Moved, Concluded, Owners
  <2> QED
    BY <1>1, <2>1, CallStays DEF CallsInv
<1>6. OneJobEach' /\ FormatRestored'
  BY <1>1 DEF CallsInv, OneJobEach, FormatRestored, generationVars
<1> QED
  BY <1>1, <1>4, <1>5, <1>6 DEF CallsInv

(* The oldest job starts.                                                  *)
LEMMA CallsStart ==
    ASSUME TypeOK, CallsInv, NEW kind, Start(kind), NEW b \in Job, b = Head(jobs),
           SameElsewhere(b.by), RunningJob(b)', b.by \in Calls => CallState(b.by)',
           b.kind # "complete" => chatFormat' = chatFormat
    PROVE  CallsInv'
<1>1. /\ jobs # <<>> /\ jobs' = Tail(jobs) /\ running = {} /\ running' = {b}
      /\ closer' = closer
  BY DEF Start, WorkerFree
<1>2. /\ Len(jobs) \in Nat \ {0} /\ DOMAIN jobs = 1 .. Len(jobs) /\ b = jobs[1]
      /\ DOMAIN jobs' = 1 .. Len(jobs) - 1
      /\ \A i \in 1 .. Len(jobs) - 1 : jobs'[i] = jobs[i + 1]
      /\ \A i \in DOMAIN jobs : jobs[i] \in Job
  BY <1>1, EmptySeq, LenProperties, HeadTailProperties, JobsTyped DEF TypeOK
<1>3. \A i \in DOMAIN jobs' : i + 1 \in DOMAIN jobs /\ i + 1 # 1 /\ 1 \in DOMAIN jobs
  BY <1>2
<1>4. \A i \in DOMAIN jobs' : jobs'[i].by # b.by
  BY <1>2, <1>3 DEF CallsInv, OneJobEach
<1>5. OneJobEach'
  <2>1. \A i, k \in DOMAIN jobs' : jobs'[i].by = jobs'[k].by => i + 1 = k + 1
    BY <1>2, <1>3 DEF CallsInv, OneJobEach
  <2>2. \A i, k \in DOMAIN jobs' : i + 1 = k + 1 => i = k
    BY <1>2
  <2> QED
    BY <1>1, <1>4, <2>1, <2>2 DEF OneJobEach
<1>6. ASSUME NEW i \in DOMAIN jobs' PROVE QueuedJob(jobs[i])'
  <2>1. PICK q \in Job : q = jobs[i + 1] /\ q = jobs'[i] /\ QueuedJob(q) /\ q.by # b.by
    BY <1>2, <1>3, <1>4 DEF CallsInv
  <2>2. QueuedJob(q)'
    BY <1>1, <2>1, Elsewhere
  <2> QED
    BY <2>1, <2>2
<1>7. \A c \in Calls : CallState(c)'
  BY <1>1, Elsewhere DEF CallsInv
<1>8. FormatRestored'
  BY <1>1 DEF CallsInv, FormatRestored
<1> QED
  BY <1>1, <1>5, <1>6, <1>7, <1>8 DEF CallsInv

(* What the oldest job is when a generation, a load or a close starts.     *)
LEMMA Oldest ==
    ASSUME TypeOK, CallsInv, NEW kind, Start(kind)
    PROVE  /\ Head(jobs) \in Job /\ Head(jobs).kind = kind
           /\ QueuedJob(Head(jobs)) /\ running = {}
           /\ chatFormat = LoadedFormat
<1>1. jobs # <<>> /\ running = {} /\ Head(jobs).kind = kind
  BY DEF Start, WorkerFree
<1>2. Head(jobs) = jobs[1] /\ 1 \in DOMAIN jobs
  BY <1>1, EmptySeq, LenProperties, HeadTailProperties DEF TypeOK
<1>3. Head(jobs) \in Job
  BY <1>2, JobsTyped
<1>4. chatFormat = LoadedFormat
  BY <1>1 DEF CallsInv, FormatRestored
<1> QED
  BY <1>1, <1>2, <1>3, <1>4 DEF CallsInv

LEMMA CallsStartIdle ==
    ASSUME TypeOK, CallsInv, StartLoad \/ StartClose
    PROVE  CallsInv'
<1>1. PICK kind \in {"load", "close"} : Start(kind)
  BY DEF StartLoad, StartClose
<1>2. PICK b \in Job : b = Head(jobs) /\ b.kind = kind /\ QueuedJob(b)
  BY <1>1, Oldest
<1>3. /\ pc' = pc /\ outcome' = outcome /\ future' = future /\ closer' = closer
      /\ UNCHANGED generationVars
  BY DEF StartLoad, StartClose, Start, modelVars, streamVars, loopVars, generationVars
<1>4. SameElsewhere(b.by)
  BY <1>3 DEF SameElsewhere, generationVars
<1>5. RunningJob(b)'
  BY <1>1, <1>2, <1>3 DEF QueuedJob, RunningJob, Uses, Fits
<1>6. b.by \in Calls => CallState(b.by)'
  BY <1>3, CallStays DEF CallsInv, Moved, Concluded
<1> QED
  BY <1>1, <1>2, <1>3, <1>4, <1>5, <1>6, CallsStart DEF generationVars

(* A generation starts: the call it is for is rendered for the first time. *)
LEMMA CallsStartGeneration ==
    ASSUME TypeOK, CallsInv, StartCompletion \/ StartStream
    PROVE  /\ CallsInv'
           /\ \E c \in Calls : /\ c = Head(jobs).by /\ rendered[c] = NoFormat
                               /\ rendered' = [rendered EXCEPT ![c] = Wanted[c]]
<1>1. PICK kind \in {"complete", "stream"} :
          /\ Start(kind)
          /\ StartCompletion => kind = "complete"
          /\ StartStream => kind = "stream"
  BY DEF StartCompletion, StartStream, Start
<1>2. PICK b \in Job : /\ b = Head(jobs) /\ b.kind = kind /\ QueuedJob(b)
                       /\ chatFormat = LoadedFormat
  BY <1>1, Oldest
<1> DEFINE c == b.by
<1>3. /\ c \in Calls /\ Untouched(c) /\ CallState(c) /\ Fits(b)
      /\ kind = "stream" => c \in StreamCalls
      /\ kind = "complete" => c \notin StreamCalls
  BY <1>1, <1>2, CallsAssumption DEF QueuedJob, Uses, Fits, CallsInv
<1>4. SwapFormat(c) = Wanted[c] /\ SwapFormat(c) # NoFormat
  BY <1>2, <1>3, FormatsAssumption DEF SwapFormat, Wanted, LoadedFormat
<1>5. /\ rendered' = [rendered EXCEPT ![c] = Wanted[c]]
      /\ rendered'[c] # NoFormat
      /\ pc' = pc /\ outcome' = outcome /\ future' = future /\ closer' = closer
      /\ UNCHANGED streamVars
      /\ kind = "complete" => savedFormat' = chatFormat
      /\ kind = "stream" => chatFormat' = chatFormat
  BY <1>1, <1>2, <1>3, <1>4 DEF StartCompletion, StartStream, Start, loopVars, TypeOK
<1>6. SameElsewhere(b.by)
  BY <1>5 DEF SameElsewhere, streamVars, TypeOK
<1>7. kind = "stream" => produced[c] = 0 /\ yielded[c] = 0 /\ Len(inbox[c]) = 0
  BY <1>3, EmptySeq DEF Untouched
<1>8. RunningJob(b)'
  <2>1. Fits(b)'
    BY <1>3, <1>5 DEF Fits
  <2> QED
    BY <1>1, <1>2, <1>5, <1>7, <2>1 DEF RunningJob, streamVars
<1>9. CallState(c)'
  <2>1. pc[c] \notin Early \cup {"loading"}
    BY <1>1, <1>2, <1>3, CallsAssumption DEF Fits, Early
  <2>2. c \in StreamCalls => Inbox(c)'
    BY <1>3, <1>5 DEF CallState, Inbox, streamVars
  <2> QED
    BY <1>3, <1>5, <2>1, <2>2 DEF CallState, streamVars
<1>10. CallsInv'
  BY <1>1, <1>2, <1>5, <1>6, <1>8, <1>9, CallsStart
<1> QED
  BY <1>2, <1>3, <1>5, <1>10 DEF Untouched

(* A job returns: its call, if it still waits, is told.                    *)
LEMMA CallsReturn ==
    ASSUME TypeOK, CallsInv, OneAtATime, NEW job \in running,
           NEW how \in {"ok", "failed"}, Return(job, how),
           UNCHANGED <<rendered, streamVars>>,
           IF job.kind = "complete" THEN chatFormat' = savedFormat
                                    ELSE chatFormat' \in {chatFormat, LoadedFormat}
    PROVE  CallsInv'
<1>1. job \in Job /\ RunningJob(job) /\ running' = {} /\ job.by \in Owners
  BY DEF TypeOK, CallsInv, Return, OneAtATime, Job
<1>2. /\ jobs' = jobs /\ closer' = closer /\ pc' = pc /\ outcome' = outcome
      /\ \A o \in Owners \ {job.by} : future'[o] = future[o]
      /\ future'[job.by] = future[job.by] \/ future'[job.by] = how
  BY <1>1 DEF Return, loopVars, TypeOK
<1>3. SameElsewhere(job.by)
  BY <1>2 DEF SameElsewhere, streamVars, Owners
<1>4. /\ \A i \in DOMAIN jobs : jobs[i] \in Job /\ jobs[i].by # job.by
      /\ OneJobEach'
  BY <1>1, <1>2, JobsTyped DEF CallsInv, OneJobEach
<1>5. ASSUME NEW i \in DOMAIN jobs' PROVE QueuedJob(jobs[i])'
  <2>1. PICK q \in Job : q = jobs[i] /\ q = jobs'[i] /\ QueuedJob(q) /\ q.by # job.by
    BY <1>2, <1>4 DEF CallsInv
  <2>2. QueuedJob(q)'
    BY <1>2, <1>3, <2>1, Elsewhere
  <2> QED
    BY <2>1, <2>2
<1>6. ASSUME NEW c \in Calls PROVE CallState(c)'
  <2>1. CASE c # job.by
    BY <1>2, <1>3, <2>1, Elsewhere DEF CallsInv
  <2>2. CASE c = job.by
    <3>1. pc[c] = "generating" => rendered[c] # NoFormat
      BY <1>1, <2>2, CallsAssumption DEF RunningJob, Fits, Uses, CallsInv, CallState
    <3>2. c \in StreamCalls /\ Inbox(c) => Inbox(c)'
      BY DEF Inbox, streamVars
    <3>3. Untouched(c) => Untouched(c)'
      BY DEF Untouched, streamVars
    <3> QED
      BY <1>2, <3>1, <3>2, <3>3 DEF CallsInv, CallState, streamVars
  <2> QED
    BY <2>1, <2>2
<1>7. FormatRestored'
  <2>1. CASE job.kind = "complete"
    BY <1>1, <2>1 DEF RunningJob, FormatRestored
  <2>2. CASE job.kind # "complete"
    BY <2>2 DEF CallsInv, FormatRestored, OneAtATime
  <2> QED
    BY <2>1, <2>2
<1> QED
  BY <1>1, <1>4, <1>5, <1>6, <1>7 DEF CallsInv

(* A producer at work has put nothing but tokens into its queue.           *)
LEMMA Producing ==
    ASSUME TypeOK, CallsInv, NEW job \in running, job.kind = "stream"
    PROVE  /\ job \in Job /\ job.by \in StreamCalls /\ job.by \in Calls
           /\ RunningJob(job) /\ rendered[job.by] # NoFormat
           /\ pc[job.by] \notin Early \cup {"loading"}
           /\ inbox[job.by] \in Seq(Items) /\ Len(inbox[job.by]) \in Nat
           /\ DOMAIN inbox[job.by] = 1 .. Len(inbox[job.by])
           /\ produced[job.by] \in Nat /\ yielded[job.by] \in Nat
           /\ produced[job.by] = yielded[job.by] + Len(inbox[job.by])
           /\ \A i \in DOMAIN inbox[job.by] : inbox[job.by][i] = "token"
<1>1. job \in Job /\ RunningJob(job)
  BY DEF TypeOK, CallsInv
<1>2. /\ job.by \in StreamCalls /\ job.by \in Calls
      /\ pc[job.by] \notin Early \cup {"loading"}
      /\ rendered[job.by] # NoFormat
      /\ produced[job.by] = yielded[job.by] + Len(inbox[job.by])
  BY <1>1, CallsAssumption DEF RunningJob, Fits, Uses, Early
<1>3. inbox[job.by] \in Seq(Items) /\ produced[job.by] \in Nat /\ yielded[job.by] \in Nat
  BY <1>2 DEF TypeOK, Items
<1>4. Len(inbox[job.by]) \in Nat /\ DOMAIN inbox[job.by] = 1 .. Len(inbox[job.by])
  BY <1>3, LenProperties
<1>5. PICK unread \in 0 .. Len(inbox[job.by]) :
          /\ produced[job.by] = yielded[job.by] + unread
          /\ \A i \in DOMAIN inbox[job.by] : inbox[job.by][i] = "token" <=> i <= unread
  BY <1>2 DEF CallsInv, CallState, Inbox
<1>6. unread = Len(inbox[job.by])
  BY <1>2, <1>3, <1>4, <1>5
<1>7. \A i \in DOMAIN inbox[job.by] : inbox[job.by][i] = "token"
  BY <1>4, <1>5, <1>6
<1> QED
  BY <1>1, <1>2, <1>3, <1>4, <1>7

LEMMA CallsProduce ==
    ASSUME TypeOK, CallsInv, NEW job \in running, ProduceToken(job)
    PROVE  CallsInv'
<1>1. PICK c \in StreamCalls : c = job.by
  BY Producing DEF ProduceToken
<1>2. /\ c \in Calls /\ rendered[c] # NoFormat /\ pc[c] \notin Early \cup {"loading"}
      /\ inbox[c] \in Seq(Items) /\ Len(inbox[c]) \in Nat
      /\ DOMAIN inbox[c] = 1 .. Len(inbox[c])
      /\ produced[c] \in Nat /\ yielded[c] \in Nat
      /\ produced[c] = yielded[c] + Len(inbox[c])
      /\ \A i \in DOMAIN inbox[c] : inbox[c][i] = "token"
  BY <1>1, Producing DEF ProduceToken
<1>3. /\ inbox'[c] = Append(inbox[c], "token") /\ produced'[c] = produced[c] + 1
      /\ ~cancelled[c]
      /\ UNCHANGED <<pc, outcome, future, rendered, chatFormat, savedFormat, jobs,
                     running, cancelled, yielded, closer>>
  BY <1>1 DEF ProduceToken, TypeOK, loopVars, modelVars, poolVars
<1>4. /\ Len(inbox'[c]) = Len(inbox[c]) + 1
      /\ DOMAIN inbox'[c] = 1 .. Len(inbox[c]) + 1
      /\ \A i \in 1 .. Len(inbox[c]) + 1 : inbox'[c][i] = "token"
  <2>1. "token" \in Items
    BY DEF Items
  <2> QED
    BY <1>2, <1>3, <2>1, AppendProperties, LenProperties
<1>5. Inbox(c)'
  <2>1. /\ Len(inbox[c]) + 1 \in 0 .. Len(inbox'[c])
        /\ produced'[c] = yielded'[c] + (Len(inbox[c]) + 1)
        /\ \A i \in DOMAIN inbox'[c] :
              inbox'[c][i] = "token" <=> i <= Len(inbox[c]) + 1
    BY <1>2, <1>3, <1>4
  <2> QED
    BY <1>2, <1>3, <2>1 DEF Inbox
<1>6. outcome[c] # "ok"
  BY <1>2, <1>3 DEF CallsInv, CallState
<1>7. CallState(c)'
  BY <1>2, <1>3, <1>5, <1>6 DEF CallsInv, CallState
<1>8. SameElsewhere(c)
  BY <1>1, <1>3 DEF ProduceToken, SameElsewhere, TypeOK
<1>9. \A b \in Job : b.by = c /\ QueuedJob(b) => QueuedJob(b)'
  BY <1>2, <1>3 DEF QueuedJob, Fits, Uses, Untouched
<1>10. ASSUME NEW b \in Job, b.by = c, RunningJob(b) PROVE RunningJob(b)'
  <2>1. b.kind = "stream" => produced'[c] = yielded'[c] + Len(inbox'[c])
    BY <1>2, <1>3, <1>4
  <2> QED
    BY <1>3, <1>10, <2>1 DEF RunningJob, Fits, Uses
<1> QED
  BY <1>2, <1>3, <1>7, <1>8, <1>9, <1>10, OneCall

(* The end follows the tokens.                                             *)
LEMMA EndAppended ==
    ASSUME NEW s \in Seq(Items), NEW last \in {<<"DONE">>, <<"exception", "DONE">>}
    PROVE  /\ Len(s \o last) \in Nat /\ Len(s \o last) >= Len(s) /\ Len(s) \in Nat
           /\ DOMAIN (s \o last) = 1 .. Len(s \o last) /\ DOMAIN s = 1 .. Len(s)
           /\ \A i \in DOMAIN s : (s \o last)[i] = s[i]
           /\ \A i \in DOMAIN (s \o last) : i > Len(s) => (s \o last)[i] # "token"
<1>1. last \in Seq(Items) /\ Len(last) \in {1, 2} /\ \A i \in 1 .. Len(last) : last[i] # "token"
  <2>1. CASE last = <<"DONE">>
    BY <2>1 DEF Items
  <2>2. CASE last = <<"exception", "DONE">>
    <3>1. Len(last) = 2 /\ last[1] = "exception" /\ last[2] = "DONE" /\ last \in Seq(Items)
      BY <2>2 DEF Items
    <3>2. \A i \in 1 .. 2 : i = 1 \/ i = 2
      OBVIOUS
    <3> QED
      BY <3>1, <3>2
  <2> QED
    BY <2>1, <2>2
<1>2. /\ s \o last \in Seq(Items)
      /\ Len(s \o last) = Len(s) + Len(last)
      /\ \A i \in 1 .. Len(s) + Len(last) :
            (s \o last)[i] = IF i <= Len(s) THEN s[i] ELSE last[i - Len(s)]
  BY <1>1, ConcatProperties
<1>3. /\ Len(s) \in Nat /\ DOMAIN s = 1 .. Len(s)
      /\ DOMAIN (s \o last) = 1 .. Len(s \o last)
  BY <1>2, LenProperties
<1>4. ASSUME NEW i \in DOMAIN (s \o last), i > Len(s) PROVE (s \o last)[i] # "token"
  <2>1. i - Len(s) \in 1 .. Len(last) /\ (s \o last)[i] = last[i - Len(s)]
    BY <1>1, <1>2, <1>3, <1>4
  <2> QED
    BY <1>1, <2>1
<1>5. \A i \in DOMAIN s : (s \o last)[i] = s[i]
  BY <1>1, <1>2, <1>3
<1>6. Len(s \o last) \in Nat /\ Len(s \o last) >= Len(s)
  BY <1>1, <1>2, <1>3
<1> QED
  BY <1>3, <1>4, <1>5, <1>6

LEMMA CallsStop ==
    ASSUME TypeOK, CallsInv, OneAtATime, NEW job \in running, StopProducing(job)
    PROVE  CallsInv'
<1>1. PICK c \in StreamCalls : c = job.by
  BY Producing DEF StopProducing
<1>2. /\ c \in Calls /\ rendered[c] # NoFormat /\ pc[c] \notin Early \cup {"loading"}
      /\ inbox[c] \in Seq(Items) /\ Len(inbox[c]) \in Nat
      /\ DOMAIN inbox[c] = 1 .. Len(inbox[c])
      /\ produced[c] = yielded[c] + Len(inbox[c])
      /\ \A i \in DOMAIN inbox[c] : inbox[c][i] = "token"
      /\ job \in Job /\ RunningJob(job) /\ job.kind = "stream"
  BY <1>1, Producing DEF StopProducing
<1>3. PICK last \in {<<"DONE">>, <<"exception", "DONE">>} : inbox'[c] = inbox[c] \o last
  BY <1>1 DEF StopProducing, TypeOK
<1>4. /\ UNCHANGED <<pc, outcome, future, rendered, chatFormat, savedFormat, jobs,
                     cancelled, produced, yielded, closer>>
      /\ running' = {[job EXCEPT !.kind = "leaving"]}
  BY DEF StopProducing, loopVars, modelVars, OneAtATime
<1>5. PICK b \in Job : /\ b = [job EXCEPT !.kind = "leaving"]
                       /\ b.by = c /\ b.kind = "leaving"
  <2> DEFINE left == [job EXCEPT !.kind = "leaving"]
  <2>1. left \in Job /\ left.by = job.by /\ left.kind = "leaving"
    BY <1>2 DEF Job
  <2> QED
    BY <1>1, <2>1
<1>6. Inbox(c)'
  <2> DEFINE s == inbox[c]
             t == s \o last
  <2>1. /\ Len(t) \in Nat /\ Len(t) >= Len(s) /\ DOMAIN t = 1 .. Len(t)
        /\ \A i \in DOMAIN s : t[i] = s[i]
        /\ \A i \in DOMAIN t : i > Len(s) => t[i] # "token"
    BY <1>2, EndAppended
  <2> HIDE DEF t
  <2>2. \A i \in DOMAIN t : t[i] = "token" <=> i <= Len(s)
    BY <1>2, <2>1
  <2>3. Len(s) \in 0 .. Len(t)
    BY <1>2, <2>1
  <2>4. inbox'[c] = t
    BY <1>3 DEF t
  <2> QED
    BY <1>2, <1>4, <2>2, <2>3, <2>4 DEF Inbox
<1>7. CallState(c)'
  BY <1>2, <1>4, <1>6 DEF CallsInv, CallState
<1>8. SameElsewhere(c)
  BY <1>1, <1>4 DEF StopProducing, SameElsewhere, TypeOK
<1>9. RunningJob(b)'
  BY <1>1, <1>2, <1>4, <1>5 DEF RunningJob, Fits, Uses
<1>10. /\ \A i \in DOMAIN jobs : jobs[i] \in Job /\ jobs[i].by # c
       /\ OneJobEach'
  BY <1>1, <1>4, <1>5, JobsTyped DEF CallsInv, OneJobEach
<1>11. ASSUME NEW i \in DOMAIN jobs' PROVE QueuedJob(jobs[i])'
  <2>1. PICK q \in Job : q = jobs[i] /\ q = jobs'[i] /\ QueuedJob(q) /\ q.by # c
    BY <1>4, <1>10 DEF CallsInv
  <2>2. QueuedJob(q)'
    BY <1>4, <1>8, <2>1, Elsewhere
  <2> QED
    BY <2>1, <2>2
<1>12. \A d \in Calls : CallState(d)'
  BY <1>4, <1>7, <1>8, Elsewhere DEF CallsInv
<1>13. FormatRestored'
  BY <1>2, <1>4 DEF CallsInv, FormatRestored, OneAtATime
<1> QED
  BY <1>4, <1>5, <1>9, <1>10, <1>11, <1>12, <1>13 DEF CallsInv

-----------------------------------------------------------------------------
(* The invariant is inductive.                                             *)

LEMMA CallsQuiet ==
    ASSUME TypeOK, CallsInv, SlotInv, NEW c \in Calls,
           \/ Reject(c) \/ EnterAndWait(c) \/ EnterAfterShutdown(c)
           \/ CompletionReturned(c) \/ CompletionTimedOut(c) \/ CancelledInQueue(c)
           \/ CancelledWhenGranted(c) \/ CancelledInJob(c)
           \/ StreamUnwound(c) \/ CancelledInUnwind(c)
    PROVE  CallsInv'
<1> USE DEF modelVars, poolVars, streamVars, generationVars
<1>1. CASE Reject(c) \/ EnterAndWait(c) \/ EnterAfterShutdown(c) \/ CancelledInQueue(c)
  <2>1. /\ Fewer
        /\ UNCHANGED <<running, future, closer, generationVars>>
    BY <1>1, SameFewer DEF Reject, EnterAndWait, EnterAfterShutdown, CancelledInQueue
  <2>2. \A d \in Calls : Moved(d) /\ Concluded(d)
    BY <1>1 DEF Reject, EnterAndWait, EnterAfterShutdown, CancelledInQueue,
                Moved, Concluded, Early, TypeOK
  <2> QED
    BY <2>1, <2>2, Quiet
<1>2. CASE CompletionReturned(c) \/ CancelledWhenGranted(c)
  <2>1. /\ Fewer
        /\ UNCHANGED <<running, future, closer, generationVars>>
    BY <1>2, SameFewer DEF CompletionReturned, CancelledWhenGranted
  <2>2. \A d \in Calls : Moved(d) /\ Concluded(d)
    BY <1>2, FinishMoves DEF CompletionReturned, CancelledWhenGranted
  <2> QED
    BY <2>1, <2>2, Quiet
<1>3. CASE CompletionTimedOut(c) \/ CancelledInJob(c)
  <2>1. pc'[c] = "done" /\ \A d \in Calls : Moved(d) /\ Concluded(d)
    BY <1>3, FinishMoves DEF CompletionTimedOut, CancelledInJob
  <2>2. /\ DropJob(c)
        /\ UNCHANGED <<running, closer, generationVars>>
        /\ \A d \in Calls : future'[d] = future[d] \/ pc'[d] = "done"
    BY <1>3, <2>1 DEF CompletionTimedOut, CancelledInJob, DropJob, TypeOK, Owners
  <2>3. Fewer
    <3>1. CASE UNCHANGED jobs
      BY <3>1, SameFewer
    <3>2. CASE \E n \in DOMAIN jobs : jobs' = RemoveAt(jobs, n)
      <4>1. PICK n \in DOMAIN jobs : jobs' = RemoveAt(jobs, n)
        BY <3>2
      <4> DEFINE old == [i \in DOMAIN jobs' |-> IF i < n THEN i ELSE i + 1]
      <4>2. /\ jobs' \in Seq(Job) /\ Len(jobs') = Len(jobs) - 1
            /\ \A i \in 1 .. Len(jobs) - 1 :
                  jobs'[i] = IF i < n THEN jobs[i] ELSE jobs[i + 1]
        BY <4>1, RemoveAtFacts DEF TypeOK
      <4>3. /\ n \in 1 .. Len(jobs) /\ Len(jobs) \in Nat
            /\ DOMAIN jobs = 1 .. Len(jobs) /\ DOMAIN jobs' = 1 .. Len(jobs) - 1
        BY <4>2, LenProperties DEF TypeOK
      <4>4. /\ old \in [DOMAIN jobs' -> DOMAIN jobs]
            /\ \A i \in DOMAIN jobs' : jobs'[i] = jobs[old[i]]
            /\ \A i, k \in DOMAIN jobs' : old[i] = old[k] => i = k
        BY <4>2, <4>3
      <4> QED
        BY <4>4 DEF Fewer
    <3> QED
      BY <2>2, <3>1, <3>2 DEF DropJob
  <2> QED
    BY <2>1, <2>2, <2>3, Quiet
<1>4. CASE StreamUnwound(c) \/ CancelledInUnwind(c)
  <2>1. /\ FinishStream(c) /\ Fewer
        /\ UNCHANGED <<outcome, running, future, closer, generationVars>>
    BY <1>4, SameFewer DEF StreamUnwound, CancelledInUnwind, FinishStream
  <2>2. \A d \in Calls : Moved(d) /\ Concluded(d)
    BY <2>1, PassMoves DEF FinishStream, Concluded
  <2> QED
    BY <2>1, <2>2, Quiet
<1> QED
  BY <1>1, <1>2, <1>3, <1>4

LEMMA CallsStream ==
    ASSUME TypeOK, CallsInv, NEW c \in Calls,
           \/ StreamTimedOut(c) \/ CancelledInStream(c)
           \/ c \in StreamCalls /\ Consume(c)
    PROVE  CallsInv'
<1> USE DEF modelVars, poolVars, streamVars
<1>1. c \in StreamCalls
  BY DEF StreamTimedOut, CancelledInStream, CallsInv, CallState
<1>2. /\ pc[c] \in {"streaming", "yielded"}
      /\ UNCHANGED <<jobs, running, future, rendered, chatFormat, savedFormat,
                     inbox, produced, yielded, closer>>
      /\ outcome' = outcome \/ \E how \in Outcomes \ {"ok"} :
                                  outcome' = [outcome EXCEPT ![c] = how]
      /\ cancelled' = cancelled \/ cancelled' = [cancelled EXCEPT ![c] = TRUE]
  BY DEF StreamTimedOut, CancelledInStream, Consume, TokenRequested, StreamClosed, Unwind,
         Outcomes
<1>3. PICK to \in {"streaming", "unwinding"} : pc' = [pc EXCEPT ![c] = to]
  BY DEF StreamTimedOut, CancelledInStream, Consume, TokenRequested, StreamClosed, Unwind
<1> QED
  BY <1>1, <1>2, <1>3, CallsStreamMoved

(* A call that is handed the slot, or whose load has returned, goes on or  *)
(* gives up.                                                               *)
LEMMA CallsResumed ==
    ASSUME TypeOK, CallsInv, SlotInv, NEW c \in Calls,
           EnterAndProceed(c) \/ SlotGranted(c) \/ LoadReturned(c)
    PROVE  CallsInv'
<1>1. CASE Proceed(c) /\ pc' = [pc EXCEPT ![c] = PcAfterProceed(c)] /\ UNCHANGED outcome
  <2>1. /\ UNCHANGED <<modelVars, streamVars, closer>>
        /\ \/ pc[c] \in {"start", "granted"}
           \/ pc[c] = "loading" /\ future[c] = "ok" /\ llama # 0
    <3>1. CASE EnterAndProceed(c)
      BY <3>1 DEF EnterAndProceed
    <3>2. CASE SlotGranted(c)
      BY <3>2 DEF SlotGranted
    <3>3. CASE LoadReturned(c)
      <4>1. pc[c] = "loading" /\ UNCHANGED <<modelVars, streamVars, closer>>
        BY <3>3 DEF LoadReturned
      <4>2. PcAfterProceed(c) # "done"
        BY DEF PcAfterProceed
      <4>3. \A how : ~Finish(c, how)
        <5> SUFFICES ASSUME NEW how, Finish(c, how) PROVE FALSE
          OBVIOUS
        <5>1. pc'[c] = "done"
          BY <4>1, PassMoves DEF Finish
        <5> QED
          BY <1>1, <4>2, <5>1 DEF TypeOK
      <4>4. future[c] = "ok" /\ llama # 0
        BY <3>3, <4>3 DEF LoadReturned
      <4> QED
        BY <4>1, <4>4
    <3> QED
      BY <3>1, <3>2, <3>3
  <2> QED
    BY <1>1, <2>1, CallsProceed
<1>2. CASE \E how \in Outcomes \ {"ok"} : Finish(c, how) /\ UNCHANGED poolVars
                                         /\ pc[c] # "queued"
  <2>1. UNCHANGED <<jobs, running, future, generationVars, closer>>
    BY <1>2 DEF EnterAndProceed, SlotGranted, LoadReturned, modelVars, poolVars, streamVars,
                generationVars
  <2>2. \A d \in Calls : Moved(d) /\ Concluded(d)
    BY <1>2, FinishMoves
  <2> QED
    BY <2>1, <2>2, SameFewer, Quiet
<1>3. CASE EnterAndProceed(c)
  BY <1>1, <1>3 DEF EnterAndProceed
<1>4. CASE SlotGranted(c)
  BY <1>1, <1>2, <1>4 DEF SlotGranted, Outcomes
<1>5. CASE LoadReturned(c)
  <2>1. \/ Proceed(c) /\ pc' = [pc EXCEPT ![c] = PcAfterProceed(c)] /\ UNCHANGED outcome
        \/ \E how \in Outcomes \ {"ok"} : Finish(c, how) /\ UNCHANGED poolVars
    BY <1>5 DEF LoadReturned, Outcomes
  <2>2. pc[c] # "queued"
    BY <1>5 DEF LoadReturned
  <2> QED
    BY <1>1, <1>2, <2>1, <2>2
<1> QED
  BY <1>3, <1>4, <1>5

LEMMA CallsWorker ==
    ASSUME TypeOK, CallsInv, OneAtATime, Worker
    PROVE  CallsInv'
<1>1. CASE StartLoad \/ StartClose
  BY <1>1, CallsStartIdle
<1>2. CASE StartCompletion \/ StartStream
  BY <1>2, CallsStartGeneration
<1>3. ASSUME NEW job \in running, FinishLoad(job) PROVE CallsInv'
  <2>1. PICK how \in {"ok", "failed"} : Return(job, how)
    BY <1>3 DEF FinishLoad
  <2>2. /\ UNCHANGED <<rendered, streamVars>> /\ job.kind = "load"
        /\ chatFormat' \in {chatFormat, LoadedFormat}
    BY <1>3 DEF FinishLoad, modelVars
  <2> QED
    BY <2>1, <2>2, CallsReturn
<1>4. ASSUME NEW job \in running, FinishCompletion(job) PROVE CallsInv'
  <2>1. PICK how \in {"ok", "failed"} : Return(job, how)
    BY <1>4 DEF FinishCompletion
  <2> QED
    BY <1>4, <2>1, CallsReturn DEF FinishCompletion
<1>5. ASSUME NEW job \in running, FinishStreaming(job) PROVE CallsInv'
  BY <1>5, CallsReturn DEF FinishStreaming, modelVars
<1>6. ASSUME NEW job \in running, FinishClose(job) PROVE CallsInv'
  <2>1. PICK how \in {"ok", "failed"} : Return(job, how)
    BY <1>6 DEF FinishClose
  <2> QED
    BY <1>6, <2>1, CallsReturn DEF FinishClose, modelVars
<1>7. ASSUME NEW job \in running, StopProducing(job) PROVE CallsInv'
  BY <1>7, CallsStop
<1> QED
  BY <1>1, <1>2, <1>3, <1>4, <1>5, <1>6, <1>7 DEF Worker

LEMMA CallsInductive ==
    ASSUME TypeOK, SlotInv, NativeInv, CallsInv, [Next]_vars
    PROVE  CallsInv'
<1>1. ASSUME NEW c \in Calls, Enter(c) \/ Resume(c) \/ TimedOut(c) \/ Cancelled(c)
      PROVE  CallsInv'
  BY <1>1, CallsQuiet, CallsStream, CallsResumed, CallsToken, CallsStreamEnded
  DEF Enter, Resume, TimedOut, Cancelled
<1>2. ASSUME NEW c \in StreamCalls, Consume(c) PROVE CallsInv'
  BY <1>2, CallsStream, CallsAssumption
<1>3. CASE \E job \in running : ProduceToken(job)
  BY <1>3, CallsProduce
<1>4. CASE Close
  BY <1>4, CallsClose, CallsShutdown DEF Close, CloseUnloaded, CloseReturned
<1>5. CASE Worker
  BY <1>5, CallsWorker DEF NativeInv
<1>6. CASE UNCHANGED vars
  <2>1. UNCHANGED <<pc, outcome, jobs, running, future, closer, generationVars>>
    BY <1>6 DEF vars, loopVars, modelVars, poolVars, streamVars, generationVars
  <2>2. \A d \in Calls : Moved(d) /\ Concluded(d)
    BY <2>1 DEF Moved, Concluded
  <2> QED
    BY <2>1, <2>2, SameFewer, Quiet
<1> QED
  BY <1>1, <1>2, <1>3, <1>4, <1>5, <1>6 DEF Next

LEMMA CallsInitially == Init => CallsInv
<1> SUFFICES ASSUME Init PROVE CallsInv
  OBVIOUS
<1>1. jobs = <<>> /\ DOMAIN jobs = {} /\ running = {} /\ chatFormat = LoadedFormat
  BY DEF Init
<1>2. ASSUME NEW c \in Calls PROVE CallState(c)
  <2>1. Untouched(c) /\ pc[c] = "start" /\ outcome[c] = "none"
    BY <1>2 DEF Init, Untouched
  <2>2. c \in StreamCalls => Inbox(c)
    <3> SUFFICES ASSUME c \in StreamCalls PROVE Inbox(c)
      OBVIOUS
    <3>1. /\ inbox[c] = <<>> /\ produced[c] = 0 /\ yielded[c] = 0
          /\ Len(inbox[c]) = 0 /\ DOMAIN inbox[c] = {}
      BY DEF Init
    <3> QED
      BY <3>1 DEF Inbox
  <2> QED
    BY <2>1, <2>2 DEF CallState
<1> QED
  BY <1>1, <1>2 DEF CallsInv, OneJobEach, FormatRestored

LEMMA NativeInitially == Init => NativeInv
  BY DEF Init, NativeInv, OneAtATime, InstancesCounted, QueuedBeforeClose,
         HeldIsOpen, RunningIsOpen

ClientInv == TypeOK /\ SlotInv /\ NativeInv /\ CallsInv

LEMMA ClientAlways == Spec => []ClientInv
<1>1. Init => SlotInv /\ NativeInv /\ CallsInv
  BY SlotInitially, NativeInitially, CallsInitially
<1>2. TypeOK /\ SlotInv /\ NativeInv /\ CallsInv /\ [Next]_vars
          => SlotInv' /\ NativeInv' /\ CallsInv'
  BY SlotInductive, NativeInductive, CallsInductive
<1> QED
  BY <1>1, <1>2, TypeCorrect, PTL DEF Spec, ClientInv

(* A stream that ends normally has yielded every token its producer put    *)
(* into the queue, and a completion that ends normally was generated:      *)
(* stream and _run of bat/adapters/llama_cpp_client.py, whoever times out, *)
(* is cancelled or closes meanwhile.                                       *)
THEOREM NothingLostAlways == Spec => []NothingLost
<1>1. ClientInv => NothingLost
  BY DEF ClientInv, CallsInv, CallState, NothingLost
<1> QED
  BY <1>1, ClientAlways, PTL

-----------------------------------------------------------------------------
(* The refinement of NativeModel.                                          *)

InUse == {"complete", "stream", "leaving"}

LEMMA NativeInit == Init => Native!Init
<1> SUFFICES ASSUME Init PROVE Native!Init
  OBVIOUS
<1>1. Resident \in {{}, {1}}
  BY DEF Init, Resident
<1>2. Using = {}
  BY DEF Init, Using
<1>3. rendered = [c \in Calls |-> NoFormat]
  BY DEF Init
<1> QED
  BY <1>1, <1>2, <1>3 DEF Native!Init

(* Whose step it is that the model sees: of the inference thread.          *)
LEMMA NativeUnseen ==
    ASSUME UNCHANGED <<loads, freed, rendered, running>>
    PROVE  UNCHANGED Native!vars
BY DEF Native!vars, Resident, Using

(* One job runs, and using it means using its instance.                    *)
LEMMA UsingOne ==
    ASSUME OneAtATime, NEW job \in running
    PROVE  Using = IF job.kind \in InUse THEN {job.llama} ELSE {}
BY DEF OneAtATime, Using, InUse

LEMMA NativeReturned ==
    ASSUME OneAtATime, NEW job \in running, running' = running \ {job},
           UNCHANGED <<loads, freed, rendered>>
    PROVE  [Native!Next]_(Native!vars)
<1>1. Using' = {}
  BY DEF OneAtATime, Using
<1>2. Using = IF job.kind \in InUse THEN {job.llama} ELSE {}
  BY UsingOne
<1>3. UNCHANGED <<Resident, rendered>>
  BY DEF Resident
<1>4. CASE job.kind \in InUse
  BY <1>1, <1>2, <1>3, <1>4 DEF Native!Next, Native!End, Native!Idle
<1>5. CASE job.kind \notin InUse
  BY <1>1, <1>2, <1>3, <1>5 DEF Native!vars
<1> QED
  BY <1>4, <1>5

LEMMA NativeStarted ==
    ASSUME ClientInv, StartLoad \/ StartClose \/ StartCompletion \/ StartStream
    PROVE  [Native!Next]_(Native!vars)
<1>1. PICK kind \in {"load", "close", "complete", "stream"} : Start(kind)
  BY DEF StartLoad, StartClose, StartCompletion, StartStream
<1>2. PICK b \in Job : /\ b = Head(jobs) /\ b.kind = kind
                       /\ running = {} /\ running' = {b}
  BY <1>1, Oldest DEF ClientInv, Start
<1>3. /\ Using = {} /\ Native!Idle
      /\ Using' = IF kind \in InUse THEN {b.llama} ELSE {}
  BY <1>2 DEF Using, InUse, Native!Idle
<1>4. CASE StartLoad
  <2>1. kind = "load" /\ UNCHANGED <<loads, freed, rendered>>
    BY <1>2, <1>4 DEF StartLoad, Start, modelVars
  <2> QED
    BY <1>3, <2>1 DEF Native!vars, Resident, InUse
<1>5. CASE StartClose
  <2>1. /\ kind = "close" /\ UNCHANGED <<loads, rendered>>
        /\ freed' = freed \cup {b.llama}
    BY <1>2, <1>5 DEF StartClose, Start
  <2>2. Using' = {} /\ Resident' = Resident \ {b.llama}
    BY <1>3, <2>1 DEF Resident, InUse
  <2>3. CASE b.llama \in Resident
    BY <1>3, <2>1, <2>2, <2>3 DEF Native!Next, Native!Free
  <2>4. CASE b.llama \notin Resident
    BY <1>3, <2>1, <2>2, <2>4 DEF Native!vars
  <2> QED
    BY <2>3, <2>4
<1>6. CASE StartCompletion \/ StartStream
  <2>1. kind \in {"complete", "stream"} /\ UNCHANGED <<loads, freed>>
    BY <1>2, <1>6 DEF StartCompletion, StartStream, Start
  <2>2. PICK c \in Calls : /\ rendered[c] = NoFormat
                          /\ rendered' = [rendered EXCEPT ![c] = Wanted[c]]
    BY <1>6, CallsStartGeneration DEF ClientInv
  <2>3. b.llama \in Resident /\ Resident' = Resident
    <3>1. b = jobs[1] /\ 1 \in DOMAIN jobs
      BY <1>1, <1>2, EmptySeq, LenProperties, HeadTailProperties DEF Start, ClientInv, TypeOK
    <3> QED
      BY <1>2, <2>1, <3>1 DEF ClientInv, NativeInv, QueuedBeforeClose, Uses, Resident
  <2>4. Native!Begin(c, b.llama)
    BY <1>3, <2>1, <2>2, <2>3 DEF Native!Begin, InUse
  <2> QED
    BY <2>2, <2>3, <2>4 DEF Native!Next
<1> QED
  BY <1>4, <1>5, <1>6

LEMMA NativeLoaded ==
    ASSUME ClientInv, NEW job \in running, FinishLoad(job)
    PROVE  [Native!Next]_(Native!vars)
<1>1. OneAtATime /\ running' = running \ {job} /\ job.kind = "load" /\ rendered' = rendered
  BY DEF ClientInv, NativeInv, FinishLoad, Return, modelVars
<1>2. CASE UNCHANGED <<loads, freed>>
  BY <1>1, <1>2, NativeReturned
<1>3. CASE loads' = loads + 1 /\ freed' = freed
  <2>1. Using = {} /\ Using' = {}
    BY <1>1, UsingOne DEF InUse, Using, OneAtATime
  <2>2. loads \in Nat /\ freed \subseteq 1 .. loads
    BY DEF ClientInv, TypeOK, NativeInv, InstancesCounted
  <2>3. loads + 1 \notin Resident /\ Resident' = Resident \cup {loads + 1}
    BY <1>3, <2>2 DEF Resident
  <2>4. Native!Load
    BY <1>1, <2>1, <2>3 DEF Native!Load, Native!Idle
  <2> QED
    BY <2>4 DEF Native!Next
<1> QED
  BY <1>2, <1>3 DEF FinishLoad, modelVars

LEMMA NativeStep == ClientInv /\ [Next]_vars => [Native!Next]_(Native!vars)
<1> SUFFICES ASSUME ClientInv, [Next]_vars PROVE [Native!Next]_(Native!vars)
  OBVIOUS
<1> USE DEF modelVars, poolVars
<1>1. ASSUME NEW c \in Calls, Enter(c) \/ Resume(c) \/ TimedOut(c) \/ Cancelled(c)
      PROVE  UNCHANGED <<loads, freed, rendered, running>>
  <2>1. CASE Enter(c)
    BY <2>1 DEF Enter, Reject, EnterAndWait, EnterAndProceed, EnterAfterShutdown,
                Proceed, Submit
  <2>2. CASE Resume(c)
    BY <2>2 DEF Resume, SlotGranted, LoadReturned, CompletionReturned, StreamEnded, Unwind,
                TokenReceived, StreamUnwound, FinishStream, Proceed, Submit
  <2>3. CASE TimedOut(c) \/ Cancelled(c)
    BY <2>3 DEF TimedOut, Cancelled, CompletionTimedOut, StreamTimedOut, CancelledInQueue,
                CancelledWhenGranted, CancelledInJob, CancelledInStream, CancelledInUnwind,
                Unwind, FinishStream, DropJob
  <2> QED
    BY <1>1, <2>1, <2>2, <2>3
<1>2. ASSUME NEW c \in StreamCalls, Consume(c)
      PROVE  UNCHANGED <<loads, freed, rendered, running>>
  BY <1>2 DEF Consume, TokenRequested, StreamClosed, Unwind
<1>3. ASSUME NEW job \in running, ProduceToken(job)
      PROVE  UNCHANGED <<loads, freed, rendered, running>>
  BY <1>3 DEF ProduceToken
<1>4. ASSUME Close
      PROVE  UNCHANGED <<loads, freed, rendered, running>>
  BY <1>4 DEF Close, CloseModel, CloseUnloaded, CloseReturned, Shutdown, Submit
<1>5. ASSUME NEW job \in running, StopProducing(job)
      PROVE  UNCHANGED Native!vars
  <2>1. /\ UNCHANGED <<loads, freed, rendered>> /\ OneAtATime /\ job.kind = "stream"
        /\ running' = {[job EXCEPT !.kind = "leaving"]} /\ job \in Job
    BY <1>5 DEF StopProducing, ClientInv, NativeInv, OneAtATime, TypeOK
  <2>2. [job EXCEPT !.kind = "leaving"].llama = job.llama
        /\ [job EXCEPT !.kind = "leaving"].kind = "leaving"
    BY <2>1 DEF Job
  <2>3. Using = {job.llama}
    BY <2>1, UsingOne DEF InUse
  <2>4. Using' = {job.llama}
    BY <2>1, <2>2 DEF Using
  <2> QED
    BY <2>1, <2>3, <2>4 DEF Native!vars, Resident
<1>6. ASSUME NEW job \in running,
             FinishCompletion(job) \/ FinishStreaming(job) \/ FinishClose(job)
      PROVE  [Native!Next]_(Native!vars)
  <2>1. /\ running' = running \ {job} /\ OneAtATime
        /\ UNCHANGED <<loads, freed, rendered>>
    BY <1>6 DEF FinishCompletion, FinishStreaming, FinishClose, Return, ClientInv, NativeInv
  <2> QED
    BY <2>1, NativeReturned
<1>7. CASE Worker
  BY <1>5, <1>6, <1>7, NativeStarted, NativeLoaded DEF Worker
<1>8. CASE UNCHANGED vars
  BY <1>8, NativeUnseen DEF vars
<1> QED
  BY <1>1, <1>2, <1>3, <1>4, <1>7, <1>8, NativeUnseen DEF Next

(* The client drives the binding as the binding demands: every step of it  *)
(* is one of NativeModel or changes nothing the binding sees, so native    *)
(* calls never overlap, none uses an instance that was freed, none is      *)
(* freed under one, and each is rendered once, with the template of its    *)
(* own caller.                                                             *)
THEOREM NativeModelImplemented == Spec => ImplementsNativeModel
  BY NativeInit, NativeStep, ClientAlways, PTL
  DEF Spec, ImplementsNativeModel, Native!Spec
=============================================================================
