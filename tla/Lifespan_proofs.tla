--------------------------- MODULE Lifespan_proofs ---------------------------
(* Nothing is used after it was closed, for any set of embed calls and any   *)
(* number of batches in each.                                                *)
EXTENDS Lifespan, SequenceTheorems, TLAPS

Jobs == [kind : {"load", "batch", "free"}, owner : Owners, llama : Nat]

(* An instance that a free job names is past, and no longer handed out.      *)
Condemned(instance) == instance \in 1 .. loads /\ instance # llama

JobInv(job) == job.kind = "free" => Condemned(job.llama)

(* The instance handed out is in memory, and so is the one the worker uses:  *)
(* only a job that the same worker runs later takes it away.                 *)
WorkerInv ==
    /\ loads \in Nat /\ resident \subseteq 1 .. loads /\ llama \in Nat
    /\ llama # None => llama \in resident
    /\ queue \in Seq(Jobs) /\ \A i \in DOMAIN queue : JobInv(queue[i])
    /\ running = NoJob \/ running \in Jobs
    /\ JobInv(running)
    /\ running.kind \in {"load", "batch"} /\ running.llama # None => running.llama \in resident

(* The purge loop lives between start-up and the first close.                *)
PurgeInv ==
    /\ purge # "none" => life \in {"serving", "stopping"}
    /\ life \in {"limiters", "pinging", "verifying", "connecting", "preloading",
                 "serving", "stopping"} => closers = Closers

LEMMA InitInv == Init => WorkerInv /\ PurgeInv
<1>1. <<>> \in Seq(Jobs)
    BY EmptySeq
<1>2. QED
    BY <1>1 DEF Init, EmbedderInit, WorkerInv, PurgeInv, JobInv, NoJob, Job, None

-----------------------------------------------------------------------------
(* The queue.                                                                *)

LEMMA Submitted ==
    ASSUME WorkerInv, NEW job \in Jobs, Submit(job)
    PROVE  /\ queue' \in Seq(Jobs)
           /\ \A i \in DOMAIN queue' : queue'[i] = job \/ \E k \in DOMAIN queue : queue'[i] = queue[k]
<1>1. queue \in Seq(Jobs)
    BY DEF WorkerInv
<1>2. CASE queue' = queue
    BY <1>1, <1>2
<1>3. CASE queue' = Append(queue, job)
  <2>1. /\ queue' \in Seq(Jobs) /\ Len(queue') = Len(queue) + 1 /\ Len(queue) \in Nat
        /\ \A i \in 1 .. Len(queue) : queue'[i] = queue[i]
        /\ queue'[Len(queue) + 1] = job
      BY <1>1, <1>3, AppendProperties, LenProperties
  <2>2. DOMAIN queue' = 1 .. Len(queue) + 1 /\ DOMAIN queue = 1 .. Len(queue)
      BY <1>1, <2>1, LenProperties
  <2>3. QED
      BY <2>1, <2>2
<1>4. QED
    BY <1>2, <1>3 DEF Submit

LEMMA Withdrawn ==
    ASSUME WorkerInv, NEW i \in DOMAIN queue, queue' = RemoveAt(queue, i)
    PROVE  /\ queue' \in Seq(Jobs)
           /\ \A j \in DOMAIN queue' : \E k \in DOMAIN queue : queue'[j] = queue[k]
<1> DEFINE before == SubSeq(queue, 1, i - 1)
           after == SubSeq(queue, i + 1, Len(queue))
<1>1. queue \in Seq(Jobs) /\ Len(queue) \in Nat /\ DOMAIN queue = 1 .. Len(queue) /\ i \in 1 .. Len(queue)
    BY LenProperties DEF WorkerInv
<1>2. \A j \in 1 .. Len(queue) : queue[j] \in Jobs
    BY <1>1, ElementOfSeq
<1>3. /\ before \in Seq(Jobs) /\ Len(before) = i - 1
      /\ \A j \in 1 .. i - 1 : before[j] = queue[j]
    BY <1>1, <1>2, SubSeqProperties
<1>4. /\ after \in Seq(Jobs) /\ Len(after) = Len(queue) - i
      /\ \A j \in 1 .. Len(queue) - i : after[j] = queue[j + i]
  <2>1. i + 1 \in Int /\ Len(queue) \in Int /\ \A j \in i + 1 .. Len(queue) : queue[j] \in Jobs
      BY <1>1, <1>2
  <2>2. /\ after \in Seq(Jobs)
        /\ Len(after) = IF i + 1 <= Len(queue) THEN Len(queue) - (i + 1) + 1 ELSE 0
        /\ \A j \in 1 .. Len(queue) - (i + 1) + 1 : after[j] = queue[i + 1 + j - 1]
      BY <2>1, SubSeqProperties
  <2>3. QED
      BY <1>1, <2>2
<1>5. queue' = before \o after
    BY DEF RemoveAt
<1> HIDE DEF before, after
<1>6. /\ queue' \in Seq(Jobs) /\ DOMAIN queue' = 1 .. Len(queue) - 1
      /\ \A j \in 1 .. Len(queue) - 1 : queue'[j] = IF j <= i - 1 THEN before[j] ELSE after[j - (i - 1)]
  <2>1. /\ before \o after \in Seq(Jobs) /\ Len(before \o after) = Len(before) + Len(after)
        /\ \A j \in 1 .. Len(before) + Len(after) : (before \o after)[j] =
               IF j <= Len(before) THEN before[j] ELSE after[j - Len(before)]
      BY <1>3, <1>4, ConcatProperties
  <2>2. Len(before) + Len(after) = Len(queue) - 1
      BY <1>1, <1>3, <1>4
  <2>3. DOMAIN (before \o after) = 1 .. Len(before \o after)
      BY <2>1, LenProperties
  <2>4. QED
      BY <1>3, <1>5, <2>1, <2>2, <2>3
<1>7. ASSUME NEW j \in DOMAIN queue' PROVE \E k \in DOMAIN queue : queue'[j] = queue[k]
  <2>1. CASE j <= i - 1
    <3>1. j \in 1 .. i - 1 /\ queue'[j] = queue[j] /\ j \in DOMAIN queue
        BY <1>1, <1>3, <1>6, <2>1
    <3>2. QED
        BY <3>1
  <2>2. CASE ~(j <= i - 1)
    <3>1. j - (i - 1) \in 1 .. Len(queue) - i /\ j - (i - 1) + i = j + 1 /\ j + 1 \in DOMAIN queue
        BY <1>1, <1>6, <2>2
    <3>2. queue'[j] = queue[j + 1]
        BY <1>1, <1>4, <1>6, <2>2, <3>1
    <3>3. QED
        BY <3>1, <3>2
  <2>3. QED
      BY <2>1, <2>2
<1>8. QED
    BY <1>6, <1>7

(* A step that leaves the worker alone and queues a harmless job, if any.    *)
LEMMA QueueMoved ==
    ASSUME WorkerInv, UNCHANGED <<llama, resident, loads, running>>,
           queue' \in Seq(Jobs),
           \A i \in DOMAIN queue' :
               queue'[i].kind # "free" \/ \E k \in DOMAIN queue : queue'[i] = queue[k]
    PROVE  WorkerInv'
  BY DEF WorkerInv, JobInv, Condemned

-----------------------------------------------------------------------------
(* The steps of the embedder.                                                *)

LEMMA CoroutineStep ==
    ASSUME WorkerInv, NEW c \in Embeds, EmbedCalled(c) \/ Coroutine(c) \/ EmbedCancelled(c)
    PROVE  WorkerInv'
<1>1. ASSUME NEW kind \in {"load", "batch"}, Submit(Job(kind, c, None)),
             UNCHANGED <<llama, resident, loads>>
      PROVE  WorkerInv'
  <2>1. Job(kind, c, None) \in Jobs /\ Job(kind, c, None).kind # "free"
      BY DEF Jobs, Job, Owners, None
  <2>2. UNCHANGED running
      BY <1>1 DEF Submit
  <2>3. QED
      BY <1>1, <2>1, <2>2, Submitted, QueueMoved
<1>2. CASE EmbedCalled(c) \/ Loaded(c)
    BY <1>1, <1>2 DEF EmbedCalled, Loaded
<1>3. ASSUME UNCHANGED <<llama, resident, loads, queue, running>> PROVE WorkerInv'
    BY <1>3 DEF WorkerInv, JobInv, Condemned
<1>4. CASE BatchEmbedded(c) \/ EmbedFailed(c)
    BY <1>1, <1>3, <1>4 DEF BatchEmbedded, EmbedFailed, executor
<1>5. CASE EmbedCancelled(c)
  <2>1. ASSUME NEW i \in DOMAIN queue, queue' = RemoveAt(queue, i) PROVE WorkerInv'
      BY <1>5, <2>1, Withdrawn, QueueMoved DEF EmbedCancelled
  <2>2. QED
      BY <1>3, <1>5, <2>1 DEF EmbedCancelled
<1>6. QED
    BY <1>2, <1>4, <1>5 DEF Coroutine

(* A job ends, and what it used stays.                                       *)
LEMMA Idled ==
    ASSUME WorkerInv, running' = NoJob, UNCHANGED <<llama, resident, loads, queue>>
    PROVE  WorkerInv'
<1>1. NoJob.kind = "none"
    BY DEF NoJob, Job
<1>2. \A job : JobInv(job)' <=> JobInv(job)
    BY DEF JobInv, Condemned
<1>3. JobInv(NoJob)'
    BY <1>1 DEF JobInv
<1>4. QED
    BY <1>1, <1>2, <1>3 DEF WorkerInv

LEMMA WorkerStep == ASSUME WorkerInv, Worker PROVE WorkerInv'
<1>1. CASE JobStarted
  <2> DEFINE job == Head(queue)
  <2>1. queue \in Seq(Jobs) /\ queue # <<>>
      BY <1>1 DEF JobStarted, WorkerInv
  <2>2. /\ Len(queue) \in Nat \ {0} /\ DOMAIN queue = 1 .. Len(queue)
        /\ job = queue[1] /\ job \in Jobs
        /\ Tail(queue) \in Seq(Jobs) /\ DOMAIN Tail(queue) = 1 .. Len(queue) - 1
        /\ \A i \in 1 .. Len(queue) - 1 : Tail(queue)[i] = queue[i + 1]
      BY <2>1, HeadTailProperties, LenProperties, EmptySeq
  <2>3. \A i \in DOMAIN Tail(queue) : JobInv(Tail(queue)[i])
    <3>1. ASSUME NEW i \in DOMAIN Tail(queue) PROVE i + 1 \in DOMAIN queue /\ Tail(queue)[i] = queue[i + 1]
        BY <2>2
    <3>2. QED
        BY <3>1 DEF WorkerInv
  <2>4. JobInv(job)
      BY <2>2 DEF WorkerInv
  <2>5. llama \in Nat
      BY DEF WorkerInv, None
  <2>6. /\ running' \in Jobs /\ JobInv(running')
        /\ running'.kind \in {"load", "batch"} => running'.llama = llama
    <3>1. CASE job.kind = "free"
        BY <1>1, <2>2, <2>4, <3>1 DEF JobStarted
    <3>2. CASE job.kind # "free"
        BY <1>1, <2>2, <2>5, <3>2 DEF JobStarted, Jobs, JobInv
    <3>3. QED
        BY <3>1, <3>2
  <2>7. queue' = Tail(queue) /\ UNCHANGED <<llama, resident, loads>>
      BY <1>1 DEF JobStarted
  <2> HIDE DEF job
  <2>8. QED
      BY <2>2, <2>3, <2>6, <2>7 DEF WorkerInv, JobInv, Condemned
<1>2. CASE LoadFinished /\ running.llama # None
    BY <1>2, Idled DEF LoadFinished, Ended
<1>3. CASE LoadFinished /\ running.llama = None
  <2>1. /\ loads' = loads + 1 /\ llama' = loads + 1 /\ resident' = resident \cup {loads + 1}
        /\ running' = NoJob /\ UNCHANGED queue
      BY <1>3 DEF LoadFinished, Ended
  <2>2. \A job : JobInv(job) => JobInv(job)'
      BY <2>1 DEF WorkerInv, JobInv, Condemned
  <2>3. QED
      BY <2>1, <2>2 DEF WorkerInv, JobInv, NoJob, Job, None
<1>4. CASE BatchFinished \/ JobRaised
    BY <1>4, Idled DEF BatchFinished, JobRaised, Ended
<1>5. CASE FreeFinished
  <2>1. running.llama # llama
      BY <1>5 DEF FreeFinished, WorkerInv, JobInv, Condemned
  <2>2. QED
      BY <1>5, <2>1 DEF FreeFinished, Ended, WorkerInv, JobInv, Condemned, NoJob, Job, None
<1>6. QED
    BY <1>1, <1>2, <1>3, <1>4, <1>5 DEF Worker

LEMMA CloseStep == ASSUME WorkerInv, CloseCalled \/ CloseReturned PROVE WorkerInv'
<1>1. ASSUME Shutdown, UNCHANGED <<llama, resident, loads>> PROVE WorkerInv'
  <2>1. queue' = <<>> /\ <<>> \in Seq(Jobs) /\ UNCHANGED running
      BY <1>1, EmptySeq DEF Shutdown
  <2>2. QED
      BY <1>1, <2>1, QueueMoved
<1>2. CASE CloseReturned
    BY <1>1, <1>2 DEF CloseReturned
<1>3. CASE CloseCalled /\ llama = None
    BY <1>1, <1>3 DEF CloseCalled
<1>4. CASE CloseCalled /\ llama # None
  <2>1. llama \in 1 .. loads
      BY <1>4 DEF WorkerInv
  <2>2. PICK job \in Jobs : job = Job("free", "close", llama)
      BY <2>1 DEF WorkerInv, Jobs, Job, Owners
  <2>3. /\ llama' = 0 /\ Submit(job) /\ UNCHANGED <<resident, loads, running>>
      BY <1>4, <2>2 DEF CloseCalled, Submit, None
  <2>4. /\ queue' \in Seq(Jobs)
        /\ \A i \in DOMAIN queue' : queue'[i] = job \/ \E k \in DOMAIN queue : queue'[i] = queue[k]
      BY <2>3, Submitted
  <2>5. ASSUME NEW other, JobInv(other) \/ other = job PROVE JobInv(other)'
    <3>1. ASSUME other.kind = "free" PROVE other.llama \in 1 .. loads /\ other.llama # 0
        BY <2>1, <2>2, <2>5, <3>1 DEF JobInv, Condemned, WorkerInv, Job
    <3>2. QED
        BY <2>3, <3>1 DEF JobInv, Condemned
  <2>6. (\A i \in DOMAIN queue : JobInv(queue[i]))'
    <3>1. ASSUME NEW i \in DOMAIN queue' PROVE JobInv(queue[i])'
      <4>1. PICK other : other = queue'[i] /\ (JobInv(other) \/ other = job)
          BY <2>4 DEF WorkerInv
      <4>2. JobInv(other)'
          BY <2>5, <4>1
      <4>3. QED
          BY <4>1, <4>2 DEF JobInv, Condemned
    <3>2. QED
        BY <3>1
  <2>7. JobInv(running)'
      BY <2>3, <2>5 DEF WorkerInv
  <2>8. QED
      BY <2>3, <2>4, <2>6, <2>7 DEF WorkerInv, None
<1>5. QED
    BY <1>2, <1>3, <1>4

LEMMA WorkerInductive == WorkerInv /\ [Next]_vars => WorkerInv'
<1> SUFFICES ASSUME WorkerInv, [Next]_vars PROVE WorkerInv'
    OBVIOUS
<1>1. ASSUME NEW c \in Embeds, RequestEmbeds(c) \/ Resume(c) \/ Cancel(c) PROVE WorkerInv'
    BY <1>1, CoroutineStep DEF RequestEmbeds, Resume, Cancel
<1>2. CASE Thread
    BY <1>2, WorkerStep DEF Thread
<1>3. CASE CloseEmbedder \/ (CloseReturned /\ UNCHANGED lifeVars)
    BY <1>3, CloseStep DEF CloseEmbedder
<1>4. CASE UNCHANGED embedderVars
    BY <1>4 DEF WorkerInv, JobInv, Condemned, embedderVars, executor
<1>5. QED
    BY <1>1, <1>2, <1>3, <1>4
    DEF Next, LifespanStep, LimitersBuilt, RedisConnected, LimitersVerified, Connected, Preloaded,
        PurgeEnded, CloseModelClient, EmbedderClosed, CloseConnection, Stopped, PurgeLoop, Stop,
        vars

LEMMA PurgeInductive == PurgeInv /\ [Next]_vars => PurgeInv'
<1> SUFFICES ASSUME PurgeInv, [Next]_vars PROVE PurgeInv'
    OBVIOUS
<1>1. CASE UNCHANGED lifeVars
    BY <1>1 DEF PurgeInv, lifeVars
<1>2. CASE LimitersBuilt \/ RedisConnected \/ LimitersVerified \/ Connected \/ Preloaded
    BY <1>2 DEF PurgeInv, LimitersBuilt, RedisConnected, LimitersVerified, Connected, Preloaded
<1>3. CASE PurgeLoop \/ Stop \/ PurgeEnded
    BY <1>3 DEF PurgeInv, PurgeLoop, Stop, PurgeEnded
<1>4. CASE CloseModelClient \/ EmbedderClosed \/ Stopped
           \/ \E connection \in Connections : CloseConnection(connection)
    BY <1>4 DEF PurgeInv, CloseModelClient, EmbedderClosed, CloseConnection, Stopped, Closing
<1>5. QED
    BY <1>1, <1>2, <1>3, <1>4
    DEF Next, LifespanStep, CloseEmbedder, RequestEmbeds, Resume, Cancel, Thread, vars

(* However late its job was queued, no batch is embedded with weights that   *)
(* were freed, and no purge is under way on a store that is being closed.    *)
THEOREM NothingUsedAfterCloseAlways == Spec => []NothingUsedAfterClose
<1>1. WorkerInv /\ PurgeInv => NothingUsedAfterClose
  <2>1. "store" \in ToSet(Closers)
    <3>1. Closers[3] = "store" /\ 3 \in DOMAIN Closers
        BY DEF Closers
    <3>2. QED
        BY <3>1 DEF ToSet
  <2>2. QED
      BY <2>1 DEF WorkerInv, PurgeInv, NothingUsedAfterClose
<1>2. QED
    BY <1>1, InitInv, WorkerInductive, PurgeInductive, PTL DEF Spec
==============================================================================
