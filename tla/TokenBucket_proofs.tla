------------------------- MODULE TokenBucket_proofs -------------------------
(* The budget of TokenBucket, for every rate, burst and cost, on a clock   *)
(* that is never behind.                                                   *)
EXTENDS TokenBucket, TLAPS

(* Rate is a constant, but the products with it are not linear: the two    *)
(* facts about them that the proofs need.                                  *)
LEMMA RateSplits ==
    ASSUME NEW a \in Int, NEW b \in Int, NEW c \in Int
    PROVE  /\ Rate * (a - b) \in Int
           /\ Rate * (a - b) = (a - b) * Rate
           /\ Rate * (a - c) = Rate * (a - b) + Rate * (b - c)
           /\ a >= b => Rate * (a - b) >= 0
BY BucketAssumption, SMT

LEMMA RateMonotone ==
    ASSUME NEW a \in Int, NEW b \in Int, a >= b
    PROVE  Rate * a >= Rate * b
BY BucketAssumption, SMT

(* On such a clock, ts is the moment of the last write.                    *)
ClockRead == ts = touched

(* What the window's requests cost and what the bucket still holds come    *)
(* from one burst and from time that passed inside the window; a bucket    *)
(* that is dropped would have been full again.                             *)
WindowAccounted ==
    /\ present /\ since <= ts => granted * Cost + tokens <= Burst + Rate * (ts - since)
    /\ present /\ ts < since => granted = 0
    /\ ~present => granted * Cost <= Rate * (now - since)

BucketInv == TypeOK /\ ClockRead /\ WindowAccounted

(* What a caller finds is between nothing and a full bucket, and no more   *)
(* than what was there and what the time since then gives.                 *)
LEMMA RefilledBounds ==
    ASSUME TypeOK
    PROVE  /\ Refilled(now) \in 0 .. Burst
           /\ present => Refilled(now) <= tokens + Rate * (now - ts)
<1>1. /\ now \in Nat /\ ts \in Nat /\ ts <= now /\ tokens \in 0 .. Burst /\ Burst \in Nat
  BY BucketAssumption DEF TypeOK
<1>2. /\ AtLeast(now - ts, 0) = now - ts
  BY <1>1 DEF AtLeast
<1>3. /\ (now - ts) * Rate \in Int /\ (now - ts) * Rate = Rate * (now - ts)
      /\ (now - ts) * Rate >= 0
  BY <1>1, RateSplits, BucketAssumption
<1> QED
  BY <1>1, <1>2, <1>3 DEF Refilled

(* Every step of the bucket keeps its variables in their types.            *)
LEMMA TypePreserved ==
    ASSUME TypeOK, [Next]_vars, Lag = 0
    PROVE  TypeOK'
<1> USE BucketAssumption
<1>0. Refilled(now) \in 0 .. Burst
  BY RefilledBounds
<1>1. CASE Acquire
  <2>1. PICK time \in AtLeast(now - Lag, 0) .. now :
            Admit(time) \/ Reject(time) \/ AnswerLost(time)
    BY <1>1 DEF Acquire
  <2>2. time = now
    BY <2>1 DEF AtLeast, TypeOK
  <2>3. CASE Admit(time)
    BY <2>2, <2>3, <1>0 DEF Admit, Write, TypeOK, Never
  <2>4. CASE Reject(time)
    <3>1. PICK n \in 0 .. Cost :
              retryAt' = IF retryAt = Never THEN now + AtLeast(n, MinWait) ELSE retryAt
      BY <2>4 DEF Reject, Advised, Waits
    <3>2. retryAt' \in Nat \cup {Never}
      BY <3>1 DEF AtLeast, TypeOK
    <3> QED
      BY <2>2, <2>4, <1>0, <3>2 DEF Reject, Write, TypeOK
  <2>5. CASE AnswerLost(time)
    BY <2>2, <2>5, <1>0 DEF AnswerLost, Write, TypeOK, Never
  <2> QED
    BY <2>1, <2>3, <2>4, <2>5
<1>2. CASE Dropped
  BY <1>2 DEF Dropped, TypeOK
<1>3. CASE Tick
  BY <1>3 DEF Tick, bucketVars, TypeOK
<1>4. CASE OpenWindow
  BY <1>4 DEF OpenWindow, bucketVars, TypeOK
<1>5. CASE UNCHANGED vars
  BY <1>5 DEF vars, bucketVars, TypeOK
<1> QED
  BY <1>1, <1>2, <1>3, <1>4, <1>5 DEF Next

(* A request that is paid for out of what the caller found keeps the       *)
(* window's account, whether it is counted or its answer was lost.         *)
LEMMA SpendAccounted ==
    ASSUME NEW spent \in Nat, NEW more \in {0, 1}, BucketInv,
           Write(Refilled(now) - spent, now), since' = since, now' = now,
           more * Cost <= spent, spent <= Refilled(now),
           granted' = granted + more
    PROVE  ClockRead' /\ WindowAccounted'
<1> USE BucketAssumption
<1>1. /\ now \in Nat /\ ts \in Nat /\ ts <= now /\ tokens \in 0 .. Burst /\ Burst \in Nat
      /\ since \in Nat /\ since <= now /\ granted \in Nat /\ present \in BOOLEAN
      /\ Refilled(now) \in 0 .. Burst
      /\ present => Refilled(now) <= tokens + Rate * (now - ts)
  BY RefilledBounds DEF BucketInv, TypeOK
<1>2. present' = TRUE /\ ts' = now /\ touched' = now /\ tokens' = Refilled(now) - spent
  BY DEF Write
<1>3. granted' * Cost <= granted * Cost + spent
  BY <1>1
<1>4. granted * Cost + Refilled(now) <= Burst + Rate * (now - since)
  <2>1. CASE present /\ since <= ts
    <3>1. granted * Cost + tokens <= Burst + Rate * (ts - since)
      BY <2>1 DEF BucketInv, WindowAccounted
    <3>2. Rate * (now - since) = Rate * (now - ts) + Rate * (ts - since)
      BY <1>1, RateSplits
    <3>3. Rate * (now - ts) \in Int /\ Rate * (ts - since) \in Int /\ granted * Cost \in Int
      BY <1>1, RateSplits
    <3> QED
      BY <1>1, <2>1, <3>1, <3>2, <3>3
  <2>2. CASE present /\ ts < since
    <3>1. granted = 0
      BY <2>2 DEF BucketInv, WindowAccounted
    <3>2. Rate * (now - since) \in Int /\ Rate * (now - since) >= 0
      BY <1>1, RateSplits
    <3> QED
      BY <1>1, <3>1, <3>2
  <2>3. CASE ~present
    <3>1. granted * Cost <= Rate * (now - since)
      BY <2>3 DEF BucketInv, WindowAccounted
    <3>2. Rate * (now - since) \in Int /\ granted * Cost \in Int
      BY <1>1, RateSplits
    <3> QED
      BY <1>1, <3>1, <3>2
  <2> QED
    BY <1>1, <2>1, <2>2, <2>3
<1>5. Rate * (now - since) \in Int /\ granted * Cost \in Int /\ granted' * Cost \in Int
  BY <1>1, RateSplits
<1>6. granted' * Cost + tokens' <= Burst + Rate * (ts' - since')
  BY <1>1, <1>2, <1>3, <1>4, <1>5
<1> QED
  BY <1>1, <1>2, <1>6 DEF ClockRead, WindowAccounted

(* The invariant is inductive on a clock that is never behind.             *)
LEMMA BucketInductive ==
    ASSUME BucketInv, [Next]_vars, Lag = 0
    PROVE  BucketInv'
<1> USE BucketAssumption
<1>0. TypeOK'
  BY TypePreserved DEF BucketInv
<1>t. /\ now \in Nat /\ ts \in Nat /\ ts <= now /\ tokens \in 0 .. Burst /\ Burst \in Nat
      /\ since \in Nat /\ since <= now /\ granted \in Nat /\ present \in BOOLEAN
      /\ granted * Cost \in Int
  BY DEF BucketInv, TypeOK
<1>1. CASE Acquire
  <2>1. PICK time \in AtLeast(now - Lag, 0) .. now :
            Admit(time) \/ Reject(time) \/ AnswerLost(time)
    BY <1>1 DEF Acquire
  <2>2. time = now
    BY <1>t, <2>1 DEF AtLeast
  <2>r. Refilled(now) \in 0 .. Burst
    BY RefilledBounds DEF BucketInv
  <2>3. CASE Admit(time)
    <3>1. /\ Write(Refilled(now) - Cost, now) /\ granted' = granted + 1
          /\ since' = since /\ now' = now /\ Cost <= Refilled(now)
      BY <2>2, <2>3, <2>r DEF Admit
    <3>2. Cost \in Nat /\ 1 * Cost <= Cost
      OBVIOUS
    <3> QED
      BY <1>0, <3>1, <3>2, SpendAccounted DEF BucketInv
  <2>4. CASE Reject(time)
    <3>1. /\ Write(Refilled(now) - 0, now) /\ granted' = granted + 0
          /\ since' = since /\ now' = now
      BY <1>t, <2>2, <2>4, <2>r DEF Reject
    <3>2. 0 \in Nat /\ 0 * Cost <= 0 /\ 0 <= Refilled(now)
      BY <2>r
    <3> QED
      BY <1>0, <3>1, <3>2, SpendAccounted DEF BucketInv
  <2>5. CASE AnswerLost(time)
    <3> DEFINE spent == IF Refilled(now) >= Cost THEN Cost ELSE 0
    <3>1. /\ Write(Refilled(now) - spent, now) /\ granted' = granted + 0
          /\ since' = since /\ now' = now
      BY <1>t, <2>2, <2>5 DEF AnswerLost
    <3>2. spent \in Nat /\ 0 * Cost <= spent /\ spent <= Refilled(now)
      BY <2>r
    <3> HIDE DEF spent
    <3> QED
      BY <1>0, <3>1, <3>2, SpendAccounted DEF BucketInv
  <2> QED
    BY <2>1, <2>3, <2>4, <2>5
<1>2. CASE Dropped
  <2>1. /\ present /\ now >= ts + IdleTtl /\ present' = FALSE
        /\ UNCHANGED <<tokens, ts, touched, now, since, granted>>
    BY <1>2 DEF Dropped, BucketInv, ClockRead
  <2>2. Rate * (now - ts) >= Rate * IdleTtl
    BY <1>t, <2>1, RateMonotone
  <2>3. /\ Rate * (now - since) = Rate * (now - ts) + Rate * (ts - since)
        /\ Rate * (now - ts) \in Int /\ Rate * (ts - since) \in Int
        /\ Rate * (now - since) \in Int /\ Rate * (now - since) >= 0
        /\ Rate * IdleTtl \in Int
    BY <1>t, RateSplits
  <2>4. granted * Cost <= Rate * (now - since)
    <3>1. CASE since <= ts
      <4>1. granted * Cost + tokens <= Burst + Rate * (ts - since)
        BY <2>1, <3>1 DEF BucketInv, WindowAccounted
      <4> QED
        BY <1>t, <2>2, <2>3, <4>1
    <3>2. CASE ts < since
      <4>1. granted = 0
        BY <2>1, <3>2 DEF BucketInv, WindowAccounted
      <4> QED
        BY <2>3, <4>1
    <3> QED
      BY <1>t, <3>1, <3>2
  <2> QED
    BY <1>0, <2>1, <2>4 DEF BucketInv, ClockRead, WindowAccounted
<1>3. CASE Tick
  <2>1. /\ now' = now + 1
        /\ UNCHANGED <<present, tokens, ts, touched, since, granted>>
    BY <1>3 DEF Tick, bucketVars
  <2>2. Rate * (now' - since') >= Rate * (now - since)
    BY <1>t, <2>1, RateMonotone
  <2>3. Rate * (now' - since') \in Int /\ Rate * (now - since) \in Int
    BY <1>t, <2>1, RateSplits
  <2> QED
    BY <1>t, <1>0, <2>1, <2>2, <2>3 DEF BucketInv, ClockRead, WindowAccounted
<1>4. CASE OpenWindow
  <2>1. /\ since' = now /\ granted' = 0
        /\ UNCHANGED <<present, tokens, ts, touched, now>>
    BY <1>4 DEF OpenWindow, bucketVars
  <2>2. granted' * Cost = 0 /\ Rate * (now' - since') = 0
    BY <1>t, <2>1
  <2>3. since' <= ts' => ts' = now
    BY <1>t, <2>1
  <2> QED
    BY <1>t, <1>0, <2>1, <2>2, <2>3 DEF BucketInv, ClockRead, WindowAccounted
<1>5. CASE UNCHANGED vars
  BY <1>0, <1>5 DEF vars, bucketVars, BucketInv, ClockRead, WindowAccounted
<1> QED
  BY <1>1, <1>2, <1>3, <1>4, <1>5 DEF Next

(* The account gives the bound of the window.                              *)
LEMMA AccountBounds ==
    ASSUME BucketInv
    PROVE  WindowBounded
<1> USE BucketAssumption
<1>t. /\ now \in Nat /\ ts \in Nat /\ ts <= now /\ tokens \in 0 .. Burst /\ Burst \in Nat
      /\ since \in Nat /\ since <= now /\ granted \in Nat /\ present \in BOOLEAN
      /\ granted * Cost \in Int
  BY DEF BucketInv, TypeOK
<1>1. /\ Rate * (now - since) = Rate * (now - ts) + Rate * (ts - since)
      /\ Rate * (now - ts) \in Int /\ Rate * (ts - since) \in Int
      /\ Rate * (now - ts) >= 0
      /\ Rate * (now - since) \in Int /\ Rate * (now - since) >= 0
  BY <1>t, RateSplits
<1>2. CASE present /\ since <= ts
  BY <1>t, <1>1, <1>2 DEF BucketInv, WindowAccounted, WindowBounded
<1>3. CASE present /\ ts < since
  BY <1>t, <1>1, <1>3 DEF BucketInv, WindowAccounted, WindowBounded
<1>4. CASE ~present
  BY <1>t, <1>1, <1>4 DEF BucketInv, WindowAccounted, WindowBounded
<1> QED
  BY <1>t, <1>2, <1>3, <1>4

(* Initially nothing has been admitted.                                    *)
LEMMA BucketInitial == Init => BucketInv
<1> SUFFICES ASSUME Init PROVE BucketInv
  OBVIOUS
<1>0. Burst \in 0 .. Burst
  BY BucketAssumption
<1>1. TypeOK /\ ClockRead
  <2>1. 0 \in 0 .. now /\ now \in Nat /\ granted \in Nat
    BY DEF Init
  <2>2. present \in BOOLEAN /\ tokens \in 0 .. Burst
    BY <1>0 DEF Init
  <2>3. ts = 0 /\ touched = 0 /\ since = 0 /\ retryAt = Never
    BY DEF Init
  <2> QED
    BY <2>1, <2>2, <2>3 DEF TypeOK, ClockRead
<1>2. ~present /\ granted = 0 /\ now = since /\ now = 0
  BY DEF Init
<1>3. granted * Cost = 0 /\ Rate * (now - since) = 0
  BY <1>2, BucketAssumption
<1> QED
  BY <1>1, <1>2, <1>3 DEF BucketInv, WindowAccounted

(* ratelimit.py, TokenBucketLimiter: whatever the rate, the burst and the  *)
(* cost of a request, in every window of time the admitted requests stay   *)
(* within one burst and the sustained rate, idle buckets being dropped     *)
(* included -- as long as no clock reading is late.                        *)
THEOREM WindowBoundedAlways ==
    ASSUME Lag = 0
    PROVE  Spec => []WindowBounded
<1>1. Init => BucketInv
  BY BucketInitial
<1>2. BucketInv /\ [Next]_vars => BucketInv'
  BY BucketInductive
<1>3. BucketInv => WindowBounded
  BY AccountBounds
<1> QED
  BY <1>1, <1>2, <1>3, PTL DEF Spec

(* The bucket keeps its variables in their types on a clock that is never  *)
(* behind: it neither overdraws its tokens nor exceeds the burst, and no   *)
(* timestamp is in the future.                                             *)
THEOREM TypeCorrect ==
    ASSUME Lag = 0
    PROVE  Spec => []TypeOK
<1>1. Init => BucketInv
  BY BucketInitial
<1>2. BucketInv /\ [Next]_vars => BucketInv'
  BY BucketInductive
<1>3. BucketInv => TypeOK
  BY DEF BucketInv
<1> QED
  BY <1>1, <1>2, <1>3, PTL DEF Spec

(* While advice stands, what the bucket holds and what the time up to one  *)
(* tick after the advised moment gives make one request.                   *)
AdviceHolds ==
    retryAt # Never /\ present => tokens + Rate * (retryAt + 1 - ts) >= Cost

RetryInv == TypeOK /\ AdviceHolds

(* A rejection finds a bucket that is neither missing nor capped.          *)
LEMMA RejectedBelowCap ==
    ASSUME TypeOK, Refilled(now) < Cost
    PROVE  present /\ Refilled(now) = tokens + Rate * (now - ts)
<1>1. /\ now \in Nat /\ ts \in Nat /\ ts <= now
      /\ Cost <= Burst /\ Burst \in Nat /\ Cost \in Nat
  BY BucketAssumption DEF TypeOK
<1>2. AtLeast(now - ts, 0) = now - ts
  BY <1>1 DEF AtLeast
<1>3. (now - ts) * Rate = Rate * (now - ts)
  BY <1>1, RateSplits, BucketAssumption
<1>4. Refilled(now) # Burst
  BY <1>1
<1> QED
  BY <1>2, <1>3, <1>4 DEF Refilled

(* The advice of a rejection is long enough, an earlier one still is.      *)
LEMMA RejectAdvises ==
    ASSUME RetryInv, Reject(now)
    PROVE  AdviceHolds'
<1> USE BucketAssumption
<1>1. /\ present /\ Refilled(now) = tokens + Rate * (now - ts)
      /\ Refilled(now) \in 0 .. Burst
  BY RejectedBelowCap, RefilledBounds DEF Reject, RetryInv
<1>2. /\ tokens' = Refilled(now) /\ ts' = now /\ now \in Nat /\ ts \in Nat
      /\ retryAt \in Nat \cup {Never} /\ tokens \in Nat
  BY DEF Reject, Write, RetryInv, TypeOK
<1>3. PICK n \in Waits(Refilled(now)) :
          retryAt' = IF retryAt = Never THEN now + AtLeast(n, MinWait) ELSE retryAt
  BY DEF Reject, Advised
<1>4. CASE retryAt = Never
  <2>1. n \in Nat /\ 2 * (n * Rate - (Cost - Refilled(now))) >= -Rate /\ n * Rate \in Int
    BY <1>1, <1>3 DEF Waits
  <2>2. AtLeast(n, MinWait) \in Nat /\ AtLeast(n, MinWait) >= n
    BY <2>1 DEF AtLeast
  <2>3. retryAt' + 1 - ts' = AtLeast(n, MinWait) + 1
    BY <1>2, <1>3, <1>4, <2>2
  <2>4. Rate * (AtLeast(n, MinWait) + 1) >= Rate * (n + 1)
    BY <2>1, <2>2, RateMonotone
  <2>5. Rate * (n + 1) = n * Rate + Rate
    BY <2>1
  <2>6. Rate * (AtLeast(n, MinWait) + 1) \in Int
    BY <2>2
  <2>7. Refilled(now) + Rate * (n + 1) >= Cost
    BY <1>1, <2>1, <2>5
  <2>8. Refilled(now) + Rate * (AtLeast(n, MinWait) + 1) >= Cost
    BY <1>1, <2>1, <2>4, <2>5, <2>6, <2>7
  <2> QED
    BY <1>2, <2>3, <2>8 DEF AdviceHolds
<1>5. CASE retryAt # Never
  <2>1. retryAt' = retryAt /\ retryAt \in Nat
    BY <1>2, <1>3, <1>5
  <2>2. tokens + Rate * (retryAt + 1 - ts) >= Cost
    BY <1>1, <1>5 DEF RetryInv, AdviceHolds
  <2>3. /\ Rate * (retryAt + 1 - ts) = Rate * (retryAt + 1 - now) + Rate * (now - ts)
        /\ Rate * (retryAt + 1 - now) \in Int /\ Rate * (now - ts) \in Int
    BY <1>2, <2>1, RateSplits
  <2> QED
    BY <1>1, <1>2, <2>1, <2>2, <2>3 DEF AdviceHolds
<1> QED
  BY <1>4, <1>5

(* ratelimit.py, RateLimitResult.retry_after_s: a caller that waits one    *)
(* tick longer than it was told to, and whom nobody overtook, is admitted, *)
(* whatever the rate, burst and cost and however often others are rejected *)
(* meanwhile.                                                              *)
THEOREM RetrySufficesAlways ==
    ASSUME Lag = 0
    PROVE  Spec => []RetrySuffices
<1> USE BucketAssumption
<1>1. Init => RetryInv
  BY BucketInitial DEF Init, BucketInv, RetryInv, AdviceHolds
<1>2. RetryInv /\ [Next]_vars => RetryInv'
  <2> SUFFICES ASSUME RetryInv, [Next]_vars PROVE AdviceHolds'
    BY TypePreserved DEF RetryInv
  <2>1. CASE Acquire
    <3>1. PICK time \in AtLeast(now - Lag, 0) .. now :
              Admit(time) \/ Reject(time) \/ AnswerLost(time)
      BY <2>1 DEF Acquire
    <3>2. time = now
      BY <3>1 DEF AtLeast, RetryInv, TypeOK
    <3>3. CASE Reject(time)
      BY <3>2, <3>3, RejectAdvises
    <3>4. CASE Admit(time) \/ AnswerLost(time)
      BY <3>4 DEF Admit, AnswerLost, AdviceHolds
    <3> QED
      BY <3>1, <3>3, <3>4
  <2>2. CASE Dropped \/ Tick \/ OpenWindow \/ UNCHANGED vars
    BY <2>2 DEF Dropped, Tick, OpenWindow, vars, bucketVars, RetryInv, AdviceHolds
  <2> QED
    BY <2>1, <2>2 DEF Next
<1>3. RetryInv => RetrySuffices
  <2> SUFFICES ASSUME RetryInv, retryAt # Never, now > retryAt PROVE Refilled(now) >= Cost
    BY DEF RetrySuffices
  <2>1. CASE present /\ Refilled(now) < Cost
    <3>1. /\ Refilled(now) = tokens + Rate * (now - ts)
          /\ tokens + Rate * (retryAt + 1 - ts) >= Cost
      BY <2>1, RejectedBelowCap DEF RetryInv, AdviceHolds
    <3>2. now \in Nat /\ ts \in Nat /\ retryAt \in Nat /\ tokens \in Nat
      BY DEF RetryInv, TypeOK
    <3>3. Rate * (now - ts) >= Rate * (retryAt + 1 - ts)
      BY <3>2, RateMonotone
    <3>4. Rate * (now - ts) \in Int /\ Rate * (retryAt + 1 - ts) \in Int
      BY <3>2, RateSplits
    <3> QED
      BY <2>1, <3>1, <3>2, <3>3, <3>4
  <2>2. CASE ~(present /\ Refilled(now) < Cost)
    BY <2>2, RejectedBelowCap, RefilledBounds DEF RetryInv
  <2> QED
    BY <2>1, <2>2
<1> QED
  BY <1>1, <1>2, <1>3, PTL DEF Spec
=============================================================================
