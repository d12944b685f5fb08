---------------------------- MODULE TokenBucket ----------------------------
(***************************************************************************)
(* The request budget of one tenant: TokenBucketLimiter (bat/ratelimit.py) *)
(* and RedisTokenBucketLimiter (bat/adapters/ratelimit_redis.py).  Both    *)
(* run the same refill-and-consume step atomically, on a clock reading the *)
(* caller took before: time.monotonic() of the process, which is never     *)
(* late, or time.time() of some replica, sent along to Redis.              *)
(* Tokens are counted in whole fractions, Cost of which make one request.  *)
(***************************************************************************)
EXTENDS Integers

CONSTANTS Rate,     \* settings.rate_limit.requests_per_second, per tick
          Burst,    \* settings.rate_limit.burst
          Cost,     \* what acquire() consumes
          IdleTtl,  \* idle time after which a bucket is dropped
          MinWait,  \* the shortest wait a rejection reports; 0 in process
          Lag,      \* how far a reading may be behind; 0 in process
          Horizon   \* the bound on the clock

ASSUME BucketAssumption ==
    /\ {Rate, Burst, Cost, IdleTtl} \subseteq Nat \ {0}
    /\ Cost <= Burst
    /\ Burst <= Rate * IdleTtl
    /\ {MinWait, Lag, Horizon} \subseteq Nat

VARIABLES present,   \* the bucket exists
          tokens,    \* its tokens
          ts,        \* its updated_at, or ts
          touched,   \* when it was last written, which its expiry counts from
          now,       \* time
          since,     \* the start of an arbitrary window of time
          granted,   \* requests admitted in that window
          retryAt    \* when the first caller rejected since was told to come back

bucketVars == <<present, tokens, ts, touched>>
vars == <<bucketVars, now, since, granted, retryAt>>

Never == -1

Init == /\ present = FALSE
        /\ tokens = Burst
        /\ ts = 0
        /\ touched = 0
        /\ now = 0
        /\ since = 0
        /\ granted = 0
        /\ retryAt = Never

-----------------------------------------------------------------------------
AtLeast(a, b) == IF a < b THEN b ELSE a

(* Mutant: the refill is not capped.                                       *)
RefilledUncapped(time) ==
    IF present THEN tokens + AtLeast(time - ts, 0) * Rate ELSE Burst

(* The tokens a caller finds whose clock reads `time`: a new bucket is     *)
(* full, elapsed time is never negative, and burst caps the refill.        *)
Refilled(time) ==
    IF ~present \/ tokens + AtLeast(time - ts, 0) * Rate > Burst
    THEN Burst
    ELSE tokens + AtLeast(time - ts, 0) * Rate

(* Mutant: the timestamp is kept, and the same time is refilled again.     *)
WriteKeepingTs(rest, time) ==
    /\ present' = TRUE
    /\ tokens' = rest
    /\ touched' = now
    /\ UNCHANGED ts

(* The bucket is written back, admitted or not.                            *)
Write(rest, time) ==
    /\ present' = TRUE
    /\ tokens' = rest
    /\ ts' = time
    /\ touched' = now

Admit(time) ==
    /\ Refilled(time) >= Cost
    /\ Write(Refilled(time) - Cost, time)
    /\ granted' = granted + 1
    /\ retryAt' = Never
    /\ UNCHANGED <<now, since>>

(* deficit / rate, rounded to a tick: floats may round a half either way. *)
Waits(left) ==
    {n \in 0 .. Cost : 2 * (n * Rate - (Cost - left)) \in -Rate .. Rate}

(* Nobody has been admitted since, so an earlier advice still stands.      *)
Advised(left) ==
    \E n \in Waits(left) :
        retryAt' = IF retryAt = Never THEN now + AtLeast(n, MinWait) ELSE retryAt

(* Mutant: a rejection moves the timestamp and forgets the partial refill. *)
RejectForgetting(time) ==
    /\ Refilled(time) < Cost
    /\ Write(tokens, time)
    /\ Advised(Refilled(time))
    /\ UNCHANGED <<now, since, granted>>

Reject(time) ==
    /\ Refilled(time) < Cost
    /\ Write(Refilled(time), time)
    /\ Advised(Refilled(time))
    /\ UNCHANGED <<now, since, granted>>

(* The script ran, but its answer is lost: acquire() raises or, failing    *)
(* open, lets the request pass uncounted.                                  *)
AnswerLost(time) ==
    /\ Write(Refilled(time) - (IF Refilled(time) >= Cost THEN Cost ELSE 0), time)
    /\ retryAt' = Never
    /\ UNCHANGED <<now, since, granted>>

Acquire == \E time \in AtLeast(now - Lag, 0) .. now :
              Admit(time) \/ Reject(time) \/ AnswerLost(time)

(* EXPIRE, or evict_idle.                                                  *)
Dropped ==
    /\ present
    /\ now >= touched + IdleTtl
    /\ present' = FALSE
    /\ UNCHANGED <<tokens, ts, touched, now, since, granted, retryAt>>

Tick ==
    /\ now < Horizon
    /\ now' = now + 1
    /\ UNCHANGED <<bucketVars, since, granted, retryAt>>

(* Somebody starts to count.                                               *)
OpenWindow ==
    /\ since' = now
    /\ granted' = 0
    /\ UNCHANGED <<bucketVars, now, retryAt>>

Next == Acquire \/ Dropped \/ Tick \/ OpenWindow

Spec == Init /\ [][Next]_vars

-----------------------------------------------------------------------------
TypeOK ==
    /\ present \in BOOLEAN
    /\ tokens \in 0 .. Burst
    /\ ts \in 0 .. now
    /\ touched \in 0 .. now
    /\ now \in Nat
    /\ since \in 0 .. now
    /\ granted \in Nat
    /\ retryAt \in Nat \cup {Never}

(* Whatever window of time one looks at, the requests admitted in it cost  *)
(* no more than one burst and the sustained rate together, although idle   *)
(* buckets are dropped and come back full.                                 *)
WindowBounded == granted * Cost <= Burst + Rate * (now - since)

(* A rejected caller that waits one tick longer than it was told to, and   *)
(* whom nobody overtook, is admitted, however often others were rejected   *)
(* meanwhile: rejections keep what was refilled.  Without that tick it may *)
(* be rejected again, because the wait is rounded to the nearest tick.     *)
RetrySuffices == retryAt # Never /\ now > retryAt => Refilled(now) >= Cost
=============================================================================
