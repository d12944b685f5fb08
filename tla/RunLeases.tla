----------------------------- MODULE RunLeases -----------------------------
(***************************************************************************)
(* RedisConcurrencyLimiter (bat/adapters/ratelimit_redis.py): the run      *)
(* slots of one tenant, as leases in a sorted set shared by replicas whose *)
(* clocks differ.  A run asks with a script that carries its own clock     *)
(* reading; script and answer travel separately, the caller may give up,   *)
(* its process may die, and the release may be lost.                       *)
(***************************************************************************)
EXTENDS Naturals, FiniteSets

CONSTANTS Runs,      \* uses of slot(), each with a lease id of its own
          Limit,     \* settings.rate_limit.max_concurrent_runs
          Ttl,       \* settings.rate_limit.lease_ttl_s
          MaxRun,    \* the longest a use of slot() lasts
          Skew,      \* how far two replicas' clocks may differ
          FailOpen,  \* settings.rate_limit.fail_open
          Horizon    \* the bound on the clock

ASSUME LeaseAssumption ==
    /\ IsFiniteSet(Runs)
    /\ Limit \in Nat \ {0}
    /\ Ttl \in Nat \ {0}
    /\ {MaxRun, Skew, Horizon} \subseteq Nat
    /\ FailOpen \in BOOLEAN

VARIABLES pc,      \* where each use of slot() is
          held,    \* the runs whose `held` is true
          asked,   \* when each run called slot()
          offset,  \* how far the clock of each run's replica is ahead
          sent,    \* the scripts on their way to Redis
          answer,  \* what the script returned to each run
          leased,  \* the members of the sorted set
          now      \* time

vars == <<pc, held, asked, offset, sent, answer, leased, now>>

Locations == {"idle", "asking", "running", "refused", "failed", "over"}

(* time.time() of the caller, and the score it asks for.                   *)
Reading(r) == asked[r] + offset[r]
Expiry(r) == Reading(r) + Ttl

Init == /\ pc = [r \in Runs |-> "idle"]
        /\ held = {}
        /\ asked = [r \in Runs |-> 0]
        /\ offset \in [Runs -> 0 .. Skew]
        /\ sent = {}
        /\ answer = [r \in Runs |-> "none"]
        /\ leased = {}
        /\ now = 0

-----------------------------------------------------------------------------
Ask(r) ==
    /\ pc[r] = "idle"
    /\ pc' = [pc EXCEPT ![r] = "asking"]
    /\ asked' = [asked EXCEPT ![r] = now]
    /\ sent' = sent \cup {r}
    /\ UNCHANGED <<held, offset, answer, leased, now>>

ReapedNever(time) == leased      \* mutant: no ZREMRANGEBYSCORE

(* ZREMRANGEBYSCORE key -inf time.                                         *)
Reaped(time) == {r \in leased : Expiry(r) > time}

(* Mutant: the ceiling is compared with > instead of >=.                   *)
AdmittedAbove(r) == Cardinality(Reaped(Reading(r))) <= Limit

Admitted(r) == Cardinality(Reaped(Reading(r))) < Limit

(* The acquire script, atomic in Redis, whether or not its caller still    *)
(* waits for the answer.  The key's own EXPIRE, a minute after its last    *)
(* lease, is left out.                                                     *)
ScriptRuns(r) ==
    /\ r \in sent
    /\ sent' = sent \ {r}
    /\ leased' = Reaped(Reading(r)) \cup (IF Admitted(r) THEN {r} ELSE {})
    /\ answer' = [answer EXCEPT ![r] = IF Admitted(r) THEN "granted" ELSE "refused"]
    /\ UNCHANGED <<pc, held, asked, offset, now>>

AnswerReceived(r) ==
    /\ pc[r] = "asking"
    /\ \/ /\ answer[r] = "granted"
          /\ pc' = [pc EXCEPT ![r] = "running"]
          /\ held' = held \cup {r}
       \/ /\ answer[r] = "refused"
          /\ pc' = [pc EXCEPT ![r] = "refused"]
          /\ UNCHANGED held
    /\ UNCHANGED <<asked, offset, sent, answer, leased, now>>

(* The call to Redis raises: the script may have run, may yet run, or not. *)
AskFailed(r) ==
    /\ pc[r] = "asking"
    /\ pc' = [pc EXCEPT ![r] = IF FailOpen THEN "running" ELSE "failed"]
    /\ UNCHANGED <<held, asked, offset, sent, answer, leased, now>>

(* The caller is cancelled, or its process dies, before it has its answer. *)
AskAbandoned(r) ==
    /\ pc[r] = "asking"
    /\ pc' = [pc EXCEPT ![r] = "over"]
    /\ UNCHANGED <<held, asked, offset, sent, answer, leased, now>>

(* Mutant: `held` outlives the body.                                       *)
ReleasedStillHeld(r) ==
    /\ pc[r] = "running"
    /\ pc' = [pc EXCEPT ![r] = "over"]
    /\ leased' = leased \ {r}
    /\ UNCHANGED <<held, asked, offset, sent, answer, now>>

(* The body of `async with` is left; only a held lease is given back.      *)
Released(r) ==
    /\ pc[r] = "running"
    /\ pc' = [pc EXCEPT ![r] = "over"]
    /\ held' = held \ {r}
    /\ leased' = IF r \in held THEN leased \ {r} ELSE leased
    /\ UNCHANGED <<asked, offset, sent, answer, now>>

(* The process dies, or the zrem fails or is cancelled.                    *)
ReleaseLost(r) ==
    /\ r \in held
    /\ pc' = [pc EXCEPT ![r] = "over"]
    /\ held' = held \ {r}
    /\ UNCHANGED <<asked, offset, sent, answer, leased, now>>

(* in_flight() of a replica whose clock is ahead by o.                     *)
InFlight(o) ==
    /\ leased' = Reaped(now + o)
    /\ UNCHANGED <<pc, held, asked, offset, sent, answer, now>>

(* Asking and running together last at most MaxRun.                        *)
Tick ==
    /\ now < Horizon
    /\ \A r \in Runs : pc[r] \in {"asking", "running"} => now < asked[r] + MaxRun
    /\ now' = now + 1
    /\ UNCHANGED <<pc, held, asked, offset, sent, answer, leased>>

Next == \/ \E r \in Runs : \/ Ask(r)
                           \/ ScriptRuns(r)
                           \/ AnswerReceived(r)
                           \/ AskFailed(r)
                           \/ AskAbandoned(r)
                           \/ Released(r)
                           \/ ReleaseLost(r)
        \/ \E o \in 0 .. Skew : InFlight(o)
        \/ Tick

Spec == Init /\ [][Next]_vars

-----------------------------------------------------------------------------
TypeOK ==
    /\ pc \in [Runs -> Locations]
    /\ held \subseteq {r \in Runs : pc[r] = "running"}
    /\ asked \in [Runs -> Nat]
    /\ offset \in [Runs -> 0 .. Skew]
    /\ sent \subseteq Runs
    /\ answer \in [Runs -> {"none", "granted", "refused"}]
    /\ leased \subseteq Runs
    /\ now \in Nat

(* Runs admitted by Redis never exceed the limit together, on any replica, *)
(* although leases are reaped by other replicas' clocks, scripts arrive    *)
(* late and callers give up: given that a run and the skew of the clocks   *)
(* together stay below the time-to-live.                                   *)
WithinCeiling == Cardinality(held) <= Limit

(* A slot is never lost for good: a caller is refused only while as many   *)
(* leases as the limit were asked for less than Ttl + Skew before it, so   *)
(* a lease whose holder died, gave up or could not release it stops        *)
(* counting by itself.                                                     *)
RefusedBehindFreshLeases ==
    [][\A r \in Runs : answer[r] = "none" /\ answer'[r] = "refused" =>
          Cardinality({q \in leased : asked[r] < asked[q] + Ttl + Skew}) >= Limit]_vars
=============================================================================
