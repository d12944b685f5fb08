-------------------------- MODULE RunLeases_proofs --------------------------
(* The ceiling of RunLeases, for every set of runs, limit and skew.        *)
EXTENDS RunLeases, FiniteSetTheorems, TLAPS

(* A run that may still rely on a granted lease.                           *)
Relies(r) == /\ pc[r] \in {"asking", "running"}
             /\ answer[r] = "granted"

(* Nobody asked in the future, and no use of slot() outlasts MaxRun.       *)
Timely == \A r \in Runs : /\ asked[r] <= now
                          /\ pc[r] \in {"asking", "running"} => now <= asked[r] + MaxRun

(* A script that is still under way has given no answer, and a run holds   *)
(* only what it was granted.                                               *)
AnsweredOnce == \A r \in Runs : /\ r \in sent => answer[r] = "none"
                                /\ r \in held => Relies(r)
                                /\ pc[r] = "idle" => answer[r] = "none" /\ r \notin sent

(* A lease that is relied on is in the set, and the set is within bounds.  *)
LeasesKept == /\ \A r \in Runs : Relies(r) => r \in leased
              /\ Cardinality(leased) <= Limit

CeilingInv == TypeOK /\ Timely /\ AnsweredOnce /\ LeasesKept

(* Reaping can only make the set smaller.                                  *)
LEMMA ReapedSmaller ==
    ASSUME TypeOK, Cardinality(leased) <= Limit, NEW time
    PROVE  /\ Reaped(time) \subseteq Runs
           /\ IsFiniteSet(Reaped(time))
           /\ Cardinality(Reaped(time)) \in Nat
           /\ Cardinality(Reaped(time)) <= Limit
<1>1. IsFiniteSet(leased) /\ Reaped(time) \subseteq leased /\ leased \subseteq Runs
  BY LeaseAssumption, FS_Subset DEF TypeOK, Reaped
<1>2. /\ IsFiniteSet(Reaped(time))
      /\ Cardinality(Reaped(time)) <= Cardinality(leased)
  BY <1>1, FS_Subset
<1>3. Cardinality(Reaped(time)) \in Nat /\ Cardinality(leased) \in Nat
  BY <1>1, <1>2, FS_CardinalityType
<1> QED
  BY <1>1, <1>2, <1>3, LeaseAssumption

(* No clock that is at most Skew ahead reaps a lease that is relied on,    *)
(* when a run and the skew stay below the time-to-live.                    *)
LEMMA ReliedSurvives ==
    ASSUME CeilingInv, MaxRun + Skew < Ttl, NEW r \in Runs, Relies(r),
           NEW time \in Nat, time <= now + Skew
    PROVE  r \in Reaped(time)
<1>1. now <= asked[r] + MaxRun /\ r \in leased
  BY DEF CeilingInv, Timely, LeasesKept, Relies
<1>2. asked[r] \in Nat /\ offset[r] \in Nat /\ now \in Nat
  BY LeaseAssumption DEF CeilingInv, TypeOK
<1>3. asked[r] + offset[r] + Ttl > time
  BY <1>1, <1>2, LeaseAssumption
<1> QED
  BY <1>1, <1>3 DEF Reaped, Expiry, Reading

(* Every step keeps the variables in their types.                          *)
LEMMA TypePreserved == TypeOK /\ [Next]_vars => TypeOK'
<1> SUFFICES ASSUME TypeOK, [Next]_vars PROVE TypeOK'
  OBVIOUS
<1> USE DEF TypeOK, Locations
<1>1. ASSUME NEW r \in Runs, Ask(r) PROVE TypeOK'
  BY <1>1 DEF Ask
<1>2. ASSUME NEW r \in Runs, ScriptRuns(r) PROVE TypeOK'
  BY <1>2 DEF ScriptRuns, Reaped
<1>3. ASSUME NEW r \in Runs, AnswerReceived(r) PROVE TypeOK'
  BY <1>3 DEF AnswerReceived
<1>4. ASSUME NEW r \in Runs, AskFailed(r) PROVE TypeOK'
  BY <1>4 DEF AskFailed
<1>5. ASSUME NEW r \in Runs, AskAbandoned(r) PROVE TypeOK'
  BY <1>5 DEF AskAbandoned
<1>6. ASSUME NEW r \in Runs, Released(r) PROVE TypeOK'
  BY <1>6 DEF Released
<1>7. ASSUME NEW r \in Runs, ReleaseLost(r) PROVE TypeOK'
  BY <1>7 DEF ReleaseLost
<1>8. ASSUME NEW o \in 0 .. Skew, InFlight(o) PROVE TypeOK'
  BY <1>8 DEF InFlight, Reaped
<1>9. CASE Tick
  BY <1>9 DEF Tick
<1>10. CASE UNCHANGED vars
  BY <1>10 DEF vars
<1> QED
  BY <1>1, <1>2, <1>3, <1>4, <1>5, <1>6, <1>7, <1>8, <1>9, <1>10 DEF Next

(* The invariant is inductive.                                             *)
LEMMA CeilingInductive ==
    ASSUME CeilingInv, [Next]_vars, MaxRun + Skew < Ttl
    PROVE  CeilingInv'
<1> USE LeaseAssumption
<1>0. TypeOK'
  BY TypePreserved DEF CeilingInv
<1>t. TypeOK
  BY DEF CeilingInv
<1>l. Cardinality(leased) <= Limit
  BY DEF CeilingInv, LeasesKept
<1>1. ASSUME NEW r \in Runs, Ask(r) PROVE CeilingInv'
  <2>1. Timely'
    BY <1>1, <1>t DEF Ask, CeilingInv, Timely, TypeOK
  <2>2. AnsweredOnce'
    BY <1>1, <1>t DEF Ask, CeilingInv, AnsweredOnce, Relies, TypeOK
  <2>3. LeasesKept'
    BY <1>1, <1>t DEF Ask, CeilingInv, AnsweredOnce, LeasesKept, Relies, TypeOK
  <2> QED
    BY <1>0, <2>1, <2>2, <2>3 DEF CeilingInv
<1>2. ASSUME NEW r \in Runs, ScriptRuns(r) PROVE CeilingInv'
  <2>1. Timely'
    BY <1>2 DEF ScriptRuns, CeilingInv, Timely
  <2>2. AnsweredOnce'
    BY <1>2, <1>t DEF ScriptRuns, CeilingInv, AnsweredOnce, Relies, TypeOK
  <2>3. Reading(r) \in Nat /\ Reading(r) <= now + Skew
    BY <1>t DEF CeilingInv, Timely, TypeOK, Reading
  <2>4. \A q \in Runs : q # r /\ Relies(q)' => q \in leased'
    <3> SUFFICES ASSUME NEW q \in Runs, q # r, Relies(q)' PROVE q \in leased'
      OBVIOUS
    <3>1. Relies(q)
      BY <1>2, <1>t DEF ScriptRuns, Relies, TypeOK
    <3> QED
      BY <1>2, <2>3, <3>1, ReliedSurvives DEF ScriptRuns
  <2>5. Relies(r)' => r \in leased'
    BY <1>2, <1>t DEF ScriptRuns, Relies, TypeOK
  <2>6. Cardinality(leased') <= Limit
    <3>1. /\ IsFiniteSet(Reaped(Reading(r))) /\ Cardinality(Reaped(Reading(r))) \in Nat
          /\ Cardinality(Reaped(Reading(r))) <= Limit
      BY <1>t, <1>l, ReapedSmaller
    <3>2. CASE Admitted(r)
      <4>1. leased' = Reaped(Reading(r)) \cup {r}
        BY <1>2, <3>2 DEF ScriptRuns
      <4>2. Cardinality(leased') <= Cardinality(Reaped(Reading(r))) + 1
        <5> DEFINE S == Reaped(Reading(r))
        <5>1. IsFiniteSet(S) /\ Cardinality(S) \in Nat
          BY <3>1
        <5> HIDE DEF S
        <5>2. Cardinality(S \cup {r}) = IF r \in S THEN Cardinality(S) ELSE Cardinality(S) + 1
          BY <5>1, FS_AddElement
        <5>3. Cardinality(S \cup {r}) <= Cardinality(S) + 1
          BY <5>1, <5>2
        <5> QED
          BY <4>1, <5>3 DEF S
      <4>3. Cardinality(leased') \in Nat
        BY <3>1, <4>1, FS_AddElement, FS_CardinalityType
      <4> QED
        BY <3>1, <3>2, <4>2, <4>3 DEF Admitted
    <3>3. CASE ~Admitted(r)
      <4>1. leased' = Reaped(Reading(r))
        BY <1>2, <3>3 DEF ScriptRuns
      <4> QED
        BY <3>1, <4>1
    <3> QED
      BY <3>2, <3>3
  <2> QED
    BY <1>0, <2>1, <2>2, <2>4, <2>5, <2>6 DEF CeilingInv, LeasesKept
<1>3. ASSUME NEW r \in Runs, AnswerReceived(r) PROVE CeilingInv'
  BY <1>0, <1>3, <1>t
  DEF AnswerReceived, CeilingInv, Timely, AnsweredOnce, LeasesKept, Relies, TypeOK
<1>4. ASSUME NEW r \in Runs, AskFailed(r) PROVE CeilingInv'
  BY <1>0, <1>4, <1>t
  DEF AskFailed, CeilingInv, Timely, AnsweredOnce, LeasesKept, Relies, TypeOK
<1>5. ASSUME NEW r \in Runs, AskAbandoned(r) PROVE CeilingInv'
  BY <1>0, <1>5, <1>t
  DEF AskAbandoned, CeilingInv, Timely, AnsweredOnce, LeasesKept, Relies, TypeOK
<1>6. ASSUME NEW r \in Runs, Released(r) PROVE CeilingInv'
  <2>1. Timely' /\ AnsweredOnce'
    BY <1>6, <1>t DEF Released, CeilingInv, Timely, AnsweredOnce, Relies, TypeOK
  <2>2. \A q \in Runs : Relies(q)' => q \in leased'
    BY <1>6, <1>t DEF Released, CeilingInv, LeasesKept, Relies, TypeOK
  <2>3. Cardinality(leased') <= Limit
    <3>1. IsFiniteSet(leased) /\ leased' \subseteq leased
      BY <1>6, <1>t, FS_Subset DEF Released, TypeOK
    <3>2. /\ IsFiniteSet(leased') /\ Cardinality(leased') <= Cardinality(leased)
          /\ Cardinality(leased') \in Nat /\ Cardinality(leased) \in Nat
      BY <3>1, FS_Subset, FS_CardinalityType
    <3> QED
      BY <1>l, <3>2
  <2> QED
    BY <1>0, <2>1, <2>2, <2>3 DEF CeilingInv, LeasesKept
<1>7. ASSUME NEW r \in Runs, ReleaseLost(r) PROVE CeilingInv'
  BY <1>0, <1>7, <1>t
  DEF ReleaseLost, CeilingInv, Timely, AnsweredOnce, LeasesKept, Relies, TypeOK
<1>8. ASSUME NEW o \in 0 .. Skew, InFlight(o) PROVE CeilingInv'
  <2>1. Timely' /\ AnsweredOnce'
    BY <1>8 DEF InFlight, CeilingInv, Timely, AnsweredOnce, Relies
  <2>2. now + o \in Nat /\ now + o <= now + Skew
    BY <1>t DEF TypeOK
  <2>3. \A q \in Runs : Relies(q)' => q \in leased'
    <3> SUFFICES ASSUME NEW q \in Runs, Relies(q)' PROVE q \in leased'
      OBVIOUS
    <3>1. Relies(q)
      BY <1>8 DEF InFlight, Relies
    <3> QED
      BY <1>8, <2>2, <3>1, ReliedSurvives DEF InFlight
  <2>4. Cardinality(leased') <= Limit
    BY <1>8, <1>t, <1>l, ReapedSmaller DEF InFlight
  <2> QED
    BY <1>0, <2>1, <2>3, <2>4 DEF CeilingInv, LeasesKept
<1>9. CASE Tick
  BY <1>0, <1>9, <1>t
  DEF Tick, CeilingInv, Timely, AnsweredOnce, LeasesKept, Relies, TypeOK
<1>10. CASE UNCHANGED vars
  BY <1>0, <1>10 DEF vars, CeilingInv, Timely, AnsweredOnce, LeasesKept, Relies
<1> QED
  BY <1>1, <1>2, <1>3, <1>4, <1>5, <1>6, <1>7, <1>8, <1>9, <1>10 DEF Next

(* Initially nobody has asked.                                             *)
LEMMA CeilingInitial == Init => CeilingInv
<1> SUFFICES ASSUME Init PROVE CeilingInv
  OBVIOUS
<1>1. TypeOK /\ Timely /\ AnsweredOnce
  BY LeaseAssumption DEF Init, TypeOK, Locations, Timely, AnsweredOnce, Relies
<1>2. LeasesKept
  BY LeaseAssumption, FS_EmptySet DEF Init, LeasesKept, Relies
<1> QED
  BY <1>1, <1>2 DEF CeilingInv

(* ratelimit_redis.py, RedisConcurrencyLimiter: the runs admitted through  *)
(* Redis never exceed max_concurrent_runs, for any number of runs on       *)
(* replicas whose clocks differ, with scripts, answers and releases        *)
(* delayed or lost, if a run and the skew stay below lease_ttl_s.          *)
THEOREM WithinCeilingAlways ==
    ASSUME MaxRun + Skew < Ttl
    PROVE  Spec => []WithinCeiling
<1>1. Init => CeilingInv
  BY CeilingInitial
<1>2. CeilingInv /\ [Next]_vars => CeilingInv'
  BY CeilingInductive
<1>3. CeilingInv => WithinCeiling
  <2> SUFFICES ASSUME CeilingInv PROVE WithinCeiling
    OBVIOUS
  <2>1. held \subseteq leased /\ IsFiniteSet(leased) /\ Cardinality(leased) <= Limit
    BY LeaseAssumption, FS_Subset DEF CeilingInv, TypeOK, AnsweredOnce, LeasesKept
  <2>2. /\ IsFiniteSet(held) /\ Cardinality(held) <= Cardinality(leased)
        /\ Cardinality(held) \in Nat /\ Cardinality(leased) \in Nat
    BY <2>1, FS_Subset, FS_CardinalityType
  <2> QED
    BY <2>1, <2>2, LeaseAssumption DEF WithinCeiling
<1> QED
  BY <1>1, <1>2, <1>3, PTL DEF Spec

(* Sent requests, answers, leases and runs keep to each other's types, for  *)
(* any skew: a script is under way for a run that has asked, and what Redis *)
(* holds are leases of runs.                                                *)
THEOREM TypeCorrect == Spec => []TypeOK
<1>1. Init => TypeOK
  BY CeilingInitial DEF CeilingInv
<1>2. TypeOK /\ [Next]_vars => TypeOK'
  BY TypePreserved
<1> QED
  BY <1>1, <1>2, PTL DEF Spec

(* A lease that survives the reaping at r's reading was asked for less     *)
(* than Ttl + Skew before r asked.                                         *)
LEMMA SurvivorsFresh ==
    ASSUME TypeOK, NEW r \in Runs, NEW q \in Reaped(Reading(r))
    PROVE  q \in leased /\ asked[r] < asked[q] + Ttl + Skew
<1>1. q \in leased /\ q \in Runs /\ asked[q] + offset[q] + Ttl > asked[r] + offset[r]
  BY DEF Reaped, Expiry, Reading, TypeOK
<1>2. /\ asked[q] \in Nat /\ asked[r] \in Nat /\ Ttl \in Nat /\ Skew \in Nat
      /\ offset[q] \in 0 .. Skew /\ offset[r] \in 0 .. Skew
  BY <1>1, LeaseAssumption DEF TypeOK
<1> QED
  BY <1>1, <1>2

(* ratelimit_redis.py, the acquire script: a run is refused only while as  *)
(* many fresh leases as the limit stand, for any replicas' clocks, so what *)
(* a dead holder left behind stops counting by itself.                     *)
THEOREM RefusedBehindFreshLeasesAlways == Spec => RefusedBehindFreshLeases
<1> DEFINE Fresh(r) == {q \in leased : asked[r] < asked[q] + Ttl + Skew}
<1>1. ASSUME TypeOK, [Next]_vars, NEW r \in Runs,
             answer[r] = "none", answer'[r] = "refused"
      PROVE  Cardinality(Fresh(r)) >= Limit
  <2>1. ScriptRuns(r) /\ ~Admitted(r)
    BY <1>1 DEF Next, vars, Ask, ScriptRuns, AnswerReceived, AskFailed, AskAbandoned,
                Released, ReleaseLost, InFlight, Tick, TypeOK
  <2>2. /\ IsFiniteSet(Fresh(r)) /\ Fresh(r) \subseteq leased
        /\ Reaped(Reading(r)) \subseteq Fresh(r)
    <3>1. leased \subseteq Runs /\ IsFiniteSet(Runs)
      BY <1>1, LeaseAssumption DEF TypeOK
    <3>2. Fresh(r) \subseteq Runs
      BY <3>1
    <3> QED
      BY <1>1, <3>1, <3>2, FS_Subset, SurvivorsFresh
  <2>3. /\ IsFiniteSet(Reaped(Reading(r)))
        /\ Cardinality(Reaped(Reading(r))) <= Cardinality(Fresh(r))
        /\ Cardinality(Reaped(Reading(r))) \in Nat /\ Cardinality(Fresh(r)) \in Nat
    BY <2>2, FS_Subset, FS_CardinalityType
  <2>4. Cardinality(Reaped(Reading(r))) >= Limit
    BY <2>1, <2>3, LeaseAssumption DEF Admitted
  <2> QED
    BY <2>3, <2>4, LeaseAssumption
<1>2. TypeOK /\ [Next]_vars =>
          [\A r \in Runs : answer[r] = "none" /\ answer'[r] = "refused" =>
              Cardinality({q \in leased : asked[r] < asked[q] + Ttl + Skew}) >= Limit]_vars
  BY <1>1
<1> QED
  BY <1>2, TypeCorrect, PTL DEF Spec, RefusedBehindFreshLeases
=============================================================================
