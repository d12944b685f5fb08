-------------------------- MODULE PostgresStore_proofs --------------------------
(* For any sessions, messages, limits and time-to-live: types, that activity *)
(* extends a session's window, that paging and reading miss nothing, and     *)
(* that the statements of the calls implement the port's promise.            *)
EXTENDS PostgresStore, FiniteSetTheorems, FunctionTheorems, SequenceTheorems,
        WellFoundedInduction, TLAPS

Calls == {"idle", "begun", "touched", "stored", "failed"}

RowTypes ==
    /\ creating \in [Sessions -> {"idle", "fits", "refused", "stored"}]
    /\ stored \subseteq {s \in Sessions : creating[s] = "stored"}
    /\ created \in [Sessions -> Nat]
    /\ expires \in [Sessions -> Nat]
    /\ count \in [Sessions -> Nat]
    /\ log \in [Sessions -> SUBSET Messages]

Appends ==
    /\ appending \in [Messages -> Calls]
    /\ target \in [Messages -> Sessions \cup {None}]
    /\ began \in [Messages -> Nat]
    /\ now \in Nat

Reads ==
    /\ reading \in Sessions \cup {None} /\ newest \in Messages \cup {None}
    /\ cursor \in Sessions \cup {None}
    /\ listed \in SUBSET Sessions /\ steady \in SUBSET Sessions

(* A touched row is there, and touched by one append only.                   *)
RowLocks ==
    /\ \A m \in Messages : appending[m] = "touched" => target[m] \in stored
    /\ \A m, n \in Messages : appending[m] = "touched" /\ appending[n] = "touched"
                                 /\ target[m] = target[n] => m = n

(* A message is stored with a session that is there, the one it was for.     *)
Logged ==
    /\ \A s \in Sessions : log[s] # {} => s \in stored
    /\ \A s \in Sessions : \A m \in log[s] : appending[m] = "stored" /\ target[m] = s

Types == RowTypes /\ Appends /\ Reads /\ RowLocks /\ Logged

LEMMA TypesSuffice == Types <=> TypeOK
  BY DEF Types, RowTypes, Appends, Reads, RowLocks, Logged, TypeOK, Calls

LEMMA Constants == /\ Sessions \subseteq Nat \ {0} /\ Messages \subseteq Nat \ {0}
                   /\ Ttl \in Nat /\ MaxWait \in Nat /\ None \notin Sessions
  BY StoreAssumption DEF None

LEMMA InitTypes == Init => Types
  BY DEF Init, Types, RowTypes, Appends, Reads, RowLocks, Logged, Calls

(* The trimmed rows are among those there were.                              *)
LEMMA LatestAmong == ASSUME NEW ms, NEW limit PROVE LatestOf(ms, limit) \subseteq ms
  BY DEF LatestOf

LEMMA CountedTypes == ASSUME Types, NEW s \in Sessions, Counted(s) PROVE Types'
<1>1. RowTypes'
    BY Constants DEF Types, RowTypes, Appends, Counted
<1>2. stored' = stored /\ log' = log /\ UNCHANGED <<appendVars, readVars, now>>
    BY DEF Counted
<1>3. QED
    BY <1>1, <1>2
    DEF Types, Appends, Reads, RowLocks, Logged, appendVars, readVars, listVars, Counted

LEMMA InsertedTypes == ASSUME Types, NEW s \in Sessions, Inserted(s) PROVE Types'
<1>1. RowTypes'
    BY DEF Types, RowTypes, Inserted
<1>2. QED
    BY <1>1
    DEF Types, Appends, Reads, RowLocks, Logged, appendVars, readVars, listVars, Inserted

LEMMA CascadeTypes == ASSUME Types, NEW s \in Sessions, Cascade(s) PROVE Types'
<1>1. RowTypes'
    BY DEF Types, RowTypes, Cascade
<1>2. RowLocks'
    BY DEF Types, RowLocks, Cascade, Locked, appendVars
<1>3. Logged'
    BY DEF Types, RowTypes, Logged, Cascade, appendVars
<1>4. QED
    BY <1>1, <1>2, <1>3 DEF Types, Appends, Reads, appendVars, readVars, listVars, Cascade

LEMMA BeginTypes == ASSUME Types, NEW m \in Messages, Begin(m) PROVE Types'
<1>1. Appends' /\ RowTypes' /\ Reads'
    BY DEF Types, Appends, RowTypes, Reads, Begin, rowVars, readVars, listVars, Calls
<1>2. RowLocks'
    BY DEF Types, Appends, RowLocks, Begin, rowVars
<1>3. Logged'
    BY DEF Types, Appends, RowTypes, Logged, Begin, rowVars
<1>4. QED
    BY <1>1, <1>2, <1>3 DEF Types

LEMMA FailTypes ==
    ASSUME Types, NEW m \in Messages, appending[m] \in {"begun", "touched"},
           Fail(m), UNCHANGED <<rowVars, readVars, listVars, now>>
    PROVE  Types'
<1>1. Appends' /\ RowTypes' /\ Reads'
    BY DEF Types, Appends, RowTypes, Reads, Fail, rowVars, readVars, listVars, Calls
<1>2. RowLocks'
    BY DEF Types, Appends, RowLocks, Fail, rowVars
<1>3. Logged'
    BY DEF Types, Appends, RowTypes, Logged, Fail, rowVars
<1>4. QED
    BY <1>1, <1>2, <1>3 DEF Types

LEMMA TouchTypes == ASSUME Types, NEW m \in Messages, Touch(m) PROVE Types'
<1>1. CASE target[m] \in LiveAt(began[m])
  <2>0. /\ appending' = [appending EXCEPT ![m] = "touched"]
        /\ UNCHANGED <<target, began>> /\ appending[m] = "begun"
        /\ UNCHANGED <<rowVars, readVars, listVars, now>>
      BY <1>1 DEF Touch
  <2>1. Appends' /\ RowTypes' /\ Reads'
      BY <2>0 DEF Types, Appends, RowTypes, Reads, rowVars, readVars, listVars, Calls
  <2>2. RowLocks'
      BY <1>1, <2>0 DEF Types, Appends, RowLocks, Touch, Locked, LiveAt, rowVars
  <2>3. Logged'
      BY <2>0 DEF Types, Appends, RowTypes, Logged, rowVars
  <2>4. QED
      BY <2>1, <2>2, <2>3 DEF Types
<1>2. CASE target[m] \notin LiveAt(began[m])
    BY <1>2, FailTypes DEF Touch
<1>3. QED
    BY <1>1, <1>2

LEMMA CommitTypes == ASSUME Types, NEW m \in Messages, Commit(m) PROVE Types'
<1> DEFINE s == target[m]
<1>1. s \in stored /\ s \in Sessions /\ m \notin log[s]
    BY DEF Types, RowTypes, RowLocks, Logged, Commit
<1>2. LatestOf(log[s] \cup {m}, HistoryCap) \subseteq log[s] \cup {m}
    BY LatestAmong
<1>3. Appends' /\ Reads'
    BY DEF Types, Appends, Reads, Commit, readVars, listVars, Calls
<1>4. RowTypes'
  <2>1. log' \in [Sessions -> SUBSET Messages]
      BY <1>1, <1>2 DEF Types, RowTypes, Commit
  <2>2. expires' \in [Sessions -> Nat]
    <3>1. began[m] + Ttl \in Nat
        BY Constants DEF Types, Appends
    <3>2. QED
        BY <1>1, <3>1 DEF Types, RowTypes, Commit
  <2>3. count' \in [Sessions -> Nat]
    <3>1. count[s] + 1 \in Nat
        BY <1>1 DEF Types, RowTypes
    <3>2. QED
        BY <1>1, <3>1 DEF Types, RowTypes, Commit
  <2>4. QED
      BY <2>1, <2>2, <2>3 DEF Types, RowTypes, Commit
<1>5. RowLocks'
    BY DEF Types, Appends, RowLocks, Commit
<1>6. Logged'
  <2>1. log'[s] \subseteq log[s] \cup {m}
      BY <1>1, <1>2 DEF Types, RowTypes, Commit
  <2>2. \A t \in Sessions \ {s} : log'[t] = log[t]
      BY <1>1 DEF Types, RowTypes, Commit
  <2>3. \A n \in Messages \ {m} : appending'[n] = appending[n]
      BY DEF Types, Appends, Commit
  <2>4. appending'[m] = "stored" /\ target' = target /\ stored' = stored
      BY DEF Types, Appends, Commit
  <2>5. QED
      BY <1>1, <2>1, <2>2, <2>3, <2>4 DEF Types, RowTypes, Logged
<1>7. QED
    BY <1>3, <1>4, <1>5, <1>6 DEF Types

LEMMA ReadTypes ==
    ASSUME Types, (\E s \in Sessions : HistoryFound(s)) \/ HistoryRead \/ ListPage
    PROVE  Types'
<1>1. UNCHANGED <<rowVars, appendVars, now>>
    BY DEF HistoryFound, HistoryRead, ListPage
<1>2. RowTypes' /\ Appends' /\ RowLocks' /\ Logged'
    BY <1>1 DEF Types, RowTypes, Appends, RowLocks, Logged, rowVars, appendVars
<1>3. Reads'
  <2>1. ASSUME NEW s \in Sessions, HistoryFound(s) PROVE Reads'
    <3>1. LatestOf(log[s], 1) \subseteq Messages
        BY LatestAmong DEF Types, RowTypes
    <3>2. QED
        BY <2>1, <3>1 DEF Types, Reads, HistoryFound, listVars
  <2>2. CASE HistoryRead
      BY <2>2 DEF Types, Reads, HistoryRead, listVars
  <2>3. CASE ListPage
    <3>1. Page \subseteq Sessions /\ LiveAt(now) \subseteq Sessions
        BY DEF Page, Rows, LiveAt, Types, RowTypes
    <3>2. QED
        BY <2>3, <3>1 DEF Types, Reads, ListPage, readVars
  <2>4. QED
      BY <2>1, <2>2, <2>3
<1>4. QED
    BY <1>2, <1>3 DEF Types

LEMMA TickTypes == ASSUME Types, Tick \/ UNCHANGED vars PROVE Types'
  BY DEF Types, RowTypes, Appends, Reads, RowLocks, Logged, Tick, vars,
         rowVars, appendVars, readVars, listVars

LEMMA TypesStep == Types /\ [Next]_vars => Types'
<1> SUFFICES ASSUME Types, [Next]_vars PROVE Types'
    OBVIOUS
<1>1. ASSUME NEW s \in Sessions, Delete(s) \/ Purge(s) PROVE Types'
    BY <1>1, CascadeTypes DEF Delete, Purge
<1>2. ASSUME NEW m \in Messages, RolledBack(m) PROVE Types'
    BY <1>2, FailTypes DEF RolledBack
<1>3. QED
    BY <1>1, <1>2, CountedTypes, InsertedTypes, BeginTypes, TouchTypes, CommitTypes,
       ReadTypes, TickTypes DEF Next

(* No state of the tables is malformed: a locked row stays, a message is     *)
(* stored with the session it was appended to, and no two appends hold the   *)
(* row of one session.                                                       *)
THEOREM TypeCorrect == Spec => []TypeOK
  BY InitTypes, TypesStep, TypesSuffice, PTL DEF Spec

-----------------------------------------------------------------------------
(* Why activity extends: an append waits no longer than MaxWait for its row, *)
(* so whatever was stored before it holds the row began at most that later.  *)

Timely == /\ \A m \in Messages : began[m] <= now
          /\ \A m \in Messages : appending[m] = "begun" => now <= began[m] + MaxWait

Overtaken ==
    \A m, n \in Messages :
        appending[m] = "touched" /\ appending[n] = "stored" /\ target[m] = target[n]
            => began[n] <= began[m] + MaxWait

Targeted ==
    \A m \in Messages : appending[m] \in {"begun", "touched", "stored"} =>
        /\ target[m] \in Sessions
        /\ creating[target[m]] = "stored"

ActivityInv == Types /\ Timely /\ Overtaken /\ Targeted /\ ActivityExtends

LEMMA InitActivity == Init => ActivityInv
<1>1. Init => Timely /\ Overtaken /\ Targeted /\ ActivityExtends
    BY Constants DEF Init, Timely, Overtaken, Targeted, ActivityExtends
<1>2. QED
    BY <1>1, InitTypes DEF ActivityInv

LEMMA CountedActivity ==
    ASSUME ActivityInv, Types', NEW s \in Sessions, Counted(s) PROVE ActivityInv'
<1>1. UNCHANGED <<appending, target, began, now>>
    BY DEF Counted, appendVars
<1>2. ASSUME NEW t \in Sessions, creating[t] = "stored"
      PROVE  creating'[t] = "stored" /\ expires'[t] = expires[t]
    BY <1>2 DEF ActivityInv, Types, RowTypes, Counted
<1>3. Timely' /\ Overtaken' /\ Targeted'
    BY <1>1, <1>2 DEF ActivityInv, Timely, Overtaken, Targeted
<1>4. ActivityExtends'
    BY <1>1, <1>2 DEF ActivityInv, Targeted, ActivityExtends
<1>5. QED
    BY <1>3, <1>4 DEF ActivityInv

(* Steps that neither append, nor open a session, nor let time pass.         *)
LEMMA ElsewhereActivity ==
    ASSUME ActivityInv, Types', UNCHANGED <<expires, appending, target, began, now>>,
           \A t \in Sessions : creating[t] = "stored" => creating'[t] = "stored"
    PROVE  ActivityInv'
  BY DEF ActivityInv, Timely, Overtaken, Targeted, ActivityExtends

LEMMA BeginActivity ==
    ASSUME ActivityInv, Types', NEW m \in Messages, Begin(m) PROVE ActivityInv'
<1>1. ASSUME NEW n \in Messages \ {m}
      PROVE  appending'[n] = appending[n] /\ target'[n] = target[n] /\ began'[n] = began[n]
    BY DEF ActivityInv, Types, Appends, Begin
<1>2. /\ appending'[m] = "begun" /\ began'[m] = now
      /\ target'[m] \in Sessions /\ creating[target'[m]] = "stored"
    BY DEF ActivityInv, Types, Appends, Begin
<1>3. UNCHANGED <<creating, expires, now>> /\ now \in Nat
    BY DEF ActivityInv, Types, Appends, Begin, rowVars
<1>4. Timely'
    BY <1>1, <1>2, <1>3, Constants DEF ActivityInv, Timely
<1>5. Overtaken'
    BY <1>1, <1>2 DEF ActivityInv, Overtaken
<1>6. Targeted'
    BY <1>1, <1>2, <1>3 DEF ActivityInv, Targeted
<1>7. ActivityExtends'
    BY <1>1, <1>2, <1>3 DEF ActivityInv, ActivityExtends
<1>8. QED
    BY <1>4, <1>5, <1>6, <1>7 DEF ActivityInv

LEMMA FailActivity ==
    ASSUME ActivityInv, Types', NEW m \in Messages,
           Fail(m), UNCHANGED <<rowVars, readVars, listVars, now>>
    PROVE  ActivityInv'
<1>1. ASSUME NEW n \in Messages \ {m}
      PROVE  appending'[n] = appending[n] /\ target'[n] = target[n] /\ began'[n] = began[n]
    BY DEF ActivityInv, Types, Appends, Fail
<1>2. appending'[m] = "failed" /\ began'[m] = 0
    BY DEF ActivityInv, Types, Appends, Fail
<1>3. UNCHANGED <<creating, expires, now>> /\ now \in Nat
    BY DEF ActivityInv, Types, Appends, rowVars
<1>4. Timely'
    BY <1>1, <1>2, <1>3 DEF ActivityInv, Timely
<1>5. Overtaken' /\ Targeted' /\ ActivityExtends'
    BY <1>1, <1>2, <1>3 DEF ActivityInv, Overtaken, Targeted, ActivityExtends
<1>6. QED
    BY <1>4, <1>5 DEF ActivityInv

LEMMA TouchActivity ==
    ASSUME ActivityInv, Types', NEW m \in Messages, Touch(m) PROVE ActivityInv'
<1>1. CASE target[m] \in LiveAt(began[m])
  <2>1. /\ appending' = [appending EXCEPT ![m] = "touched"]
        /\ UNCHANGED <<target, began, creating, expires, now>> /\ appending[m] = "begun"
      BY <1>1 DEF Touch, rowVars
  <2>2. ASSUME NEW n \in Messages \ {m} PROVE appending'[n] = appending[n]
      BY <2>1 DEF ActivityInv, Types, Appends
  <2>3. appending'[m] = "touched"
      BY <2>1 DEF ActivityInv, Types, Appends
  <2>4. Timely'
      BY <2>1, <2>2, <2>3 DEF ActivityInv, Timely
  <2>5. Overtaken'
    <3>1. ASSUME NEW n \in Messages PROVE began[n] <= began[m] + MaxWait
      <4>1. began[n] <= now /\ now <= began[m] + MaxWait
          BY <2>1 DEF ActivityInv, Timely
      <4>2. began[n] \in Nat /\ began[m] \in Nat /\ now \in Nat
          BY DEF ActivityInv, Types, Appends
      <4>3. QED
          BY <4>1, <4>2, Constants
    <3>2. QED
        BY <2>1, <2>2, <2>3, <3>1 DEF ActivityInv, Overtaken
  <2>6. Targeted' /\ ActivityExtends'
      BY <2>1, <2>2, <2>3 DEF ActivityInv, Targeted, ActivityExtends
  <2>7. QED
      BY <2>4, <2>5, <2>6 DEF ActivityInv
<1>2. CASE target[m] \notin LiveAt(began[m])
    BY <1>2, FailActivity DEF Touch
<1>3. QED
    BY <1>1, <1>2

LEMMA CommitActivity ==
    ASSUME ActivityInv, Types', NEW m \in Messages, Commit(m) PROVE ActivityInv'
<1> DEFINE s == target[m]
<1>1. appending[m] = "touched" /\ UNCHANGED <<creating, target, began, now>>
    BY DEF Commit
<1>2. appending'[m] = "stored" /\ \A n \in Messages \ {m} : appending'[n] = appending[n]
    BY DEF ActivityInv, Types, Appends, Commit
<1>3. s \in Sessions
    BY <1>1 DEF ActivityInv, Targeted
<1>4. expires'[s] = began[m] + Ttl /\ \A t \in Sessions \ {s} : expires'[t] = expires[t]
    BY <1>3 DEF ActivityInv, Types, RowTypes, Commit
<1>5. Timely' /\ Targeted'
    BY <1>1, <1>2 DEF ActivityInv, Timely, Targeted
<1>6. Overtaken'
  <2>1. \A k \in Messages \ {m} : appending[k] = "touched" => target[k] # s
      BY <1>1 DEF ActivityInv, Types, RowLocks
  <2>2. QED
      BY <1>1, <1>2, <2>1 DEF ActivityInv, Overtaken
<1>7. ASSUME NEW n \in Messages, appending'[n] = "stored"
      PROVE  expires'[target[n]] + MaxWait >= began[n] + Ttl
  <2>1. began[n] \in Nat /\ began[m] \in Nat /\ Ttl \in Nat /\ MaxWait \in Nat
      BY Constants DEF ActivityInv, Types, Appends
  <2>2. CASE n = m
      BY <1>4, <2>1, <2>2
  <2>3. CASE n # m /\ target[n] = s
    <3>1. began[n] <= began[m] + MaxWait
        BY <1>1, <1>2, <1>7, <2>3 DEF ActivityInv, Overtaken
    <3>2. QED
        BY <1>4, <2>1, <2>3, <3>1
  <2>4. CASE n # m /\ target[n] # s
    <3>1. target[n] \in Sessions /\ appending[n] = "stored"
        BY <1>2, <1>7, <2>4 DEF ActivityInv, Targeted
    <3>2. expires'[target[n]] = expires[target[n]]
        BY <1>4, <2>4, <3>1
    <3>3. QED
        BY <3>1, <3>2 DEF ActivityInv, ActivityExtends
  <2>5. QED
      BY <2>2, <2>3, <2>4
<1>8. ActivityExtends'
    BY <1>1, <1>7 DEF ActivityExtends
<1>9. QED
    BY <1>5, <1>6, <1>8 DEF ActivityInv

LEMMA TickActivity == ASSUME ActivityInv, Types', Tick PROVE ActivityInv'
<1>1. UNCHANGED <<creating, expires, appending, target, began>> /\ now' = now + 1
    BY DEF Tick, rowVars, appendVars
<1>2. Timely'
  <2>1. ASSUME NEW m \in Messages
        PROVE  /\ began[m] <= now + 1
               /\ appending[m] = "begun" => now + 1 <= began[m] + MaxWait
    <3>1. began[m] \in Nat /\ now \in Nat /\ MaxWait \in Nat
        BY Constants DEF ActivityInv, Types, Appends
    <3>2. began[m] <= now /\ (appending[m] = "begun" => now < began[m] + MaxWait)
        BY DEF ActivityInv, Timely, Tick
    <3>3. QED
        BY <3>1, <3>2
  <2>2. QED
      BY <1>1, <2>1 DEF Timely
<1>3. Overtaken' /\ Targeted' /\ ActivityExtends'
    BY <1>1 DEF ActivityInv, Overtaken, Targeted, ActivityExtends
<1>4. QED
    BY <1>2, <1>3 DEF ActivityInv

LEMMA ActivityStep == ActivityInv /\ [Next]_vars => ActivityInv'
<1> SUFFICES ASSUME ActivityInv, [Next]_vars PROVE ActivityInv'
    OBVIOUS
<1>1. Types'
    BY TypesStep DEF ActivityInv
<1>2. ASSUME NEW s \in Sessions, Inserted(s) \/ Delete(s) \/ Purge(s) \/ HistoryFound(s)
      PROVE  ActivityInv'
  <2>1. UNCHANGED <<expires, appending, target, began, now>>
      BY <1>2 DEF Inserted, Delete, Purge, Cascade, HistoryFound, appendVars, rowVars
  <2>2. \A t \in Sessions : creating[t] = "stored" => creating'[t] = "stored"
      BY <1>2 DEF Inserted, Delete, Purge, Cascade, HistoryFound, rowVars,
                  ActivityInv, Types, RowTypes
  <2>3. QED
      BY <1>1, <2>1, <2>2, ElsewhereActivity
<1>3. CASE HistoryRead \/ ListPage \/ UNCHANGED vars
    BY <1>1, <1>3, ElsewhereActivity DEF HistoryRead, ListPage, vars, rowVars, appendVars
<1>4. ASSUME NEW m \in Messages, RolledBack(m) PROVE ActivityInv'
    BY <1>1, <1>4, FailActivity DEF RolledBack
<1>5. QED
    BY <1>1, <1>2, <1>3, <1>4, CountedActivity, BeginActivity, TouchActivity,
       CommitActivity, TickActivity DEF Next

(* A session is kept for its time-to-live after the last activity in it,     *)
(* less the time an append may wait for the row while another overtakes it.  *)
THEOREM ActivityExtendsAlways == Spec => []ActivityExtends
<1>1. ActivityInv => ActivityExtends
    BY DEF ActivityInv
<1>2. QED
    BY <1>1, InitActivity, ActivityStep, PTL DEF Spec

-----------------------------------------------------------------------------
(* Paging.  A page is the newest of the rows past the cursor: what it leaves *)
(* out is older than all it shows.                                           *)

LEMMA PageNewest ==
    ASSUME Types, NEW s \in Rows \ Page, NEW p \in Page
    PROVE  Older(s, p)
<1>1. s \in Sessions /\ p \in Sessions /\ p \in Rows /\ IsFiniteSet(Rows)
  <2>1. Rows \subseteq Sessions
      BY DEF Rows, LiveAt, Types, RowTypes
  <2>2. IsFiniteSet(Rows)
      BY <2>1, StoreAssumption, FS_Subset
  <2>3. QED
      BY <2>1, <2>2 DEF Page
<1>2. created[s] \in Nat /\ created[p] \in Nat /\ s \in Nat /\ p \in Nat /\ s # p
    BY <1>1, Constants DEF Types, RowTypes
<1>3. ASSUME Older(p, s) PROVE FALSE
  <2> DEFINE above(x) == {t \in Rows : Older(x, t)}
  <2>1. \A t \in Rows : created[t] \in Nat /\ t \in Nat
      BY Constants DEF Rows, LiveAt, Types, RowTypes
  <2>2. above(s) \subseteq above(p)
    <3>1. ASSUME NEW t \in Rows, Older(s, t) PROVE Older(p, t)
      <4>1. created[t] \in Nat /\ t \in Nat
          BY <2>1
      <4>2. QED
          BY <1>2, <1>3, <3>1, <4>1 DEF Older
    <3>2. QED
        BY <3>1
  <2>3. IsFiniteSet(above(p)) /\ IsFiniteSet(above(s))
      BY <1>1, FS_Subset
  <2>4. Cardinality(above(s)) <= Cardinality(above(p))
      BY <2>2, <2>3, FS_Subset
  <2>5. Cardinality(above(p)) < Limit
      BY DEF Page
  <2>6. Cardinality(above(s)) < Limit
    <3>1. Cardinality(above(s)) \in Nat /\ Cardinality(above(p)) \in Nat /\ Limit \in Nat
        BY <2>3, FS_CardinalityType, StoreAssumption
    <3>2. QED
        BY <2>4, <2>5, <3>1
  <2>7. QED
      BY <2>6 DEF Page
<1>4. QED
    BY <1>2, <1>3 DEF Older

(* Whatever a listing has shown is at its cursor or newer, and of what has   *)
(* been alive throughout, the rest is older.                                 *)
PagingInv ==
    /\ \A s \in listed \cup steady : creating[s] = "stored"
    /\ cursor # None => creating[cursor] = "stored"
    /\ cursor = None => listed = {} /\ steady = {}
    /\ cursor # None => /\ \A s \in listed : ~Older(s, cursor)
                        /\ \A s \in steady : Older(s, cursor) \/ s \in listed

LEMMA PagingElsewhere ==
    ASSUME Types, PagingInv, UNCHANGED listVars,
           \A s \in Sessions : creating[s] = "stored" =>
               creating'[s] = "stored" /\ created'[s] = created[s]
    PROVE  PagingInv'
  BY DEF Types, Reads, PagingInv, Older, listVars

LEMMA PagingOn ==
    ASSUME Types, PagingInv, ListPage
    PROVE  PagingInv'
<1>1. UNCHANGED <<creating, created>>
    BY DEF ListPage, rowVars
<1>2. Page \subseteq Rows /\ Rows \subseteq LiveAt(now) /\ LiveAt(now) \subseteq stored
    BY DEF Page, Rows, LiveAt
<1>3. \A s \in stored : s \in Sessions /\ creating[s] = "stored"
    BY DEF Types, RowTypes
<1>4. CASE Page = Rows
    BY <1>4 DEF ListPage, PagingInv
<1>5. CASE Page # Rows
  <2>1. PICK c \in Page :
            /\ cursor' = c /\ \A t \in Page \ {c} : Older(c, t)
            /\ listed' = listed \cup Page
            /\ steady' = IF cursor = None THEN LiveAt(now) ELSE steady \cap LiveAt(now)
      BY <1>5 DEF ListPage
  <2>2. c \in Sessions /\ c # None /\ PastCursor(c) /\ c \in Nat /\ created[c] \in Nat
      BY <1>2, <1>3, Constants DEF Rows, Types, RowTypes
  <2>3. \A s \in listed' \cup steady' : creating[s] = "stored"
      BY <1>2, <1>3, <2>1 DEF PagingInv
  <2>4. creating[c] = "stored"
      BY <1>2, <1>3, <2>2
  <2>5. ASSUME NEW s \in listed' PROVE ~Older(s, c)
    <3>1. CASE s \in Page
      <4>1. s \in Nat /\ created[s] \in Nat
          BY <1>2, <1>3, <3>1, Constants DEF Types, RowTypes
      <4>2. s = c \/ Older(c, s)
          BY <2>1, <3>1
      <4>3. QED
          BY <2>2, <4>1, <4>2 DEF Older
    <3>2. CASE s \in listed
      <4>1. cursor # None /\ cursor \in Sessions /\ s \in Sessions /\ ~Older(s, cursor) /\ Older(c, cursor)
          BY <2>2, <3>2 DEF PagingInv, PastCursor, Types, Reads
      <4>2. s \in Nat /\ created[s] \in Nat /\ cursor \in Nat /\ created[cursor] \in Nat
          BY <4>1, Constants DEF Types, RowTypes
      <4>3. QED
          BY <2>2, <4>1, <4>2 DEF Older
    <3>3. QED
        BY <2>1, <3>1, <3>2
  <2>6. ASSUME NEW s \in steady' PROVE Older(s, c) \/ s \in listed'
    <3>1. s \in LiveAt(now) /\ (cursor # None => Older(s, cursor) \/ s \in listed)
        BY <2>1 DEF PagingInv
    <3>2. CASE s \in listed
        BY <2>1, <3>2
    <3>3. CASE s \in Rows
      <4>1. s \in Page \/ Older(s, c)
          BY <2>2, <3>3, PageNewest
      <4>2. QED
          BY <2>1, <4>1
    <3>4. QED
        BY <3>1, <3>2, <3>3 DEF Rows, PastCursor
  <2>7. \A s : Older(s, cursor)' <=> Older(s, c)
      BY <1>1, <2>1 DEF Older
  <2>8. QED
      BY <1>1, <2>1, <2>2, <2>3, <2>4, <2>5, <2>6, <2>7 DEF PagingInv
<1>6. QED
    BY <1>4, <1>5

LEMMA PagingStep == Types /\ PagingInv /\ [Next]_vars => PagingInv'
<1> SUFFICES ASSUME Types, PagingInv, [Next]_vars PROVE PagingInv'
    OBVIOUS
<1>1. ASSUME NEW s \in Sessions, Counted(s) PROVE PagingInv'
  <2>1. \A t \in Sessions : creating[t] = "stored" =>
            creating'[t] = "stored" /\ created'[t] = created[t]
      BY <1>1 DEF Counted, Types, RowTypes
  <2>2. QED
      BY <1>1, <2>1, PagingElsewhere DEF Counted
<1>2. ASSUME NEW s \in Sessions, Inserted(s) PROVE PagingInv'
  <2>1. \A t \in Sessions : creating[t] = "stored" =>
            creating'[t] = "stored" /\ created'[t] = created[t]
      BY <1>2 DEF Inserted, Types, RowTypes
  <2>2. QED
      BY <1>2, <2>1, PagingElsewhere DEF Inserted
<1>3. CASE ListPage
    BY <1>3, PagingOn
<1>4. CASE UNCHANGED <<creating, created, listVars>>
    BY <1>4, PagingElsewhere
<1>5. QED
    BY <1>1, <1>2, <1>3, <1>4
    DEF Next, Delete, Purge, Cascade, HistoryFound, Begin, Touch, Commit, RolledBack, HistoryRead,
        Tick, vars, rowVars

(* Whoever follows the cursor to its end has seen every session that was     *)
(* alive throughout, and none twice, whatever is created, deleted or expires *)
(* between the pages.                                                        *)
THEOREM PagingCompleteAlways == Spec => []PagingComplete
<1>1. Init => PagingInv
    BY DEF Init, PagingInv
<1>2. Types /\ PagingInv => PagingComplete
    BY DEF PagingInv, PagingComplete, Page, Rows, PastCursor
<1>3. QED
    BY <1>1, <1>2, InitTypes, TypesStep, PagingStep, PTL DEF Spec

-----------------------------------------------------------------------------
(* Reading.  However short a tail of the history is, it holds the newest     *)
(* message, and so one as new as any.                                        *)

LEMMA LeastNat ==
    ASSUME NEW ns \in SUBSET Nat, ns # {}
    PROVE  \E n \in ns : \A k \in ns : n <= k
<1>1. PICK n \in ns : \A k \in ns : <<k, n>> \notin OpToRel(<, Nat)
    BY NatLessThanWellFounded, WFMin
<1>2. \A k \in ns : ~(k < n)
    BY <1>1, Zenon DEF OpToRel
<1>3. QED
    BY <1>2

LEMMA BeforeOrder ==
    ASSUME Types, NEW m \in Messages, NEW n \in Messages, NEW k \in Messages
    PROVE  /\ ~Before(m, m)
           /\ Before(m, n) /\ Before(n, k) => Before(m, k)
<1>1. /\ m \in Nat /\ n \in Nat /\ k \in Nat
      /\ began[m] \in Nat /\ began[n] \in Nat /\ began[k] \in Nat
    BY Constants DEF Types, Appends
<1>2. QED
    BY <1>1 DEF Before

LEMMA LatestSome ==
    ASSUME Types, NEW ms \in SUBSET Messages, NEW w \in ms, NEW limit \in Nat \ {0}
    PROVE  \E m \in LatestOf(ms, limit) : m = w \/ Before(w, m)
<1> DEFINE after(m) == {n \in ms : Before(m, n)}
           late == {m \in ms : m = w \/ Before(w, m)}
           sizes == {Cardinality(after(m)) : m \in late}
<1>1. IsFiniteSet(ms)
    BY StoreAssumption, FS_Subset
<1>2. \A m \in ms : IsFiniteSet(after(m)) /\ Cardinality(after(m)) \in Nat
    BY <1>1, FS_Subset, FS_CardinalityType
<1>3. sizes \in SUBSET Nat /\ sizes # {}
    BY <1>2
<1>4. PICK m \in late : \A n \in late : Cardinality(after(m)) <= Cardinality(after(n))
  <2>1. PICK c \in sizes : \A k \in sizes : c <= k
      BY <1>3, LeastNat
  <2>2. QED
      BY <2>1
<1>5. ASSUME NEW n \in after(m) PROVE FALSE
  <2>1. n \in late
      BY <1>5, BeforeOrder
  <2>2. after(n) \subseteq after(m) \ {n}
    <3>1. ASSUME NEW k \in after(n) PROVE k \in after(m) \ {n}
        BY <1>5, <3>1, BeforeOrder
    <3>2. QED
        BY <3>1
  <2>3. /\ IsFiniteSet(after(m) \ {n})
        /\ Cardinality(after(m) \ {n}) = Cardinality(after(m)) - 1
      BY <1>2, <1>5, FS_RemoveElement
  <2>4. Cardinality(after(n)) <= Cardinality(after(m)) - 1
      BY <2>2, <2>3, FS_Subset
  <2>5. Cardinality(after(m)) <= Cardinality(after(n))
      BY <1>4, <2>1
  <2>6. Cardinality(after(m)) \in Nat /\ Cardinality(after(n)) \in Nat
      BY <1>2, <2>1
  <2> HIDE DEF after
  <2>7. QED
      BY <2>4, <2>5, <2>6
<1>6. after(m) = {}
    BY <1>5
<1>7. Cardinality(after(m)) < limit
    BY <1>6, FS_EmptySet
<1>8. QED
    BY <1>4, <1>7 DEF LatestOf

(* While a call is between its statements, its session, if it is still       *)
(* there, holds the newest message of the first one or a later one.          *)
ReadingInv ==
    newest # None =>
        /\ appending[newest] = "stored"
        /\ reading \in Sessions /\ creating[reading] = "stored"
        /\ reading \in stored =>
               \E m \in log[reading] : m = newest \/ Before(newest, m)

LEMMA ReadingElsewhere ==
    ASSUME Types, ReadingInv, UNCHANGED readVars,
           \A m \in Messages : appending[m] = "stored" =>
               appending'[m] = "stored" /\ began'[m] = began[m],
           \A s \in Sessions : creating[s] = "stored" =>
               /\ creating'[s] = "stored"
               /\ s \in stored' => s \in stored /\ log'[s] = log[s]
    PROVE  ReadingInv'
<1> SUFFICES ASSUME newest # None PROVE ReadingInv'
    BY DEF ReadingInv, readVars
<1>1. newest' = newest /\ reading' = reading /\ newest \in Messages /\ reading \in Sessions
    BY DEF Types, Reads, readVars, ReadingInv
<1>2. appending'[newest] = "stored" /\ creating'[reading] = "stored" /\ began'[newest] = began[newest]
    BY <1>1 DEF ReadingInv
<1>3. ASSUME reading \in stored'
      PROVE  \E m \in log'[reading] : m = newest \/ Before(newest, m)'
  <2>1. reading \in stored /\ log'[reading] = log[reading]
      BY <1>1, <1>3 DEF ReadingInv
  <2>2. PICK m \in log[reading] : m = newest \/ Before(newest, m)
      BY <2>1 DEF ReadingInv
  <2>3. m \in Messages /\ began'[m] = began[m]
      BY <1>1 DEF Types, RowTypes, Logged
  <2>4. m = newest \/ Before(newest, m)'
      BY <1>1, <1>2, <2>2, <2>3 DEF Before
  <2>5. QED
      BY <2>1, <2>4
<1>4. QED
    BY <1>1, <1>2, <1>3 DEF ReadingInv, Before

LEMMA ReadingFound ==
    ASSUME Types, NEW s \in Sessions, HistoryFound(s) PROVE ReadingInv'
<1>1. /\ s \in stored /\ creating[s] = "stored" /\ reading' = s
      /\ UNCHANGED <<creating, stored, log, appending, began>>
    BY DEF HistoryFound, LiveAt, Types, RowTypes, rowVars, appendVars
<1>2. newest' # None => newest' \in log[s]
    BY DEF HistoryFound, LatestOf
<1>3. newest' # None => appending[newest'] = "stored"
    BY <1>2 DEF Types, Logged
<1>4. QED
    BY <1>1, <1>2, <1>3 DEF ReadingInv

LEMMA ReadingCommit ==
    ASSUME Types, ReadingInv, NEW m \in Messages, Commit(m) PROVE ReadingInv'
<1> SUFFICES ASSUME newest # None PROVE ReadingInv'
    BY DEF Commit, ReadingInv, readVars
<1>1. /\ UNCHANGED <<creating, stored, began, reading, newest>> /\ target[m] \in stored
      /\ newest \in Messages /\ appending[newest] = "stored" /\ reading \in Sessions
      /\ creating[reading] = "stored"
    BY DEF Commit, readVars, Types, RowLocks, Reads, ReadingInv
<1>2. appending'[newest] = "stored"
    BY <1>1 DEF Commit, Types, Appends
<1>3. ASSUME reading \in stored
      PROVE  \E n \in log'[reading] : n = newest \/ Before(newest, n)
  <2>1. PICK w \in log[reading] : w = newest \/ Before(newest, w)
      BY <1>1, <1>3 DEF ReadingInv
  <2>2. CASE reading # target[m]
    <3>1. log'[reading] = log[reading]
        BY <1>1, <2>2 DEF Commit, Types, RowTypes
    <3>2. QED
        BY <2>1, <3>1
  <2>3. CASE reading = target[m]
    <3> DEFINE ms == log[reading] \cup {m}
    <3>1. ms \in SUBSET Messages /\ log'[reading] = LatestOf(ms, HistoryCap)
        BY <1>1, <2>3 DEF Commit, Types, RowTypes
    <3>2. HistoryCap \in Nat \ {0}
        BY StoreAssumption
    <3>3. PICK n \in LatestOf(ms, HistoryCap) : n = w \/ Before(w, n)
        BY <2>1, <3>1, <3>2, LatestSome
    <3>4. n \in Messages /\ w \in Messages
        BY <2>1, <3>1 DEF LatestOf
    <3>5. n = newest \/ Before(newest, n)
        BY <1>1, <2>1, <3>3, <3>4, BeforeOrder
    <3>6. QED
        BY <3>1, <3>3, <3>5
  <2>4. QED
      BY <2>2, <2>3
<1>4. \A n : Before(newest, n)' <=> Before(newest, n)
    BY <1>1 DEF Before
<1>5. QED
    BY <1>1, <1>2, <1>3, <1>4 DEF ReadingInv

LEMMA ReadingStep == Types /\ ReadingInv /\ [Next]_vars => ReadingInv'
<1> SUFFICES ASSUME Types, ReadingInv, [Next]_vars PROVE ReadingInv'
    OBVIOUS
<1>1. ASSUME NEW s \in Sessions, Counted(s) PROVE ReadingInv'
  <2>1. \A t \in Sessions : creating[t] = "stored" => creating'[t] = "stored"
      BY <1>1 DEF Counted, Types, RowTypes
  <2>2. UNCHANGED <<stored, log, appending, began, readVars>>
      BY <1>1 DEF Counted, appendVars
  <2>3. QED
      BY <2>1, <2>2, ReadingElsewhere
<1>2. ASSUME NEW s \in Sessions, Inserted(s) PROVE ReadingInv'
  <2>1. \A t \in Sessions : creating[t] = "stored" =>
            creating'[t] = "stored" /\ (t \in stored' => t \in stored)
      BY <1>2 DEF Inserted, Types, RowTypes
  <2>2. UNCHANGED <<log, appending, began, readVars>>
      BY <1>2 DEF Inserted, appendVars
  <2>3. QED
      BY <2>1, <2>2, ReadingElsewhere
<1>3. ASSUME NEW s \in Sessions, Cascade(s) PROVE ReadingInv'
  <2>1. \A t \in Sessions : t \in stored' => t \in stored /\ log'[t] = log[t]
      BY <1>3 DEF Cascade, Types, RowTypes
  <2>2. UNCHANGED <<creating, appending, began, readVars>>
      BY <1>3 DEF Cascade, appendVars
  <2>3. QED
      BY <2>1, <2>2, ReadingElsewhere
<1>4. ASSUME NEW s \in Sessions, HistoryFound(s) PROVE ReadingInv'
    BY <1>4, ReadingFound
<1>5. ASSUME NEW m \in Messages, Begin(m) \/ Touch(m) \/ RolledBack(m) PROVE ReadingInv'
  <2>1. appending[m] # "stored" /\ \A n \in Messages \ {m} :
            appending'[n] = appending[n] /\ began'[n] = began[n]
      BY <1>5 DEF Begin, Touch, RolledBack, Fail, Types, Appends
  <2>2. UNCHANGED <<rowVars, readVars>>
      BY <1>5 DEF Begin, Touch, RolledBack
  <2>3. QED
      BY <2>1, <2>2, ReadingElsewhere DEF rowVars
<1>6. ASSUME NEW m \in Messages, Commit(m) PROVE ReadingInv'
    BY <1>6, ReadingCommit
<1>7. CASE HistoryRead
    BY <1>7 DEF HistoryRead, ReadingInv
<1>8. CASE UNCHANGED <<rowVars, appendVars, readVars>>
    BY <1>8, ReadingElsewhere DEF rowVars, appendVars
<1>9. QED
    BY <1>1, <1>2, <1>3, <1>4, <1>5, <1>6, <1>7, <1>8
    DEF Next, Delete, Purge, ListPage, Tick, vars

(* A history shows the newest message there was when its call began, or a    *)
(* later one, although its two statements have a snapshot each and messages  *)
(* are stored and trimmed between them.                                      *)
THEOREM HistoryShowsNewestAlways == Spec => []HistoryShowsNewest
<1>1. Init => ReadingInv
    BY DEF Init, ReadingInv
<1>2. Types /\ ReadingInv => HistoryShowsNewest
  <2> SUFFICES ASSUME Types, ReadingInv, newest # None, reading \in stored
               PROVE  \E m \in HistoryRows(reading) : m = newest \/ Before(newest, m)
      BY DEF HistoryShowsNewest
  <2>1. PICK w \in log[reading] : w = newest \/ Before(newest, w)
      BY DEF ReadingInv
  <2>2. log[reading] \in SUBSET Messages /\ newest \in Messages /\ Limit \in Nat \ {0}
      BY StoreAssumption DEF ReadingInv, Types, RowTypes, Reads
  <2>3. PICK m \in LatestOf(log[reading], Limit) : m = w \/ Before(w, m)
      BY <2>1, <2>2, LatestSome
  <2>4. m \in Messages /\ w \in Messages
      BY <2>1, <2>2, <2>3 DEF LatestOf
  <2>5. m = newest \/ Before(newest, m)
      BY <2>1, <2>2, <2>3, <2>4, BeforeOrder
  <2>6. QED
      BY <2>3, <2>5 DEF HistoryRows
<1>3. QED
    BY <1>1, <1>2, InitTypes, TypesStep, ReadingStep, PTL DEF Spec

-----------------------------------------------------------------------------
(* Histories as sequences.  Before and Ordered with the stamps as an         *)
(* argument, so that the lemmas hold of this state and of the next.          *)

Prior(b, m, n) == b[m] < b[n] \/ (b[m] = b[n] /\ m < n)

Earlier(b, ms, m) == {n \in ms : Prior(b, n, m)}
Later(b, ms, m) == {n \in ms : Prior(b, m, n)}

Sorted(b, ms) == [k \in 1 .. Cardinality(ms) |->
                     CHOOSE m \in ms : Cardinality(Earlier(b, ms, m)) = k - 1]

Newest(b, ms, limit) == {m \in ms : Cardinality(Later(b, ms, m)) < limit}

(* A sequence of all of some messages, in their order.                       *)
Enumerates(b, ms, t) ==
    /\ t \in [1 .. Cardinality(ms) -> ms]
    /\ \A i, j \in 1 .. Cardinality(ms) : i < j => Prior(b, t[i], t[j])

LEMMA SortedIsOrdered == \A ms : Ordered(ms) = Sorted(began, ms)
  BY DEF Ordered, Sorted, Earlier, Before, Prior

LEMMA PriorOrder ==
    ASSUME NEW b \in [Messages -> Nat], NEW m \in Messages, NEW n \in Messages, NEW k \in Messages
    PROVE  /\ ~Prior(b, m, m)
           /\ ~(Prior(b, m, n) /\ Prior(b, n, m))
           /\ Prior(b, m, n) /\ Prior(b, n, k) => Prior(b, m, k)
           /\ m = n \/ Prior(b, m, n) \/ Prior(b, n, m)
<1>1. m \in Nat /\ n \in Nat /\ k \in Nat /\ b[m] \in Nat /\ b[n] \in Nat /\ b[k] \in Nat
    BY StoreAssumption
<1>2. QED
    BY <1>1 DEF Prior

LEMMA MessagesFinite ==
    ASSUME NEW ms \in SUBSET Messages
    PROVE  IsFiniteSet(ms) /\ Cardinality(ms) \in Nat
  BY StoreAssumption, FS_Subset, FS_CardinalityType

(* As many places as messages: an enumeration has each of them once.         *)
LEMMA EnumerationOnto ==
    ASSUME NEW b \in [Messages -> Nat], NEW ms \in SUBSET Messages, NEW t, Enumerates(b, ms, t)
    PROVE  /\ \A i, j \in 1 .. Cardinality(ms) : t[i] = t[j] => i = j
           /\ \A m \in ms : \E k \in 1 .. Cardinality(ms) : t[k] = m
<1> DEFINE n == Cardinality(ms)
<1>1. n \in Nat /\ IsFiniteSet(ms)
    BY MessagesFinite
<1> HIDE DEF n
<1>2. t \in [1 .. n -> ms] /\ \A i, j \in 1 .. n : i < j => Prior(b, t[i], t[j])
    BY DEF Enumerates, n
<1>3. \A i, j \in 1 .. n : t[i] = t[j] => i = j
  <2> SUFFICES ASSUME NEW i \in 1 .. n, NEW j \in 1 .. n, t[i] = t[j], i # j PROVE FALSE
      OBVIOUS
  <2>1. i < j \/ j < i
      BY <1>1
  <2>2. Prior(b, t[i], t[i])
      BY <1>2, <2>1
  <2>3. t[i] \in Messages
      BY <1>2
  <2>4. QED
      BY <2>2, <2>3, PriorOrder
<1>4. t \in Injection(1 .. n, ms)
    BY <1>2, <1>3, Fun_IsInj
<1>5. Cardinality(1 .. n) = n
    BY <1>1, FS_Interval
<1>6. t \in Surjection(1 .. n, ms)
    BY <1>1, <1>4, <1>5, FS_Injection DEF n
<1>7. \A m \in ms : \E k \in 1 .. n : t[k] = m
    BY <1>6 DEF Surjection
<1>8. QED
    BY <1>3, <1>7 DEF n

(* Before the k-th message of an enumeration there are k - 1.                *)
LEMMA EnumerationCounts ==
    ASSUME NEW b \in [Messages -> Nat], NEW ms \in SUBSET Messages, NEW t, Enumerates(b, ms, t),
           NEW k \in 1 .. Cardinality(ms)
    PROVE  /\ Cardinality(Earlier(b, ms, t[k])) = k - 1
           /\ Cardinality(Later(b, ms, t[k])) = Cardinality(ms) - k
<1> DEFINE n == Cardinality(ms)
<1>1. n \in Nat
    BY MessagesFinite
<1> HIDE DEF n
<1>2. /\ t \in [1 .. n -> ms] /\ k \in 1 .. n
      /\ \A i, j \in 1 .. n : i < j => Prior(b, t[i], t[j])
      /\ \A i, j \in 1 .. n : t[i] = t[j] => i = j
      /\ \A m \in ms : \E i \in 1 .. n : t[i] = m
  <2>1. /\ \A i, j \in 1 .. Cardinality(ms) : t[i] = t[j] => i = j
        /\ \A m \in ms : \E i \in 1 .. Cardinality(ms) : t[i] = m
      BY EnumerationOnto
  <2>2. QED
      BY <2>1 DEF Enumerates, n
<1>3. \A i \in 1 .. n : /\ Prior(b, t[i], t[k]) <=> i < k
                        /\ Prior(b, t[k], t[i]) <=> k < i
  <2> SUFFICES ASSUME NEW i \in 1 .. n
               PROVE  /\ Prior(b, t[i], t[k]) <=> i < k
                      /\ Prior(b, t[k], t[i]) <=> k < i
      OBVIOUS
  <2>1. t[i] \in Messages /\ t[k] \in Messages
      BY <1>2
  <2>2. i < k => Prior(b, t[i], t[k])
      BY <1>2
  <2>3. k < i => Prior(b, t[k], t[i])
      BY <1>2
  <2>4. i < k \/ k < i \/ i = k
      BY <1>1, <1>2
  <2>5. ~(i < k /\ k < i) /\ (i = k => ~(i < k) /\ ~(k < i))
      BY <1>1, <1>2
  <2>6. ~Prior(b, t[k], t[k]) /\ ~(Prior(b, t[i], t[k]) /\ Prior(b, t[k], t[i]))
      BY <2>1, PriorOrder
  <2>7. QED
      BY <2>2, <2>3, <2>4, <2>5, <2>6
<1>4. Cardinality(Earlier(b, ms, t[k])) = k - 1
  <2> DEFINE f == [i \in 1 .. k - 1 |-> t[i]]
             S == Earlier(b, ms, t[k])
  <2>1. \A i \in 1 .. k - 1 : i \in 1 .. n /\ i < k
      BY <1>1, <1>2
  <2>2. f \in [1 .. k - 1 -> S]
      BY <1>2, <1>3, <2>1 DEF Earlier
  <2>3. \A i, j \in 1 .. k - 1 : f[i] = f[j] => i = j
      BY <1>2, <2>1
  <2>4. \A m \in S : \E i \in 1 .. k - 1 : f[i] = m
    <3> SUFFICES ASSUME NEW m \in S PROVE \E i \in 1 .. k - 1 : f[i] = m
        OBVIOUS
    <3>1. PICK i \in 1 .. n : t[i] = m
        BY <1>2 DEF Earlier
    <3>2. i < k
        BY <1>3, <3>1 DEF Earlier
    <3>3. i \in 1 .. k - 1
        BY <1>1, <1>2, <3>2
    <3>4. QED
        BY <3>1, <3>3
  <2> HIDE DEF f, S
  <2>5. f \in Bijection(1 .. k - 1, S)
      BY <2>2, <2>3, <2>4, Fun_IsBij
  <2>6. ExistsBijection(1 .. k - 1, S) /\ k - 1 \in Nat
      BY <1>1, <1>2, <2>5 DEF ExistsBijection
  <2>7. Cardinality(S) = k - 1
      BY <2>6, FS_CountingElements
  <2>8. QED
      BY <2>7 DEF S
<1>5. Cardinality(Later(b, ms, t[k])) = n - k
  <2> DEFINE f == [i \in 1 .. n - k |-> t[i + k]]
             S == Later(b, ms, t[k])
  <2>1. \A i \in 1 .. n - k : i + k \in 1 .. n /\ k < i + k
      BY <1>1, <1>2
  <2>2. f \in [1 .. n - k -> S]
      BY <1>2, <1>3, <2>1 DEF Later
  <2>3. \A i, j \in 1 .. n - k : f[i] = f[j] => i = j
    <3> SUFFICES ASSUME NEW i \in 1 .. n - k, NEW j \in 1 .. n - k, f[i] = f[j] PROVE i = j
        OBVIOUS
    <3>1. i + k = j + k
        BY <1>2, <2>1
    <3>2. QED
        BY <1>1, <1>2, <3>1
  <2>4. \A m \in S : \E i \in 1 .. n - k : f[i] = m
    <3> SUFFICES ASSUME NEW m \in S PROVE \E i \in 1 .. n - k : f[i] = m
        OBVIOUS
    <3>1. PICK i \in 1 .. n : t[i] = m
        BY <1>2 DEF Later
    <3>2. k < i
        BY <1>3, <3>1 DEF Later
    <3>3. i - k \in 1 .. n - k /\ (i - k) + k = i
        BY <1>1, <1>2, <3>2
    <3>4. f[i - k] = m
        BY <3>1, <3>3
    <3>5. QED
        BY <3>3, <3>4
  <2> HIDE DEF f, S
  <2>5. f \in Bijection(1 .. n - k, S)
      BY <2>2, <2>3, <2>4, Fun_IsBij
  <2>6. ExistsBijection(1 .. n - k, S) /\ n - k \in Nat
      BY <1>1, <1>2, <2>5 DEF ExistsBijection
  <2>7. Cardinality(S) = n - k
      BY <2>6, FS_CountingElements
  <2>8. QED
      BY <2>7 DEF S
<1>6. QED
    BY <1>4, <1>5 DEF n

(* There is one enumeration, which is what ORDER BY gives.                   *)
LEMMA EnumerationUnique ==
    ASSUME NEW b \in [Messages -> Nat], NEW ms \in SUBSET Messages, NEW t, Enumerates(b, ms, t)
    PROVE  Sorted(b, ms) = t
<1> DEFINE n == Cardinality(ms)
<1>1. n \in Nat
    BY MessagesFinite
<1>2. /\ t \in [1 .. n -> ms]
      /\ \A m \in ms : \E i \in 1 .. n : t[i] = m
      /\ \A i \in 1 .. n : Cardinality(Earlier(b, ms, t[i])) = i - 1
  <2>1. \A m \in ms : \E i \in 1 .. Cardinality(ms) : t[i] = m
      BY EnumerationOnto
  <2>2. \A i \in 1 .. Cardinality(ms) : Cardinality(Earlier(b, ms, t[i])) = i - 1
      BY EnumerationCounts
  <2>3. t \in [1 .. Cardinality(ms) -> ms]
      BY DEF Enumerates
  <2>4. QED
      BY <2>1, <2>2, <2>3
<1> HIDE DEF n
<1>3. ASSUME NEW k \in 1 .. n
      PROVE  (CHOOSE m \in ms : Cardinality(Earlier(b, ms, m)) = k - 1) = t[k]
  <2>1. ASSUME NEW m \in ms, Cardinality(Earlier(b, ms, m)) = k - 1 PROVE m = t[k]
    <3>1. PICK i \in 1 .. n : t[i] = m
        BY <1>2
    <3>2. i - 1 = k - 1
        BY <1>2, <2>1, <3>1
    <3>3. QED
        BY <1>1, <3>1, <3>2
  <2>2. t[k] \in ms /\ Cardinality(Earlier(b, ms, t[k])) = k - 1
      BY <1>2
  <2>3. QED
      BY <2>1, <2>2
<1>4. Sorted(b, ms) = [k \in 1 .. n |-> CHOOSE m \in ms : Cardinality(Earlier(b, ms, m)) = k - 1]
    BY DEF Sorted, n
<1>5. QED
    BY <1>2, <1>3, <1>4

(* And ORDER BY gives one: no two messages have as many before them.         *)
LEMMA SortedEnumerates ==
    ASSUME NEW b \in [Messages -> Nat], NEW ms \in SUBSET Messages
    PROVE  Enumerates(b, ms, Sorted(b, ms))
<1> DEFINE n == Cardinality(ms)
           rank(m) == Cardinality(Earlier(b, ms, m)) + 1
<1>1. n \in Nat /\ IsFiniteSet(ms)
    BY MessagesFinite
<1>2. \A m \in ms : /\ Earlier(b, ms, m) \in SUBSET Messages
                    /\ IsFiniteSet(Earlier(b, ms, m))
                    /\ Cardinality(Earlier(b, ms, m)) \in Nat
  <2>1. \A m \in ms : Earlier(b, ms, m) \in SUBSET Messages
      BY DEF Earlier
  <2>2. QED
      BY <2>1, MessagesFinite
<1>3. ASSUME NEW m \in ms PROVE rank(m) \in 1 .. n
  <2>1. m \notin Earlier(b, ms, m)
      BY PriorOrder DEF Earlier
  <2>2. Earlier(b, ms, m) \in SUBSET (ms \ {m})
      BY <2>1 DEF Earlier
  <2>3. IsFiniteSet(ms \ {m}) /\ Cardinality(ms \ {m}) = n - 1
      BY <1>1, FS_RemoveElement
  <2>4. Cardinality(Earlier(b, ms, m)) <= n - 1
      BY <2>2, <2>3, FS_Subset
  <2>5. QED
      BY <1>1, <1>2, <2>4
<1>4. ASSUME NEW m \in ms, NEW x \in ms, Prior(b, m, x) PROVE rank(m) < rank(x)
  <2>1. m \notin Earlier(b, ms, m) /\ m \in Earlier(b, ms, x)
      BY <1>4, PriorOrder DEF Earlier
  <2>2. Earlier(b, ms, m) \cup {m} \in SUBSET Earlier(b, ms, x)
    <3>1. ASSUME NEW y \in Earlier(b, ms, m) PROVE y \in Earlier(b, ms, x)
        BY <1>4, <3>1, PriorOrder DEF Earlier
    <3>2. QED
        BY <2>1, <3>1
  <2>3. Cardinality(Earlier(b, ms, m) \cup {m}) = Cardinality(Earlier(b, ms, m)) + 1
      BY <1>2, <2>1, FS_AddElement
  <2>4. Cardinality(Earlier(b, ms, m) \cup {m}) <= Cardinality(Earlier(b, ms, x))
      BY <1>2, <2>2, FS_Subset
  <2>5. Cardinality(Earlier(b, ms, m)) + 1 <= Cardinality(Earlier(b, ms, x))
      BY <2>3, <2>4
  <2>6. QED
      BY <1>2, <2>5
<1>5. \A m, x \in ms : rank(m) = rank(x) => m = x
  <2> SUFFICES ASSUME NEW m \in ms, NEW x \in ms, rank(m) = rank(x), m # x PROVE FALSE
      OBVIOUS
  <2>1. rank(m) < rank(x) \/ rank(x) < rank(m)
      BY <1>4, PriorOrder
  <2>2. rank(m) \in Nat /\ rank(x) \in Nat
      BY <1>3
  <2> HIDE DEF rank
  <2>3. QED
      BY <2>1, <2>2
<1> DEFINE r == [m \in ms |-> rank(m)]
<1>6. \A k \in 1 .. n : \E m \in ms : rank(m) = k
  <2>1. r \in [ms -> 1 .. n] /\ \A m, x \in ms : r[m] = r[x] => m = x
      BY <1>3, <1>5
  <2>2. r \in Injection(ms, 1 .. n)
    <3> HIDE DEF r, n
    <3>1. QED
        BY <2>1, Fun_IsInj
  <2>3. IsFiniteSet(1 .. n) /\ Cardinality(1 .. n) = n
      BY <1>1, FS_Interval
  <2>4. r \in Surjection(ms, 1 .. n)
    <3> HIDE DEF r
    <3>1. QED
        BY <2>2, <2>3, FS_Injection
  <2>5. \A k \in 1 .. n : \E m \in ms : r[m] = k
    <3> HIDE DEF r, n
    <3>1. QED
        BY <2>4 DEF Surjection
  <2>6. QED
      BY <2>5
<1> DEFINE s == Sorted(b, ms)
<1>7. \A k \in 1 .. n : s[k] \in ms /\ rank(s[k]) = k
  <2> SUFFICES ASSUME NEW k \in 1 .. n PROVE s[k] \in ms /\ rank(s[k]) = k
      OBVIOUS
  <2>1. s[k] = CHOOSE m \in ms : Cardinality(Earlier(b, ms, m)) = k - 1
      BY DEF Sorted
  <2>2. PICK m \in ms : rank(m) = k
      BY <1>6
  <2>3. Cardinality(Earlier(b, ms, m)) = k - 1
      BY <1>1, <1>2, <2>2
  <2>4. s[k] \in ms /\ Cardinality(Earlier(b, ms, s[k])) = k - 1
    <3> HIDE DEF s
    <3>1. QED
        BY <2>1, <2>3
  <2>5. QED
      BY <1>1, <1>2, <2>4
<1>8. s \in [1 .. n -> ms]
  <2>1. s = [k \in 1 .. n |-> s[k]]
      BY DEF Sorted
  <2> HIDE DEF s
  <2>2. QED
      BY <1>7, <2>1
<1> HIDE DEF s, rank, n
<1>9. ASSUME NEW i \in 1 .. n, NEW j \in 1 .. n, i < j PROVE Prior(b, s[i], s[j])
  <2>1. s[i] \in ms /\ s[j] \in ms /\ rank(s[i]) = i /\ rank(s[j]) = j
      BY <1>7
  <2>2. i \in Nat /\ j \in Nat
      BY <1>1
  <2>3. ~Prior(b, s[j], s[i])
      BY <1>4, <1>9, <2>1, <2>2
  <2>4. s[i] # s[j]
      BY <1>9, <2>1, <2>2
  <2>5. QED
      BY <2>1, <2>3, <2>4, PriorOrder
<1>10. QED
    BY <1>8, <1>9 DEF Enumerates, n, s

(* A new message has its place among the others.                             *)
LEMMA Placed ==
    ASSUME NEW b \in [Messages -> Nat], NEW ms \in SUBSET Messages, NEW m \in Messages \ ms,
           NEW t, Enumerates(b, ms, t)
    PROVE  \E i \in 1 .. Cardinality(ms) + 1 :
              Enumerates(b, ms \cup {m},
                         [k \in 1 .. Cardinality(ms) + 1 |->
                             IF k < i THEN t[k] ELSE IF k = i THEN m ELSE t[k - 1]])
<1> DEFINE n == Cardinality(ms)
<1>1. n \in Nat /\ IsFiniteSet(ms) /\ Cardinality(ms \cup {m}) = n + 1
    BY MessagesFinite, FS_AddElement
<1> HIDE DEF n
<1>2. t \in [1 .. n -> ms] /\ \A i, j \in 1 .. n : i < j => Prior(b, t[i], t[j])
    BY DEF Enumerates, n
<1> DEFINE above == {k \in 1 .. n : Prior(b, m, t[k])} \cup {n + 1}
<1>3. PICK i \in above : \A k \in above : i <= k
  <2>1. above \in SUBSET Nat /\ above # {}
      BY <1>1
  <2> HIDE DEF above
  <2>2. QED
      BY <2>1, LeastNat
<1>4. i \in 1 .. n + 1
    BY <1>1
<1>5. ASSUME NEW k \in 1 .. n, k < i PROVE Prior(b, t[k], m)
  <2>1. ~Prior(b, m, t[k])
    <3>1. i \in Int /\ k \in Int /\ ~(i <= k)
        BY <1>1, <1>4, <1>5
    <3>2. QED
        BY <1>3, <3>1
  <2>2. t[k] \in Messages /\ t[k] # m
      BY <1>2
  <2>3. QED
      BY <2>1, <2>2, PriorOrder
<1>6. ASSUME NEW k \in 1 .. n, i <= k PROVE Prior(b, m, t[k])
  <2>1. i \in 1 .. n /\ Prior(b, m, t[i])
      BY <1>1, <1>4, <1>6
  <2>2. CASE i = k
      BY <2>1, <2>2
  <2>3. CASE i # k
    <3>1. Prior(b, t[i], t[k])
        BY <1>1, <1>2, <1>6, <2>1, <2>3
    <3>2. t[i] \in Messages /\ t[k] \in Messages
        BY <1>2, <2>1
    <3>3. QED
        BY <2>1, <3>1, <3>2, PriorOrder
  <2>4. QED
      BY <2>2, <2>3
<1> HIDE DEF above
<1> DEFINE u == [k \in 1 .. n + 1 |-> IF k < i THEN t[k] ELSE IF k = i THEN m ELSE t[k - 1]]
<1>7. ASSUME NEW k \in 1 .. n + 1
      PROVE  \/ k < i /\ k \in 1 .. n /\ u[k] = t[k]
             \/ k = i /\ u[k] = m
             \/ i < k /\ k - 1 \in 1 .. n /\ i <= k - 1 /\ u[k] = t[k - 1]
  <2>1. k < i \/ k = i \/ i < k
      BY <1>1, <1>4
  <2>2. k < i => k \in 1 .. n
      BY <1>1, <1>4
  <2>3. i < k => k - 1 \in 1 .. n /\ i <= k - 1
      BY <1>1, <1>4
  <2>4. i < k => ~(k < i) /\ k # i
      BY <1>1, <1>4
  <2>5. u[k] = IF k < i THEN t[k] ELSE IF k = i THEN m ELSE t[k - 1]
      OBVIOUS
  <2> HIDE DEF u
  <2>6. QED
      BY <2>1, <2>2, <2>3, <2>4, <2>5
<1>8. u \in [1 .. n + 1 -> ms \cup {m}]
  <2>1. \A k \in 1 .. n + 1 : u[k] \in ms \cup {m}
      BY <1>2, <1>7
  <2>2. QED
      BY <2>1
<1> HIDE DEF u
<1>9. ASSUME NEW k \in 1 .. n + 1, NEW j \in 1 .. n + 1, k < j PROVE Prior(b, u[k], u[j])
  <2>1. CASE k < i /\ k \in 1 .. n /\ u[k] = t[k]
    <3>1. CASE j < i /\ j \in 1 .. n /\ u[j] = t[j]
        BY <1>2, <1>9, <2>1, <3>1
    <3>2. CASE j = i /\ u[j] = m
        BY <1>5, <2>1, <3>2
    <3>3. CASE i < j /\ j - 1 \in 1 .. n /\ i <= j - 1 /\ u[j] = t[j - 1]
      <4>1. k < j - 1
          BY <1>1, <1>4, <2>1, <3>3
      <4>2. QED
          BY <1>2, <2>1, <3>3, <4>1
    <3>4. QED
        BY <1>7, <3>1, <3>2, <3>3
  <2>2. CASE k = i /\ u[k] = m
    <3>1. i < j /\ j - 1 \in 1 .. n /\ i <= j - 1 /\ u[j] = t[j - 1]
      <4>1. ~(j < i) /\ j # i
          BY <1>1, <1>4, <1>9, <2>2
      <4>2. QED
          BY <1>7, <4>1
    <3>2. QED
        BY <1>6, <2>2, <3>1
  <2>3. CASE i < k /\ k - 1 \in 1 .. n /\ i <= k - 1 /\ u[k] = t[k - 1]
    <3>1. i < j /\ j - 1 \in 1 .. n /\ i <= j - 1 /\ u[j] = t[j - 1]
      <4>1. ~(j < i) /\ j # i
          BY <1>1, <1>4, <1>9, <2>3
      <4>2. QED
          BY <1>7, <4>1
    <3>2. k - 1 < j - 1
        BY <1>1, <1>9
    <3>3. QED
        BY <1>2, <2>3, <3>1, <3>2
  <2>4. QED
      BY <1>7, <2>1, <2>2, <2>3
<1>10. Enumerates(b, ms \cup {m}, u)
    BY <1>1, <1>8, <1>9 DEF Enumerates
<1>11. QED
    BY <1>4, <1>10 DEF u, n

(* The end of an enumeration has the newest messages.                        *)
LEMMA Trimmed ==
    ASSUME NEW b \in [Messages -> Nat], NEW ms \in SUBSET Messages, NEW t, Enumerates(b, ms, t),
           NEW limit \in Nat \ {0},
           NEW c, c = IF Cardinality(ms) > limit THEN Cardinality(ms) - limit ELSE 0
    PROVE  Enumerates(b, Newest(b, ms, limit), [k \in 1 .. Cardinality(ms) - c |-> t[k + c]])
<1> DEFINE n == Cardinality(ms)
           v == [k \in 1 .. n - c |-> t[k + c]]
           latest == Newest(b, ms, limit)
<1>1. n \in Nat /\ c \in 0 .. n
    BY MessagesFinite
<1>2. /\ t \in [1 .. n -> ms]
      /\ \A i, j \in 1 .. n : i < j => Prior(b, t[i], t[j])
    BY DEF Enumerates
<1>3. /\ \A i, j \in 1 .. n : t[i] = t[j] => i = j
      /\ \A m \in ms : \E k \in 1 .. n : t[k] = m
    BY EnumerationOnto
<1>4. \A k \in 1 .. n : Cardinality(Later(b, ms, t[k])) = n - k
    BY EnumerationCounts
<1>5. \A k \in 1 .. n : n - k < limit <=> k > c
    BY <1>1
<1> HIDE DEF n
<1>6. \A k \in 1 .. n : t[k] \in latest <=> k > c
    BY <1>2, <1>4, <1>5 DEF Newest
<1>7. \A k \in 1 .. n - c : k + c \in 1 .. n /\ k + c > c
    BY <1>1
<1> HIDE DEF latest
<1>8. v \in [1 .. n - c -> latest]
    BY <1>6, <1>7
<1>9. \A i, j \in 1 .. n - c : v[i] = v[j] => i = j
  <2> SUFFICES ASSUME NEW i \in 1 .. n - c, NEW j \in 1 .. n - c, v[i] = v[j] PROVE i = j
      OBVIOUS
  <2>1. i + c = j + c
      BY <1>3, <1>7
  <2>2. QED
      BY <1>1, <2>1
<1>10. \A m \in latest : \E k \in 1 .. n - c : v[k] = m
  <2> SUFFICES ASSUME NEW m \in latest PROVE \E k \in 1 .. n - c : v[k] = m
      OBVIOUS
  <2>1. PICK k \in 1 .. n : t[k] = m
      BY <1>3 DEF Newest, latest
  <2>2. k > c
      BY <1>6, <2>1
  <2>3. k - c \in 1 .. n - c /\ (k - c) + c = k
      BY <1>1, <2>2
  <2>4. v[k - c] = m
      BY <2>1, <2>3
  <2>5. QED
      BY <2>3, <2>4
<1>11. \A i, j \in 1 .. n - c : i < j => Prior(b, v[i], v[j])
  <2> SUFFICES ASSUME NEW i \in 1 .. n - c, NEW j \in 1 .. n - c, i < j PROVE Prior(b, v[i], v[j])
      OBVIOUS
  <2>1. i + c < j + c
      BY <1>1
  <2>2. QED
      BY <1>2, <1>7, <2>1
<1> HIDE DEF v
<1>12. Cardinality(latest) = n - c
  <2>1. v \in Bijection(1 .. n - c, latest)
      BY <1>8, <1>9, <1>10, Fun_IsBij
  <2>2. ExistsBijection(1 .. n - c, latest) /\ n - c \in Nat
      BY <1>1, <2>1 DEF ExistsBijection
  <2>3. QED
      BY <2>2, FS_CountingElements
<1>13. Enumerates(b, latest, v)
    BY <1>8, <1>11, <1>12 DEF Enumerates
<1>14. QED
    BY <1>13 DEF latest, v, n
LEMMA InsertedAt ==
    ASSUME NEW t \in Seq(Messages), NEW m \in Messages, NEW i \in 1 .. Len(t) + 1
    PROVE  /\ Promise!InsertAt(t, i, m) \in Seq(Messages)
           /\ Len(Promise!InsertAt(t, i, m)) = Len(t) + 1
           /\ Promise!InsertAt(t, i, m) =
                 [k \in 1 .. Len(t) + 1 |->
                     IF k < i THEN t[k] ELSE IF k = i THEN m ELSE t[k - 1]]
<1> DEFINE before == SubSeq(t, 1, i - 1)
           after == SubSeq(t, i, Len(t))
           u == Promise!InsertAt(t, i, m)
<1>1. Len(t) \in Nat /\ i \in Int /\ i - 1 \in Int /\ \A k \in 1 .. Len(t) : t[k] \in Messages
    BY LenProperties, ElementOfSeq
<1>2. /\ before \in Seq(Messages) /\ Len(before) = i - 1
      /\ \A k \in 1 .. i - 1 : before[k] = t[k]
    BY <1>1, SubSeqProperties
<1>3. /\ after \in Seq(Messages) /\ Len(after) = Len(t) - i + 1
      /\ \A k \in 1 .. Len(t) - i + 1 : after[k] = t[i + k - 1]
    BY <1>1, SubSeqProperties
<1>4. u = (before \o <<m>>) \o after
    BY DEF Promise!InsertAt
<1> HIDE DEF before, after, u
<1>5. <<m>> \in Seq(Messages) /\ Len(<<m>>) = 1 /\ <<m>>[1] = m
    OBVIOUS
<1>6. /\ before \o <<m>> \in Seq(Messages) /\ Len(before \o <<m>>) = i
      /\ \A k \in 1 .. i : (before \o <<m>>)[k] = IF k <= i - 1 THEN t[k] ELSE m
  <2>1. /\ before \o <<m>> \in Seq(Messages) /\ Len(before \o <<m>>) = Len(before) + Len(<<m>>)
        /\ \A k \in 1 .. Len(before) + Len(<<m>>) : (before \o <<m>>)[k] =
               IF k <= Len(before) THEN before[k] ELSE <<m>>[k - Len(before)]
      BY <1>2, <1>5, ConcatProperties
  <2>2. Len(before) + Len(<<m>>) = i
      BY <1>1, <1>2, <1>5
  <2>3. ASSUME NEW k \in 1 .. i PROVE (before \o <<m>>)[k] = IF k <= i - 1 THEN t[k] ELSE m
    <3>1. (before \o <<m>>)[k] = IF k <= i - 1 THEN before[k] ELSE <<m>>[k - (i - 1)]
        BY <1>2, <2>1, <2>2
    <3>2. k <= i - 1 => k \in 1 .. i - 1
        BY <1>1
    <3>3. ~(k <= i - 1) => k - (i - 1) = 1
        BY <1>1
    <3>4. QED
        BY <1>2, <1>5, <3>1, <3>2, <3>3
  <2>4. QED
      BY <2>1, <2>2, <2>3
<1>7. /\ u \in Seq(Messages) /\ Len(u) = Len(t) + 1
      /\ \A k \in 1 .. Len(t) + 1 : u[k] =
             IF k <= i THEN (before \o <<m>>)[k] ELSE after[k - i]
  <2> DEFINE left == before \o <<m>>
  <2>1. u = left \o after /\ left \in Seq(Messages) /\ after \in Seq(Messages)
      BY <1>3, <1>4, <1>6
  <2>2. Len(left) = i /\ Len(after) = Len(t) - i + 1
      BY <1>3, <1>6
  <2> HIDE DEF left
  <2>3. /\ u \in Seq(Messages) /\ Len(u) = Len(left) + Len(after)
        /\ \A k \in 1 .. Len(left) + Len(after) : u[k] =
               IF k <= Len(left) THEN left[k] ELSE after[k - Len(left)]
      BY <2>1, ConcatProperties
  <2>4. Len(left) + Len(after) = Len(t) + 1
      BY <1>1, <2>2
  <2>5. QED
      BY <2>2, <2>3, <2>4 DEF left
<1>8. ASSUME NEW k \in 1 .. Len(t) + 1
      PROVE  u[k] = IF k < i THEN t[k] ELSE IF k = i THEN m ELSE t[k - 1]
  <2>1. CASE k < i
    <3>1. k \in 1 .. i /\ k <= i - 1 /\ k <= i
        BY <1>1, <2>1
    <3>2. QED
        BY <1>6, <1>7, <2>1, <3>1
  <2>2. CASE k = i
    <3>1. k \in 1 .. i /\ ~(k <= i - 1) /\ k <= i /\ ~(k < i)
        BY <1>1, <2>2
    <3>2. QED
        BY <1>6, <1>7, <2>2, <3>1
  <2>3. CASE ~(k < i) /\ k # i
    <3>1. k - i \in 1 .. Len(t) - i + 1 /\ ~(k <= i) /\ i + (k - i) - 1 = k - 1
        BY <1>1, <2>3
    <3>2. u[k] = after[k - i] /\ after[k - i] = t[i + (k - i) - 1]
        BY <1>3, <1>7, <3>1
    <3>3. QED
        BY <2>3, <3>1, <3>2
  <2>4. QED
      BY <2>1, <2>2, <2>3
<1>9. u = [k \in 1 .. Len(t) + 1 |-> u[k]]
    BY <1>7, LenProperties
<1> DEFINE v == [k \in 1 .. Len(t) + 1 |->
                    IF k < i THEN t[k] ELSE IF k = i THEN m ELSE t[k - 1]]
<1>10. u = v
  <2>1. \A k \in 1 .. Len(t) + 1 : v[k] = u[k]
      BY <1>8
  <2>2. v = [k \in 1 .. Len(t) + 1 |-> v[k]]
      OBVIOUS
  <2> HIDE DEF v
  <2>3. QED
      BY <1>9, <2>1, <2>2, Zenon
<1>11. u \in Seq(Messages) /\ Len(u) = Len(t) + 1 /\ u = v
    BY <1>7, <1>10
<1>12. QED
    BY <1>11 DEF u

(* And a history is cut to its last messages.                                *)
LEMMA CutTo ==
    ASSUME NEW u \in Seq(Messages),
           NEW c, c = IF Len(u) > HistoryCap THEN Len(u) - HistoryCap ELSE 0
    PROVE  Promise!Newest(u) = [k \in 1 .. Len(u) - c |-> u[k + c]]
<1> DEFINE v == SubSeq(u, c + 1, Len(u))
<1>1. /\ Len(u) \in Nat /\ c \in 0 .. Len(u) /\ c + 1 \in Int
      /\ \A k \in 1 .. Len(u) : u[k] \in Messages
    BY StoreAssumption, LenProperties, ElementOfSeq
<1>2. Promise!Newest(u) = v
  <2>1. (IF Len(u) > HistoryCap THEN Len(u) - HistoryCap + 1 ELSE 1) = c + 1
      BY <1>1, StoreAssumption
  <2>2. QED
      BY <2>1 DEF Promise!Newest
<1>3. /\ v \in Seq(Messages)
      /\ Len(v) = IF c + 1 <= Len(u) THEN Len(u) - (c + 1) + 1 ELSE 0
      /\ \A k \in 1 .. Len(u) - (c + 1) + 1 : v[k] = u[c + 1 + k - 1]
    BY <1>1, SubSeqProperties
<1> HIDE DEF v
<1>4. /\ Len(v) = Len(u) - c
      /\ \A k \in 1 .. Len(u) - c : v[k] = u[k + c]
    BY <1>1, <1>3
<1>5. v = [k \in 1 .. Len(u) - c |-> v[k]]
    BY <1>3, <1>4, LenProperties
<1>6. QED
    BY <1>2, <1>4, <1>5

(* What an append leaves of the rows, as a sequence: the promise's append.   *)
LEMMA KeptInOrder ==
    ASSUME NEW b \in [Messages -> Nat], NEW ms \in SUBSET Messages, NEW m \in Messages \ ms
    PROVE  \E i \in 1 .. Len(Sorted(b, ms)) + 1 :
              Sorted(b, Newest(b, ms \cup {m}, HistoryCap)) =
                  Promise!Newest(Promise!InsertAt(Sorted(b, ms), i, m))
<1> DEFINE n == Cardinality(ms)
           t == Sorted(b, ms)
           all == ms \cup {m}
<1>1. n \in Nat /\ Cardinality(all) = n + 1 /\ all \in SUBSET Messages /\ HistoryCap \in Nat \ {0}
    BY MessagesFinite, FS_AddElement, StoreAssumption
<1>2. Enumerates(b, ms, t)
    BY SortedEnumerates
<1>3. PICK i \in 1 .. n + 1 :
              Enumerates(b, all, [k \in 1 .. n + 1 |->
                                     IF k < i THEN t[k] ELSE IF k = i THEN m ELSE t[k - 1]])
    BY <1>2, Placed
<1>4. t \in [1 .. n -> Messages]
    BY <1>2 DEF Enumerates
<1> HIDE DEF n, t, all
<1>5. t \in Seq(Messages) /\ Len(t) = n
    BY <1>1, <1>4, LenProperties
<1> DEFINE u == Promise!InsertAt(t, i, m)
           c == IF Len(u) > HistoryCap THEN Len(u) - HistoryCap ELSE 0
<1>6. u \in Seq(Messages) /\ Len(u) = n + 1 /\ Enumerates(b, all, u)
    BY <1>3, <1>5, InsertedAt
<1> HIDE DEF u
<1>7. Promise!Newest(u) = [k \in 1 .. Len(u) - c |-> u[k + c]]
    BY <1>6, CutTo
<1>8. c = IF Cardinality(all) > HistoryCap THEN Cardinality(all) - HistoryCap ELSE 0
    BY <1>1, <1>6
<1> HIDE DEF c
<1>9. Enumerates(b, Newest(b, all, HistoryCap), [k \in 1 .. Cardinality(all) - c |-> u[k + c]])
    BY <1>1, <1>6, <1>8, Trimmed
<1>10. Enumerates(b, Newest(b, all, HistoryCap), Promise!Newest(u))
    BY <1>1, <1>6, <1>7, <1>9
<1>11. Newest(b, all, HistoryCap) \in SUBSET Messages
    BY <1>1 DEF Newest
<1>12. Sorted(b, Newest(b, all, HistoryCap)) = Promise!Newest(u)
    BY <1>10, <1>11, EnumerationUnique
<1>13. QED
    BY <1>5, <1>12 DEF t, u, all

-----------------------------------------------------------------------------
(* The refinement: rows as transcripts.                                      *)

Transcripts(b, l) == [s \in Sessions |-> Sorted(b, l[s])]

LEMMA TranscriptsNow == [s \in Sessions |-> Ordered(log[s])] = Transcripts(began, log)
  BY SortedIsOrdered DEF Transcripts

LEMMA TranscriptsNext == [s \in Sessions |-> Ordered(log[s])]' = Transcripts(began', log')
  BY DEF Transcripts, Ordered, Sorted, Earlier, Before, Prior

LEMMA LatestIsNewest == \A ms, limit : LatestOf(ms, limit) = Newest(began, ms, limit)
  BY DEF LatestOf, Newest, Later, Before, Prior

LEMMA NothingSorted == \A b : Sorted(b, {}) = <<>>
<1>1. Cardinality({}) = 0
    BY FS_EmptySet
<1>2. 1 .. 0 = {}
    OBVIOUS
<1>3. QED
    BY <1>1, <1>2 DEF Sorted

(* The stamp of a message that is not stored is no part of a history.        *)
LEMMA StampsElsewhere ==
    ASSUME NEW b, NEW d, NEW ms, \A m \in ms : b[m] = d[m]
    PROVE  Sorted(b, ms) = Sorted(d, ms)
<1>1. ASSUME NEW m \in ms PROVE Earlier(b, ms, m) = Earlier(d, ms, m)
    BY DEF Earlier, Prior
<1>2. QED
    BY <1>1 DEF Sorted

(* The mapped variables of a step.                                           *)
LEMMA Mapped ==
    /\ Promise!vars = <<{s \in Sessions : creating[s] = "stored"}, stored,
                        Transcripts(began, log), count>>
    /\ (Promise!vars)' = <<{s \in Sessions : creating'[s] = "stored"}, stored',
                           Transcripts(began', log'), count'>>
  BY TranscriptsNow, TranscriptsNext DEF Promise!vars

LEMMA InitMapped == Init => Promise!Init
<1> SUFFICES ASSUME Init PROVE Promise!Init
    OBVIOUS
<1>1. Transcripts(began, log) = [s \in Sessions |-> <<>>]
    BY NothingSorted DEF Init, Transcripts
<1>2. {s \in Sessions : creating[s] = "stored"} = {}
    BY DEF Init
<1>3. QED
    BY <1>1, <1>2, TranscriptsNow DEF Init, Promise!Init

(* Steps that change no row of a session or a message.                       *)
LEMMA StutterMapped ==
    ASSUME Types, UNCHANGED <<stored, count, log>>,
           \A s \in Sessions : creating'[s] = "stored" <=> creating[s] = "stored",
           \A m \in Messages : appending[m] = "stored" => began'[m] = began[m]
    PROVE  UNCHANGED Promise!vars
<1>1. ASSUME NEW s \in Sessions PROVE Sorted(began', log[s]) = Sorted(began, log[s])
  <2>1. \A m \in log[s] : began'[m] = began[m]
      BY DEF Types, RowTypes, Logged
  <2>2. QED
      BY <2>1, StampsElsewhere
<1>2. Transcripts(began', log') = Transcripts(began, log)
    BY <1>1 DEF Transcripts
<1>3. {s \in Sessions : creating'[s] = "stored"} = {s \in Sessions : creating[s] = "stored"}
    OBVIOUS
<1>4. QED
    BY <1>2, <1>3, Mapped

LEMMA InsertedMapped == ASSUME Types, NEW s \in Sessions, Inserted(s) PROVE Promise!Create(s)
<1>1. /\ creating[s] = "fits" /\ creating' = [creating EXCEPT ![s] = "stored"]
      /\ stored' = stored \cup {s} /\ UNCHANGED <<count, log, began>>
    BY DEF Inserted, appendVars
<1>2. {t \in Sessions : creating'[t] = "stored"} = {t \in Sessions : creating[t] = "stored"} \cup {s}
    BY <1>1 DEF Types, RowTypes
<1>3. Transcripts(began', log') = Transcripts(began, log)
    BY <1>1
<1>4. s \notin {t \in Sessions : creating[t] = "stored"}
    BY <1>1
<1>5. [t \in Sessions |-> Ordered(log[t])]' = [t \in Sessions |-> Ordered(log[t])]
    BY <1>3, TranscriptsNow, TranscriptsNext
<1>6. QED
    BY <1>1, <1>2, <1>4, <1>5 DEF Promise!Create

LEMMA CascadeMapped ==
    ASSUME Types, NEW s \in Sessions, Cascade(s)
    PROVE  {s} \in SUBSET stored /\ Promise!TakeAway({s})
<1>1. /\ s \in stored /\ stored' = stored \ {s} /\ log' = [log EXCEPT ![s] = {}]
      /\ UNCHANGED <<creating, count, began>>
    BY DEF Cascade, appendVars
<1>2. Transcripts(began', log') =
          [t \in Sessions |-> IF t \in {s} THEN <<>> ELSE Transcripts(began, log)[t]]
    BY <1>1, NothingSorted DEF Transcripts, Types, RowTypes
<1>3. [t \in Sessions |-> Ordered(log[t])]' =
          [t \in Sessions |-> IF t \in {s} THEN <<>> ELSE [r \in Sessions |-> Ordered(log[r])][t]]
    BY <1>2, TranscriptsNow, TranscriptsNext
<1>4. QED
    BY <1>1, <1>3 DEF Promise!TakeAway

(* A message that is not stored is in no transcript.                         *)
LEMMA NotStoredIsNew ==
    ASSUME Types, NEW m \in Messages, appending[m] # "stored"
    PROVE  Promise!New(m)
<1> DEFINE t == [s \in Sessions |-> Ordered(log[s])]
<1>1. ASSUME NEW s \in Sessions PROVE m \notin Promise!ToSet(t[s])
  <2>1. log[s] \in SUBSET Messages /\ began \in [Messages -> Nat] /\ m \notin log[s]
      BY DEF Types, RowTypes, Appends, Logged
  <2>2. t[s] = Sorted(began, log[s])
      BY SortedIsOrdered
  <2>3. t[s] \in [1 .. Cardinality(log[s]) -> log[s]]
      BY <2>1, <2>2, SortedEnumerates DEF Enumerates
  <2> HIDE DEF t
  <2>4. QED
      BY <2>1, <2>3 DEF Promise!ToSet
<1>2. QED
    BY <1>1 DEF Promise!New

LEMMA CommitMapped ==
    ASSUME Types, NEW m \in Messages, Commit(m)
    PROVE  target[m] \in Sessions /\ Promise!AppendMessage(target[m], m)
<1> DEFINE s == target[m]
           ms == log[s]
<1>1. /\ s \in stored /\ s \in Sessions /\ m \in Messages \ ms /\ ms \in SUBSET Messages
      /\ began \in [Messages -> Nat]
    BY DEF Types, RowTypes, Appends, RowLocks, Logged, Commit
<1>2. /\ count' = [count EXCEPT ![s] = @ + 1]
      /\ log' = [log EXCEPT ![s] = LatestOf(ms \cup {m}, HistoryCap)]
      /\ UNCHANGED <<creating, stored, began>>
    BY DEF Commit
<1> DEFINE t == Transcripts(began, log)
<1>3. t[s] = Sorted(began, ms)
    BY <1>1 DEF Transcripts
<1>4. PICK i \in 1 .. Len(t[s]) + 1 :
              Sorted(began, Newest(began, ms \cup {m}, HistoryCap)) =
                  Promise!Newest(Promise!InsertAt(t[s], i, m))
    BY <1>1, <1>3, KeptInOrder
<1>5. log'[s] = Newest(began, ms \cup {m}, HistoryCap) /\ \A r \in Sessions \ {s} : log'[r] = log[r]
    BY <1>1, <1>2, LatestIsNewest DEF Types, RowTypes
<1> HIDE DEF s, ms
<1>6. Transcripts(began', log') =
          [t EXCEPT ![s] = Promise!Newest(Promise!InsertAt(t[s], i, m))]
  <2> DEFINE next == Promise!Newest(Promise!InsertAt(t[s], i, m))
             u == Transcripts(began', log')
  <2>1. u = [r \in Sessions |-> Sorted(began, log'[r])] /\ t = [r \in Sessions |-> Sorted(began, log[r])]
      BY <1>2 DEF Transcripts
  <2>2. Sorted(began, log'[s]) = next
      BY <1>4, <1>5
  <2> HIDE DEF next, t, u
  <2>3. u = [t EXCEPT ![s] = next]
      BY <1>1, <1>5, <2>1, <2>2
  <2>4. QED
      BY <2>3 DEF next, u
<1> HIDE DEF t
<1>7. Transcripts(began', log') =
          [t EXCEPT ![s] = Promise!Newest(Promise!InsertAt(@, i, m))]
    BY <1>6
<1>8. \E j \in Promise!Places([r \in Sessions |-> Ordered(log[r])][s]) :
         [r \in Sessions |-> Ordered(log[r])]' =
             [[r \in Sessions |-> Ordered(log[r])] EXCEPT ![s] = Promise!Newest(Promise!InsertAt(@, j, m))]
    BY <1>4, <1>7, TranscriptsNow, TranscriptsNext DEF t, Promise!Places
<1>n. Promise!New(m)
    BY NotStoredIsNew DEF Commit
<1>9. {r \in Sessions : creating[r] = "stored"}' = {r \in Sessions : creating[r] = "stored"}
    BY <1>2
<1>10. Promise!AppendMessage(s, m)
    BY <1>1, <1>2, <1>8, <1>n, <1>9 DEF Promise!AppendMessage
<1>11. QED
    BY <1>1, <1>10 DEF s

LEMMA PromiseStep == Types /\ [Next]_vars => [Promise!Next]_(Promise!vars)
<1> SUFFICES ASSUME Types, [Next]_vars PROVE [Promise!Next]_(Promise!vars)
    OBVIOUS
<1>1. ASSUME NEW s \in Sessions, Counted(s) PROVE UNCHANGED Promise!vars
  <2>1. \A t \in Sessions : creating'[t] = "stored" <=> creating[t] = "stored"
      BY <1>1 DEF Counted, Types, RowTypes
  <2>2. UNCHANGED <<stored, count, log, began>>
      BY <1>1 DEF Counted, appendVars
  <2>3. QED
      BY <2>1, <2>2, StutterMapped
<1>2. ASSUME NEW s \in Sessions, Inserted(s) PROVE Promise!Next
    BY <1>2, InsertedMapped DEF Promise!Next
<1>3. ASSUME NEW s \in Sessions, Cascade(s) PROVE Promise!Next
    BY <1>3, CascadeMapped DEF Promise!Next
<1>4. ASSUME NEW m \in Messages, Begin(m) \/ Touch(m) \/ RolledBack(m)
      PROVE  UNCHANGED Promise!vars
  <2>1. \A n \in Messages : appending[n] = "stored" => began'[n] = began[n]
      BY <1>4 DEF Begin, Touch, RolledBack, Fail, Types, Appends
  <2>2. UNCHANGED rowVars
      BY <1>4 DEF Begin, Touch, RolledBack
  <2>3. QED
      BY <2>1, <2>2, StutterMapped DEF rowVars
<1>5. ASSUME NEW m \in Messages, Commit(m) PROVE Promise!Next
    BY <1>5, CommitMapped DEF Promise!Next
<1>6. ASSUME UNCHANGED <<rowVars, appendVars>> PROVE UNCHANGED Promise!vars
    BY <1>6, StutterMapped DEF rowVars, appendVars
<1>7. QED
    BY <1>1, <1>2, <1>3, <1>4, <1>5, <1>6
    DEF Next, Delete, Purge, HistoryFound, HistoryRead, ListPage, Tick, vars

(* Whatever statements of other calls and replicas run between its own, each *)
(* operation seems to happen at one moment: the tables are the transcripts   *)
(* of the port's promise, an append puts its message, which is nowhere yet,  *)
(* in its place and keeps the newest, and a session taken away never comes   *)
(* back.                                                                     *)
THEOREM SessionStoreImplemented == Spec => ImplementsSessionStore
  BY InitMapped, PromiseStep, InitTypes, TypesStep, PTL
  DEF Spec, ImplementsSessionStore, Promise!Spec
=================================================================================
