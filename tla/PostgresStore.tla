--------------------------- MODULE PostgresStore ---------------------------
(***************************************************************************)
(* PostgresSessionStore (bat/adapters/session_store_postgres.py): the      *)
(* sessions of one principal in a database that several replicas share.    *)
(* Statements run READ COMMITTED, so each sees what was committed when it  *)
(* began and waits for a row another transaction has updated; now() is the *)
(* moment a transaction began.  A call may be cut off between any two      *)
(* statements: its client hangs up, or its replica dies.                   *)
(***************************************************************************)
EXTENDS Naturals, FiniteSets, SequencesExt

CONSTANTS Sessions,     \* session ids, one per call of create_session
          Messages,     \* message ids, one per call of append_message
          MaxOwned,     \* settings.session.max_sessions_per_principal
          HistoryCap,   \* history_cap, 500 by default
          Ttl,          \* settings.session.ttl_seconds
          MaxWait,      \* command_timeout, which bounds the wait for a row
          Limit,        \* `limit` of list_sessions and of get_history
          Horizon       \* the bound on the clock

ASSUME StoreAssumption ==
    /\ Sessions \subseteq Nat \ {0} /\ IsFiniteSet(Sessions)
    /\ Messages \subseteq Nat \ {0} /\ IsFiniteSet(Messages)
    /\ {MaxOwned, HistoryCap, Ttl, MaxWait, Limit} \subseteq Nat \ {0}
    /\ Horizon \in Nat

VARIABLES creating,  \* where the call that creates each session is
          stored,    \* the rows of bat_sessions
          created,   \* created_at
          expires,   \* expires_at
          count,     \* message_count
          log,       \* the rows of bat_messages of each session
          appending, \* where each append_message is
          target,    \* the session each one appends to
          began,     \* when its transaction began
          reading,   \* the session get_history has found to exist, or none
          newest,    \* the newest message it had then, or none
          cursor,    \* the last session a listing has shown, or none
          listed,    \* what the pages so far have shown
          steady,    \* the sessions alive at every page so far
          now        \* time

rowVars == <<creating, stored, created, expires, count, log>>
appendVars == <<appending, target, began>>
readVars == <<reading, newest>>
listVars == <<cursor, listed, steady>>
vars == <<rowVars, appendVars, readVars, listVars, now>>

None == 0

Init == /\ creating = [s \in Sessions |-> "idle"]
        /\ stored = {}
        /\ created = [s \in Sessions |-> 0]
        /\ expires = [s \in Sessions |-> 0]
        /\ count = [s \in Sessions |-> 0]
        /\ log = [s \in Sessions |-> {}]
        /\ appending = [m \in Messages |-> "idle"]
        /\ target = [m \in Messages |-> None]
        /\ began = [m \in Messages |-> 0]
        /\ reading = None /\ newest = None
        /\ cursor = None /\ listed = {} /\ steady = {}
        /\ now = 0

LiveAt(t) == {s \in stored : expires[s] > t}

-----------------------------------------------------------------------------
(* create_session.                                                         *)

(* The new session is stamped; the statement's snapshot counts the live    *)
(* ones of its principal.                                                  *)
Counted(s) ==
    /\ creating[s] = "idle"
    /\ creating' = [creating EXCEPT ![s] = IF Cardinality(LiveAt(now)) < MaxOwned
                                           THEN "fits" ELSE "refused"]
    /\ created' = [created EXCEPT ![s] = now]
    /\ expires' = [expires EXCEPT ![s] = now + Ttl]
    /\ UNCHANGED <<stored, count, log, appendVars, readVars, listVars, now>>

(* Its row, visible to others when the statement is over.                  *)
Inserted(s) ==
    /\ creating[s] = "fits"
    /\ creating' = [creating EXCEPT ![s] = "stored"]
    /\ stored' = stored \cup {s}
    /\ UNCHANGED <<created, expires, count, log, appendVars, readVars, listVars, now>>

-----------------------------------------------------------------------------
(* append_message: UPDATE, INSERT and trim in one transaction.             *)

(* ORDER BY created_at, id: the message is stamped as the call begins.     *)
Before(m, n) == began[m] < began[n] \/ (began[m] = began[n] /\ m < n)

(* DELETE ... ORDER BY created_at DESC, id DESC OFFSET limit.              *)
LatestOf(ms, limit) == {m \in ms : Cardinality({n \in ms : Before(m, n)}) < limit}

Begin(m) ==
    /\ appending[m] = "idle"
    /\ began' = [began EXCEPT ![m] = now]
    /\ \E s \in Sessions :
          /\ creating[s] = "stored"
          /\ target' = [target EXCEPT ![m] = s]
    /\ appending' = [appending EXCEPT ![m] = "begun"]
    /\ UNCHANGED <<rowVars, readVars, listVars, now>>

Locked(s) == \E m \in Messages : appending[m] = "touched" /\ target[m] = s

(* The call raises and the transaction, if any, leaves nothing behind.      *)
Fail(m) ==
    /\ appending' = [appending EXCEPT ![m] = "failed"]
    /\ target' = [target EXCEPT ![m] = None]
    /\ began' = [began EXCEPT ![m] = 0]

TouchUnlocked(m) ==      \* mutant: the session is looked up, its row not locked
    /\ appending[m] = "begun"
    /\ \/ /\ target[m] \in LiveAt(began[m])
          /\ appending' = [appending EXCEPT ![m] = "touched"]
          /\ UNCHANGED <<target, began>>
       \/ /\ target[m] \notin LiveAt(began[m])
          /\ Fail(m)
    /\ UNCHANGED <<rowVars, readVars, listVars, now>>

(* The UPDATE waits for the row, then finds it live as of the transaction's *)
(* beginning, or not.                                                      *)
Touch(m) ==
    /\ appending[m] = "begun"
    /\ ~Locked(target[m])
    /\ \/ /\ target[m] \in LiveAt(began[m])
          /\ appending' = [appending EXCEPT ![m] = "touched"]
          /\ UNCHANGED <<target, began>>
       \/ /\ target[m] \notin LiveAt(began[m])
          /\ Fail(m)
    /\ UNCHANGED <<rowVars, readVars, listVars, now>>

CommitUnextended(m) ==      \* mutant: the expiry is left as it was
    /\ appending[m] = "touched"
    /\ appending' = [appending EXCEPT ![m] = "stored"]
    /\ count' = [count EXCEPT ![target[m]] = @ + 1]
    /\ log' = [log EXCEPT ![target[m]] = LatestOf(@ \cup {m}, HistoryCap)]
    /\ UNCHANGED <<creating, stored, created, expires, target, began, readVars, listVars, now>>

CommitUntrimmed(m) ==      \* mutant: the trim sees only what others committed
    /\ appending[m] = "touched"
    /\ appending' = [appending EXCEPT ![m] = "stored"]
    /\ count' = [count EXCEPT ![target[m]] = @ + 1]
    /\ log' = [log EXCEPT ![target[m]] = LatestOf(@, HistoryCap) \cup {m}]
    /\ expires' = [expires EXCEPT ![target[m]] = began[m] + Ttl]
    /\ UNCHANGED <<creating, stored, created, target, began, readVars, listVars, now>>

Commit(m) ==
    /\ appending[m] = "touched"
    /\ appending' = [appending EXCEPT ![m] = "stored"]
    /\ count' = [count EXCEPT ![target[m]] = @ + 1]
    /\ log' = [log EXCEPT ![target[m]] = LatestOf(@ \cup {m}, HistoryCap)]
    /\ expires' = [expires EXCEPT ![target[m]] = began[m] + Ttl]
    /\ UNCHANGED <<creating, stored, created, target, began, readVars, listVars, now>>

(* A statement times out, the call is cancelled or its replica dies: the   *)
(* transaction rolls back and the row is free again.                       *)
RolledBack(m) ==
    /\ appending[m] \in {"begun", "touched"}
    /\ Fail(m)
    /\ UNCHANGED <<rowVars, readVars, listVars, now>>

-----------------------------------------------------------------------------
(* DELETE of a session's row, once it is free, and of its messages by the  *)
(* foreign key's ON DELETE CASCADE.                                        *)
Cascade(s) ==
    /\ s \in stored
    /\ ~Locked(s)
    /\ stored' = stored \ {s}
    /\ log' = [log EXCEPT ![s] = {}]
    /\ UNCHANGED <<creating, created, expires, count, appendVars, readVars, listVars, now>>

(* delete_session, which takes an expired row as well.                     *)
Delete(s) == Cascade(s)

(* purge_expired, from whichever replica: of each row by itself, since a   *)
(* row it waited for is tested again.                                      *)
Purge(s) == s \notin LiveAt(now) /\ Cascade(s)

-----------------------------------------------------------------------------
(* get_history: two statements, each with a snapshot of its own.           *)

HistoryFound(s) ==
    /\ reading = None
    /\ s \in LiveAt(now)
    /\ reading' = s
    /\ newest' \in IF log[s] = {} THEN {None} ELSE LatestOf(log[s], 1)
    /\ UNCHANGED <<rowVars, appendVars, listVars, now>>

OldestRows(s) ==      \* mutant: ORDER BY created_at, id LIMIT limit
    {m \in log[s] : Cardinality({n \in log[s] : Before(n, m)}) < Limit}

HistoryRows(s) == LatestOf(log[s], Limit)

(* The call returns HistoryRows(reading).                                  *)
HistoryRead ==
    /\ reading # None
    /\ reading' = None /\ newest' = None
    /\ UNCHANGED <<rowVars, appendVars, listVars, now>>

-----------------------------------------------------------------------------
(* list_sessions, page after page: the cursor is the key of the last item. *)

Older(s, t) == created[s] < created[t] \/ (created[s] = created[t] /\ s < t)

PastByTime(s) ==      \* mutant: sessions created together are skipped
    cursor = None \/ created[s] < created[cursor]

PastCursor(s) == cursor = None \/ Older(s, cursor)

Rows == {s \in LiveAt(now) : PastCursor(s)}
Page == {s \in Rows : Cardinality({t \in Rows : Older(s, t)}) < Limit}

ListPage ==
    /\ IF Page = Rows
       THEN cursor' = None /\ listed' = {} /\ steady' = {}
       ELSE /\ cursor' \in {s \in Page : \A t \in Page \ {s} : Older(s, t)}
            /\ listed' = listed \cup Page
            /\ steady' = IF cursor = None THEN LiveAt(now) ELSE steady \cap LiveAt(now)
    /\ UNCHANGED <<rowVars, appendVars, readVars, now>>

(* A statement that waits longer for its row is given up.                  *)
Tick ==
    /\ now < Horizon
    /\ \A m \in Messages : appending[m] = "begun" => now < began[m] + MaxWait
    /\ now' = now + 1
    /\ UNCHANGED <<rowVars, appendVars, readVars, listVars>>

Next == \/ \E s \in Sessions : \/ Counted(s) \/ Inserted(s)
                               \/ Delete(s) \/ Purge(s)
                               \/ HistoryFound(s)
        \/ \E m \in Messages : Begin(m) \/ Touch(m) \/ Commit(m) \/ RolledBack(m)
        \/ HistoryRead
        \/ ListPage
        \/ Tick

Spec == Init /\ [][Next]_vars
-----------------------------------------------------------------------------
(* The types; a row is locked by one transaction at a time, stays while it *)
(* is, and messages are stored with the session they were appended to.     *)
TypeOK ==
    /\ creating \in [Sessions -> {"idle", "fits", "refused", "stored"}]
    /\ stored \subseteq {s \in Sessions : creating[s] = "stored"}
    /\ {created, expires, count} \subseteq [Sessions -> Nat]
    /\ log \in [Sessions -> SUBSET Messages]
    /\ \A s \in Sessions : log[s] # {} => s \in stored
    /\ \A s \in Sessions : \A m \in log[s] : appending[m] = "stored" /\ target[m] = s
    /\ appending \in [Messages -> {"idle", "begun", "touched", "stored", "failed"}]
    /\ target \in [Messages -> Sessions \cup {None}]
    /\ \A m \in Messages : appending[m] = "touched" => target[m] \in stored
    /\ \A m, n \in Messages : appending[m] = "touched" /\ appending[n] = "touched"
                                 /\ target[m] = target[n] => m = n
    /\ began \in [Messages -> Nat]
    /\ reading \in Sessions \cup {None} /\ newest \in Messages \cup {None}
    /\ cursor \in Sessions \cup {None} /\ {listed, steady} \subseteq SUBSET Sessions
    /\ now \in Nat

(* ORDER BY created_at, id of some rows: the k-th has k - 1 before it.      *)
Ordered(ms) == [k \in 1 .. Cardinality(ms) |->
                   CHOOSE m \in ms : Cardinality({n \in ms : Before(n, m)}) = k - 1]

(* Every operation seems to happen at one moment, whatever statements of   *)
(* others run between its own: no increment of message_count is lost, no   *)
(* message is there twice or outlives its session, a session taken away    *)
(* never comes back, and no reader sees more messages than the cap.        *)
Promise == INSTANCE SessionStore WITH
    opened <- {s \in Sessions : creating[s] = "stored"},
    open <- stored,
    transcript <- [s \in Sessions |-> Ordered(log[s])],
    Reorders <- TRUE

ImplementsSessionStore == Promise!Spec

(* Activity extends the window: a session is kept for Ttl after the        *)
(* transaction of any message appended to it began, less the time an       *)
(* append may wait for the row while a later one overtakes it.             *)
ActivityExtends ==
    \A m \in Messages : appending[m] = "stored" =>
        expires[target[m]] + MaxWait >= began[m] + Ttl

(* Reading your writes: a history shows the newest message that was there  *)
(* when the call began, or newer ones, unless the session is gone by then. *)
HistoryShowsNewest ==
    newest # None /\ reading \in stored =>
        \E m \in HistoryRows(reading) : m = newest \/ Before(newest, m)

(* Paging shows every session that was alive throughout, and none twice,   *)
(* although others are created, deleted and expire between the pages.      *)
PagingComplete ==
    cursor # None => /\ Page \cap listed = {}
                     /\ Page = Rows => steady \cap LiveAt(now) \subseteq listed \cup Page

(* A principal never has more live sessions than its quota.                *)
QuotaHeld == Cardinality(LiveAt(now)) <= MaxOwned
=============================================================================
