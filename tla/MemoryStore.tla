---------------------------- MODULE MemoryStore ----------------------------
(***************************************************************************)
(* InMemorySessionStore (bat/adapters/session_store_memory.py): the        *)
(* sessions of one principal in one process.  Each operation holds the     *)
(* store's lock and suspends nowhere inside, so it is one step.            *)
(***************************************************************************)
EXTENDS Naturals, FiniteSets, SequencesExt

CONSTANTS Sessions,    \* session ids, minted once each
          Messages,    \* message ids, likewise
          MaxOwned,    \* settings.session.max_sessions_per_principal
          HistoryCap   \* history_cap, 500 by default

ASSUME MemoryAssumption == {MaxOwned, HistoryCap} \subseteq Nat \ {0}

VARIABLES minted,      \* the sessions ever created
          stored,      \* _sessions
          expired,     \* those whose time has run out
          transcript,  \* _messages
          count        \* message_count

storeVars == <<minted, stored, expired, transcript, count>>

StoreInit == /\ minted = {} /\ stored = {} /\ expired = {}
             /\ transcript = [s \in Sessions |-> <<>>]
             /\ count = [s \in Sessions |-> 0]

(* What _load finds.                                                       *)
Live == stored \ expired

CreateSession(s) ==
    /\ s \notin minted
    /\ Cardinality(Live) < MaxOwned
    /\ minted' = minted \cup {s}
    /\ stored' = stored \cup {s}
    /\ UNCHANGED <<expired, transcript, count>>

AppendNewestFirst(s, m) ==      \* mutant: kept in the order listings have
    /\ transcript' = [transcript EXCEPT ![s] =
          LET t == <<m>> \o @
          IN SubSeq(t, 1, IF Len(t) > HistoryCap THEN HistoryCap ELSE Len(t))]
    /\ count' = [count EXCEPT ![s] = @ + 1]
    /\ UNCHANGED <<minted, stored, expired>>

(* append_message for a session that _load has found.                      *)
AppendMessage(s, m) ==
    /\ transcript' = [transcript EXCEPT ![s] =
          LET t == Append(@, m)
          IN SubSeq(t, IF Len(t) > HistoryCap THEN Len(t) - HistoryCap + 1 ELSE 1, Len(t))]
    /\ count' = [count EXCEPT ![s] = @ + 1]
    /\ UNCHANGED <<minted, stored, expired>>

Drop(ss) ==
    /\ stored' = stored \ ss
    /\ expired' = expired \ ss
    /\ transcript' = [s \in Sessions |-> IF s \in ss THEN <<>> ELSE transcript[s]]
    /\ UNCHANGED <<minted, count>>

DeleteSession(s) == s \in Live /\ Drop({s})

PurgeExpired == expired # {} /\ Drop(expired)

(* Time: any live session may run out between two of its messages.         *)
Expire(s) ==
    /\ s \in Live
    /\ expired' = expired \cup {s}
    /\ UNCHANGED <<minted, stored, transcript, count>>

-----------------------------------------------------------------------------
(* The store keeps what the port promises, in the order of the appends:    *)
(* each adds one message, which no transcript has yet, behind all the      *)
(* others; only the oldest beyond the cap go, and no transcript outlives   *)
(* its session.                                                            *)
Promise == INSTANCE SessionStore WITH opened <- minted, open <- stored,
                                      Reorders <- FALSE

ImplementsSessionStore == Promise!Spec
=============================================================================
