---------------------------- MODULE SessionStore ----------------------------
(***************************************************************************)
(* What the port SessionStore (bat/ports/session_store.py) promises of the *)
(* sessions of one tenant: each operation happens at one moment, an append *)
(* adds one new message without disturbing the order of the others, and    *)
(* taking a session away takes its transcript with it, for good.           *)
(***************************************************************************)
EXTENDS Naturals, SequencesExt

CONSTANTS Sessions,    \* session ids, minted once each
          Messages,    \* message ids, likewise
          HistoryCap,  \* history_cap, 500 by default
          Reorders     \* TRUE where an append may land before others already stored

VARIABLES opened,      \* the sessions ever stored
          open,        \* those still stored
          transcript,  \* the messages of each, in the order of its history
          count        \* message_count of each

vars == <<opened, open, transcript, count>>

Init == /\ opened = {}
        /\ open = {}
        /\ transcript = [s \in Sessions |-> <<>>]
        /\ count = [s \in Sessions |-> 0]

Create(s) ==
    /\ s \notin opened
    /\ opened' = opened \cup {s}
    /\ open' = open \cup {s}
    /\ UNCHANGED <<transcript, count>>

(* The last HistoryCap messages.                                           *)
Newest(t) == SubSeq(t, IF Len(t) > HistoryCap THEN Len(t) - HistoryCap + 1 ELSE 1, Len(t))

(* In no transcript yet.                                                   *)
New(m) == \A s \in Sessions : m \notin ToSet(transcript[s])

(* The end, and elsewhere only in a store that orders its messages anew.   *)
Places(t) == IF Reorders THEN 1 .. Len(t) + 1 ELSE {Len(t) + 1}

AppendMessage(s, m) ==
    /\ s \in open
    /\ New(m)
    /\ count' = [count EXCEPT ![s] = @ + 1]
    /\ \E i \in Places(transcript[s]) :
          transcript' = [transcript EXCEPT ![s] = Newest(InsertAt(@, i, m))]
    /\ UNCHANGED <<opened, open>>

(* Deleted, or purged together.                                            *)
TakeAway(ss) ==
    /\ open' = open \ ss
    /\ transcript' = [s \in Sessions |-> IF s \in ss THEN <<>> ELSE transcript[s]]
    /\ UNCHANGED <<opened, count>>

Next == \/ \E s \in Sessions : Create(s) \/ \E m \in Messages : AppendMessage(s, m)
        \/ \E ss \in SUBSET open : TakeAway(ss)

Spec == Init /\ [][Next]_vars
=============================================================================
