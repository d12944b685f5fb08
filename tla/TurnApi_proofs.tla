---------------------------- MODULE TurnApi_proofs ----------------------------
(* The slot accounting, what the clients see, what is stored, and that the   *)
(* in-memory store keeps the port's promise under the endpoints, for any     *)
(* requests, sessions and limits.                                            *)
EXTENDS TurnApi, FiniteSetTheorems, SequenceTheorems, TLAPS

Holding == {r \in Requests : pc[r] \in Inside}

SlotInv == /\ pc \in [Requests -> {"idle"} \cup Outside \cup Inside \cup Ended]
           /\ IsFiniteSet(Holding)
           /\ inFlight \in Nat
           /\ SlotsExact

USE DEF Outside, Inside, Ended

(* A step that leaves a request on the same side of the limiter's slot.     *)
LEMMA SameSide ==
    ASSUME SlotInv, NEW r \in Requests, NEW location,
           location \in {"idle"} \cup Outside \cup Inside \cup Ended,
           pc[r] \in Inside <=> location \in Inside,
           Goto(r, location), UNCHANGED inFlight
    PROVE  SlotInv'
<1>1. pc' \in [Requests -> {"idle"} \cup Outside \cup Inside \cup Ended]
    BY DEF SlotInv, Goto
<1>2. Holding' = Holding
    BY DEF SlotInv, Goto, Holding
<1>3. QED
    BY <1>1, <1>2 DEF SlotInv, SlotsExact, Holding

(* A request enters the slot where there is room, and takes one.            *)
LEMMA Entered ==
    ASSUME SlotInv, NEW r \in Requests, NEW location \in Inside,
           pc[r] \notin Inside, inFlight < Limit,
           Goto(r, location), inFlight' = inFlight + 1
    PROVE  SlotInv'
<1>1. pc' \in [Requests -> {"idle"} \cup Outside \cup Inside \cup Ended]
    BY DEF SlotInv, Goto
<1>2. Holding' = Holding \cup {r} /\ r \notin Holding
    BY DEF SlotInv, Goto, Holding
<1>3. IsFiniteSet(Holding') /\ Cardinality(Holding') = Cardinality(Holding) + 1
    BY <1>2, FS_AddElement DEF SlotInv
<1>4. Cardinality(Holding) = inFlight /\ inFlight \in Nat
    BY DEF SlotInv, SlotsExact, Holding
<1>5. inFlight' \in Nat /\ inFlight' = Cardinality(Holding') /\ inFlight' <= Limit
    BY <1>3, <1>4, TurnAssumption
<1>6. QED
    BY <1>1, <1>3, <1>5 DEF SlotInv, SlotsExact, Holding

(* A request leaves the slot, by whatever exit, and gives one back.         *)
LEMMA Left ==
    ASSUME SlotInv, NEW r \in Requests,
           NEW location \in {"idle"} \cup Outside \cup Ended,
           pc[r] \in Inside, Goto(r, location), Release
    PROVE  SlotInv'
<1>1. pc' \in [Requests -> {"idle"} \cup Outside \cup Inside \cup Ended]
    BY DEF SlotInv, Goto
<1>2. Holding' = Holding \ {r} /\ r \in Holding
    BY DEF SlotInv, Goto, Holding
<1>3. IsFiniteSet(Holding') /\ Cardinality(Holding') = Cardinality(Holding) - 1
    BY <1>2, FS_RemoveElement DEF SlotInv
<1>4. /\ Cardinality(Holding) = inFlight /\ inFlight <= Limit
      /\ IsFiniteSet(Holding) /\ inFlight \in Nat
    BY DEF SlotInv, SlotsExact, Holding
<1>5. inFlight' = Cardinality(Holding') /\ inFlight' \in Nat /\ inFlight' <= Limit
  <2>1. Cardinality(Holding') \in Nat
    BY <1>3, FS_CardinalityType
  <2>2. QED
    BY <1>3, <1>4, <2>1, TurnAssumption DEF Release
<1>6. QED
    BY <1>1, <1>3, <1>5 DEF SlotInv, SlotsExact, Holding

LEMMA Untouched == ASSUME SlotInv, UNCHANGED <<pc, inFlight>> PROVE SlotInv'
  BY DEF SlotInv, SlotsExact, Holding

LEMMA InitSlot == Init => SlotInv
<1> SUFFICES ASSUME Init PROVE SlotInv
    OBVIOUS
<1>1. Holding = {}
    BY DEF Init, Holding
<1>2. IsFiniteSet(Holding) /\ Cardinality(Holding) = 0
    BY <1>1, FS_EmptySet
<1>3. QED
    BY <1>2, TurnAssumption DEF Init, SlotInv, SlotsExact, Holding

LEMMA RequestStep ==
    ASSUME SlotInv, NEW r \in Requests,
           LoadSession(r) \/ Step(r) \/ Keepalive(r) \/ Leave(r)
    PROVE  SlotInv'
<1>1. CASE LoadSession(r)
    BY <1>1, SameSide DEF LoadSession
<1>2. CASE LoadHistory(r) \/ StoreQuestion(r)
    BY <1>2, SameSide DEF LoadHistory, StoreQuestion
<1>3. CASE SlotGranted(r)
    BY <1>3, Entered DEF SlotGranted
<1>4. CASE SlotRefused(r)
    BY <1>4, SameSide DEF SlotRefused
<1>5. CASE Emit(r) \/ RunUnwound(r)
    BY <1>5, Untouched DEF Emit, RunUnwound
<1>6. CASE Collected(r)
    BY <1>6, Left DEF Collected
<1>7. CASE StoreReply(r)
    BY <1>7, SameSide DEF StoreReply
<1>8. CASE CollectingUnwound(r)
    BY <1>8, Left DEF CollectingUnwound
<1>9. CASE KeepaliveSent(r) \/ FrameSent(r) \/ NextPulled(r)
    BY <1>9, SameSide DEF KeepaliveSent, FrameSent, NextPulled
<1>10. CASE NothingToStore(r) \/ StoreStreamed(r)
    BY <1>10, Left DEF NothingToStore, StoreStreamed
<1>11. CASE DoneSent(r)
    BY <1>11, SameSide DEF DoneSent
<1>12. CASE Keepalive(r)
    BY <1>12, SameSide DEF Keepalive
<1>13. CASE Disconnected(r) \/ HangUp(r)
    BY <1>13, Left DEF Disconnected, HangUp
<1>14. CASE CancelCollecting(r)
    BY <1>14, SameSide DEF CancelCollecting
<1>15. CASE CancelOutside(r)
    BY <1>15, SameSide DEF CancelOutside
<1>16. QED
    BY <1>1, <1>2, <1>3, <1>4, <1>5, <1>6, <1>7, <1>8, <1>9, <1>10, <1>11,
       <1>12, <1>13, <1>14, <1>15 DEF Step, Leave

LEMMA SlotStep == SlotInv /\ [Next]_vars => SlotInv'
<1> SUFFICES ASSUME SlotInv, [Next]_vars PROVE SlotInv'
    OBVIOUS
<1>1. ASSUME NEW r \in Requests,
             LoadSession(r) \/ Step(r) \/ Keepalive(r) \/ Leave(r)
      PROVE  SlotInv'
    BY <1>1, RequestStep
<1>2. ASSUME NEW s \in Sessions,
             PostSession(s) \/ RemoveSession(s) \/ Elapse(s)
      PROVE  SlotInv'
    BY <1>2, Untouched DEF PostSession, RemoveSession, Elapse, turnVars
<1>3. CASE PurgeTask
    BY <1>3, Untouched DEF PurgeTask, turnVars
<1>4. CASE UNCHANGED vars
    BY <1>4, Untouched DEF vars, turnVars
<1>5. QED
    BY <1>1, <1>2, <1>3, <1>4 DEF Next

(* However a turn ends - answered, failed, streamed, or cut off at any of   *)
(* its awaits and yields - its run slot is given back exactly once.         *)
THEOREM SlotsExactAlways == Spec => []SlotsExact
<1>1. SlotInv => SlotsExact
    BY DEF SlotInv
<1>2. QED
    BY <1>1, InitSlot, SlotStep, PTL DEF Spec
-----------------------------------------------------------------------------
(* The store.                                                              *)

StoreTypes ==
    /\ minted \subseteq Sessions /\ stored \subseteq Sessions /\ expired \subseteq stored
    /\ transcript \in [Sessions -> Seq(Messages)]
    /\ count \in [Sessions -> Nat]

Unasked == {"idle", "loaded", "read"}
Replied == {"answered", "closing", "streamed", "gone"}

(* A stored message tells where its request has got to.                    *)
Said == \A s \in Sessions : \A i \in DOMAIN transcript[s] : \A r \in Requests :
           /\ transcript[s][i] = <<r, "user">> => pc[r] \notin Unasked
           /\ transcript[s][i] = <<r, "assistant">> => pc[r] \in Replied

(* A message is stored, a new one if those there are tell the truth.       *)
Appended == \E s \in Live, m \in Messages : AppendMessage(s, m) /\ (Said => Promise!New(m))

(* What a step of the endpoints does to the store.                         *)
StoreMoves == \/ UNCHANGED storeVars
              \/ \E s \in Sessions : CreateSession(s) \/ Expire(s)
              \/ \E ss \in SUBSET stored : Drop(ss)
              \/ Appended

LEMMA StoreSteps == StoreTypes /\ [Next]_vars => StoreMoves
<1> SUFFICES ASSUME StoreTypes, [Next]_vars PROVE StoreMoves
    OBVIOUS
<1>1. ASSUME NEW r \in Requests, StoreQuestion(r) PROVE StoreMoves
  <2> DEFINE m == <<r, "user">>
  <2>1. m \in Messages /\ pc[r] = "read"
    BY <1>1, TurnAssumption DEF StoreQuestion
  <2>2. Said => Promise!New(m)
    BY <2>1 DEF Said, Unasked, Promise!New, Promise!ToSet
  <2> HIDE DEF m
  <2>3. QED
    BY <1>1, <2>1, <2>2 DEF StoreQuestion, Found, StoreMoves, Appended, m
<1>2. ASSUME NEW r \in Requests, StoreReply(r) \/ StoreStreamed(r) PROVE StoreMoves
  <2> DEFINE m == <<r, "assistant">>
  <2>1. m \in Messages /\ pc[r] \in {"replying", "sent"}
    BY <1>2, TurnAssumption DEF StoreReply, StoreStreamed
  <2>2. Said => Promise!New(m)
    BY <2>1 DEF Said, Replied, Promise!New, Promise!ToSet
  <2> HIDE DEF m
  <2>3. QED
    BY <1>2, <2>1, <2>2 DEF StoreReply, StoreStreamed, Found, StoreMoves, Appended, m
<1>3. ASSUME NEW s \in Sessions, PostSession(s) \/ RemoveSession(s) \/ Elapse(s)
      PROVE  StoreMoves
    BY <1>3 DEF PostSession, RemoveSession, Elapse, DeleteSession, Live, StoreMoves
<1>4. CASE PurgeTask
    BY <1>4 DEF PurgeTask, PurgeExpired, StoreMoves, StoreTypes
<1>5. CASE UNCHANGED storeVars
    BY <1>5 DEF StoreMoves
<1>6. QED
    BY <1>1, <1>2, <1>3, <1>4, <1>5
    DEF Next, vars, LoadSession, Step, Keepalive, Leave, LoadHistory, SlotGranted, SlotRefused,
        Emit, RunUnwound, Collected, CollectingUnwound, KeepaliveSent, FrameSent, NextPulled,
        NothingToStore, DoneSent, Disconnected, HangUp, CancelCollecting, CancelOutside

Cut(t) == IF Len(t) > HistoryCap THEN Len(t) - HistoryCap ELSE 0

(* What the newest messages of a transcript are.                           *)
LEMMA CutFacts ==
    ASSUME NEW t \in Seq(Messages), NEW m \in Messages
    PROVE  LET u == Append(t, m)
               v == Promise!Newest(u)
           IN /\ v \in Seq(Messages)
              /\ Cut(u) \in 0 .. Len(t)
              /\ DOMAIN v = 1 .. Len(t) + 1 - Cut(u)
              /\ \A i \in DOMAIN v : v[i] = IF i + Cut(u) = Len(t) + 1 THEN m ELSE t[i + Cut(u)]
<1> DEFINE u == Append(t, m)
           v == Promise!Newest(u)
<1>1. /\ u \in Seq(Messages) /\ Len(u) = Len(t) + 1 /\ Len(t) \in Nat
      /\ \A i \in 1 .. Len(u) : u[i] = IF i = Len(t) + 1 THEN m ELSE t[i]
    BY AppendProperties, LenProperties
<1>2. HistoryCap \in Nat \ {0}
    BY MemoryAssumption
<1>3. Cut(u) \in 0 .. Len(t) /\ v = SubSeq(u, Cut(u) + 1, Len(u))
    BY <1>1, <1>2 DEF Cut, Promise!Newest
<1> HIDE DEF u, v
<1>4. /\ v \in Seq(Messages) /\ DOMAIN v = 1 .. Len(u) - Cut(u)
      /\ \A i \in 1 .. Len(u) - Cut(u) : v[i] = u[i + Cut(u)]
  <2>1. \A i \in Cut(u) + 1 .. Len(u) : u[i] \in Messages
    BY <1>1, <1>3, ElementOfSeq
  <2>2. /\ SubSeq(u, Cut(u) + 1, Len(u)) \in Seq(Messages)
        /\ Len(SubSeq(u, Cut(u) + 1, Len(u))) = Len(u) - Cut(u)
        /\ \A i \in 1 .. Len(u) - Cut(u) : SubSeq(u, Cut(u) + 1, Len(u))[i] = u[i + Cut(u)]
    <3>1. Cut(u) + 1 \in Int /\ Len(u) \in Int /\ Cut(u) + 1 <= Len(u) /\ Cut(u) \in Int
      BY <1>1, <1>3
    <3>2. \A i \in 1 .. Len(u) - (Cut(u) + 1) + 1 :
             SubSeq(u, Cut(u) + 1, Len(u))[i] = u[Cut(u) + 1 + i - 1]
      BY <2>1, <3>1, SubSeqProperties
    <3>3. /\ SubSeq(u, Cut(u) + 1, Len(u)) \in Seq(Messages)
          /\ Len(SubSeq(u, Cut(u) + 1, Len(u))) = Len(u) - (Cut(u) + 1) + 1
      BY <2>1, <3>1, SubSeqProperties
    <3>4. \A i \in 1 .. Len(u) - Cut(u) : Cut(u) + 1 + i - 1 = i + Cut(u)
      BY <3>1
    <3>5. QED
      BY <3>1, <3>2, <3>3, <3>4
  <2>3. QED
    BY <1>3, <2>2, LenProperties
<1>5. \A i \in DOMAIN v : v[i] = IF i + Cut(u) = Len(t) + 1 THEN m ELSE t[i + Cut(u)]
  <2>1. SUFFICES ASSUME NEW i \in 1 .. Len(u) - Cut(u)
                 PROVE  u[i + Cut(u)] = IF i + Cut(u) = Len(t) + 1 THEN m ELSE t[i + Cut(u)]
    BY <1>4
  <2>2. i + Cut(u) \in 1 .. Len(u)
    BY <1>1, <1>3
  <2>3. QED
    BY <1>1, <2>2
<1>6. DOMAIN v = 1 .. Len(t) + 1 - Cut(u)
    BY <1>1, <1>3, <1>4
<1>7. QED
    BY <1>3, <1>4, <1>5, <1>6, Zenon DEF u, v

LEMMA InsertedLast ==
    ASSUME NEW t \in Seq(Messages), NEW m \in Messages
    PROVE  Promise!InsertAt(t, Len(t) + 1, m) = Append(t, m)
<1>1. Len(t) \in Nat /\ <<m>> \in Seq(Messages)
    BY LenProperties
<1>2. SubSeq(t, 1, Len(t) + 1 - 1) = t /\ SubSeq(t, Len(t) + 1, Len(t)) = <<>>
    BY <1>1, SubSeqFull, SubSeqEmpty
<1>3. t \o <<m>> = Append(t, m) /\ Append(t, m) \in Seq(Messages)
    BY AppendIsConcat, AppendProperties
<1>4. Append(t, m) \o <<>> = Append(t, m)
    BY <1>3, ConcatEmptySeq
<1>5. Promise!InsertAt(t, Len(t) + 1, m) =
          (SubSeq(t, 1, Len(t) + 1 - 1) \o <<m>>) \o SubSeq(t, Len(t) + 1, Len(t))
    BY DEF Promise!InsertAt
<1>6. QED
    BY <1>2, <1>3, <1>4, <1>5, Zenon

LEMMA AppendFacts ==
    ASSUME StoreTypes, NEW s \in Live, NEW m \in Messages, AppendMessage(s, m)
    PROVE  /\ s \in Sessions
           /\ transcript[s] \in Seq(Messages)
           /\ transcript' = [transcript EXCEPT ![s] = Promise!Newest(Append(transcript[s], m))]
           /\ transcript'[s] = Promise!Newest(Append(transcript[s], m))
           /\ transcript' = [transcript EXCEPT ![s] = transcript'[s]]
           /\ count' = [count EXCEPT ![s] = @ + 1]
           /\ UNCHANGED <<minted, stored, expired>>
<1>1. s \in Sessions /\ transcript[s] \in Seq(Messages)
    BY DEF StoreTypes, Live
<1>2. transcript' = [transcript EXCEPT ![s] = Promise!Newest(Append(transcript[s], m))]
    BY Zenon DEF AppendMessage, Promise!Newest
<1>3. count' = [count EXCEPT ![s] = @ + 1] /\ UNCHANGED <<minted, stored, expired>>
    BY DEF AppendMessage
<1>4. transcript'[s] = Promise!Newest(Append(transcript[s], m))
    BY <1>1, <1>2 DEF StoreTypes
<1>5. QED
    BY <1>1, <1>2, <1>3, <1>4

LEMMA StoreTyped == StoreTypes /\ StoreMoves => StoreTypes'
<1> SUFFICES ASSUME StoreTypes, StoreMoves PROVE StoreTypes'
    OBVIOUS
<1>1. CASE UNCHANGED storeVars
    BY <1>1 DEF storeVars, StoreTypes
<1>2. ASSUME NEW s \in Sessions, CreateSession(s) \/ Expire(s) PROVE StoreTypes'
    BY <1>2 DEF CreateSession, Expire, Live, StoreTypes
<1>3. ASSUME NEW ss \in SUBSET stored, Drop(ss) PROVE StoreTypes'
  <2>1. <<>> \in Seq(Messages)
    BY EmptySeq
  <2>2. QED
    BY <1>3, <2>1 DEF Drop, StoreTypes
<1>4. ASSUME NEW s \in Live, NEW m \in Messages, AppendMessage(s, m) PROVE StoreTypes'
  <2>1. /\ s \in Sessions /\ transcript[s] \in Seq(Messages)
        /\ transcript'[s] = Promise!Newest(Append(transcript[s], m))
        /\ transcript' = [transcript EXCEPT ![s] = transcript'[s]]
        /\ count' = [count EXCEPT ![s] = @ + 1]
        /\ UNCHANGED <<minted, stored, expired>>
    BY <1>4, AppendFacts
  <2>2. transcript'[s] \in Seq(Messages)
    BY <2>1, CutFacts
  <2>3. transcript' \in [Sessions -> Seq(Messages)]
    BY <2>1, <2>2 DEF StoreTypes
  <2>4. QED
    BY <2>1, <2>3 DEF StoreTypes
<1>5. QED
    BY <1>1, <1>2, <1>3, <1>4 DEF StoreMoves, Appended

LEMMA StoreTypesAlways == Spec => []StoreTypes
<1>1. Init => StoreTypes
  <2>1. <<>> \in Seq(Messages)
    BY EmptySeq
  <2>2. QED
    BY <2>1 DEF Init, StoreInit, StoreTypes
<1>2. QED
    BY <1>1, StoreSteps, StoreTyped, PTL DEF Spec

-----------------------------------------------------------------------------
(* What is said, and when.                                                 *)

(* No request goes back to before its question, or from behind its reply.  *)
Onward == \A r \in Requests : /\ pc[r] \notin Unasked => pc'[r] \notin Unasked
                              /\ pc[r] \in Replied => pc'[r] \in Replied

LEMMA MovedOn ==
    ASSUME SlotInv, NEW r \in Requests, NEW location, Goto(r, location),
           pc[r] \notin Unasked => location \notin Unasked,
           pc[r] \in Replied => location \in Replied
    PROVE  Onward
BY DEF SlotInv, Goto, Onward

LEMMA OnwardStep == SlotInv /\ [Next]_vars => Onward
<1> SUFFICES ASSUME SlotInv, [Next]_vars PROVE Onward
    OBVIOUS
<1> USE DEF Unasked, Replied
<1>1. ASSUME NEW r \in Requests, LoadSession(r) \/ LoadHistory(r) \/ StoreQuestion(r)
      PROVE  Onward
    BY <1>1, MovedOn DEF LoadSession, LoadHistory, StoreQuestion
<1>2. ASSUME NEW r \in Requests, SlotGranted(r) \/ SlotRefused(r) \/ Collected(r) \/ StoreReply(r)
      PROVE  Onward
    BY <1>2, MovedOn DEF SlotGranted, SlotRefused, Collected, StoreReply
<1>3. ASSUME NEW r \in Requests, KeepaliveSent(r) \/ FrameSent(r) \/ NextPulled(r) \/ Keepalive(r)
      PROVE  Onward
    BY <1>3, MovedOn DEF KeepaliveSent, FrameSent, NextPulled, Keepalive
<1>4. ASSUME NEW r \in Requests, NothingToStore(r) \/ StoreStreamed(r) \/ DoneSent(r)
      PROVE  Onward
    BY <1>4, MovedOn DEF NothingToStore, StoreStreamed, DoneSent
<1>5. ASSUME NEW r \in Requests, Leave(r) \/ CollectingUnwound(r)
      PROVE  Onward
    BY <1>5, MovedOn DEF Leave, Disconnected, HangUp, CancelCollecting, CancelOutside,
                         CollectingUnwound
<1>6. CASE UNCHANGED pc
    BY <1>6 DEF Onward
<1>7. QED
    BY <1>1, <1>2, <1>3, <1>4, <1>5, <1>6
    DEF Next, Step, Emit, RunUnwound, PostSession, RemoveSession, Elapse, PurgeTask,
        vars, turnVars

Has(s, m) == \E i \in DOMAIN transcript[s] : transcript[s][i] = m

(* A new message stored after the others, of which the oldest may go.      *)
LEMMA Saying ==
    ASSUME StoreTypes, Said, Conversation, NEW s \in Live, NEW m \in Messages,
           AppendMessage(s, m), ~Has(s, m),
           \A r \in Requests : m = <<r, "user">> => ~Has(s, <<r, "assistant">>)
    PROVE  /\ Conversation'
           /\ \A x \in Sessions : \A i \in DOMAIN transcript'[x] :
                 transcript'[x][i] = m \/ Has(x, transcript'[x][i])
<1> DEFINE t == transcript[s]
           v == transcript'[s]
<1>1. /\ s \in Sessions /\ t \in Seq(Messages) /\ v = Promise!Newest(Append(t, m))
      /\ \A x \in Sessions : x # s => transcript'[x] = transcript[x]
    BY AppendFacts DEF StoreTypes
<1>2. PICK c \in 0 .. Len(t) :
          /\ DOMAIN v = 1 .. Len(t) + 1 - c
          /\ \A i \in DOMAIN v : v[i] = IF i + c = Len(t) + 1 THEN m ELSE t[i + c]
  <2> DEFINE w == Promise!Newest(Append(t, m))
             d == Cut(Append(t, m))
  <2>1. /\ d \in 0 .. Len(t) /\ DOMAIN w = 1 .. Len(t) + 1 - d
        /\ \A i \in DOMAIN w : w[i] = IF i + d = Len(t) + 1 THEN m ELSE t[i + d]
    BY <1>1, CutFacts
  <2>2. v = w
    BY <1>1
  <2> HIDE DEF w, d, v
  <2>3. QED
    BY <2>1, <2>2
<1>3. Len(t) \in Nat /\ DOMAIN t = 1 .. Len(t)
    BY <1>1, LenProperties
<1>4. ASSUME NEW i \in DOMAIN v
      PROVE  \/ i + c = Len(t) + 1 /\ v[i] = m
             \/ i + c \in DOMAIN t /\ v[i] = t[i + c] /\ v[i] # m
  <2>1. i + c \in 1 .. Len(t) + 1
    BY <1>2, <1>3
  <2>2. CASE i + c = Len(t) + 1
    BY <1>2, <2>2
  <2>3. CASE i + c # Len(t) + 1
    <3>1. i + c \in DOMAIN t /\ v[i] = t[i + c]
      BY <1>2, <1>3, <2>1, <2>3
    <3>2. QED
      BY <3>1 DEF Has
  <2>4. QED
    BY <2>2, <2>3
<1>5. \A i, j \in DOMAIN v : v[i] = v[j] => i = j
  <2> SUFFICES ASSUME NEW i \in DOMAIN v, NEW j \in DOMAIN v, v[i] = v[j] PROVE i = j
    OBVIOUS
  <2>1. \A a, b \in DOMAIN t : t[a] = t[b] => a = b
    BY <1>1 DEF Conversation
  <2>2. i + c = j + c
    BY <1>4, <2>1
  <2>3. QED
    BY <1>2, <1>3, <2>2
<1>6. ASSUME NEW r \in Requests, NEW i \in DOMAIN v, NEW j \in DOMAIN v,
             v[i] = <<r, "assistant">>, v[j] = <<r, "user">>
      PROVE  j < i
  <2>1. \A a, b \in DOMAIN t : t[a] = <<r, "assistant">> /\ t[b] = <<r, "user">> => b < a
    BY <1>1 DEF Conversation
  <2>2. i + c \in 1 .. Len(t) + 1 /\ j + c \in 1 .. Len(t) + 1 /\ i \in Int /\ j \in Int /\ c \in Int
    BY <1>2, <1>3
  <2>3. CASE v[i] = m
    <3>1. i + c = Len(t) + 1
      BY <1>4, <2>3
    <3>2. v[j] # m
      BY <1>6, <2>3
    <3>3. j + c \in 1 .. Len(t)
      BY <1>3, <1>4, <3>2
    <3>4. QED
      BY <1>3, <2>2, <3>1, <3>3
  <2>4. CASE v[i] # m
    <3>1. i + c \in DOMAIN t /\ t[i + c] = <<r, "assistant">>
      BY <1>4, <1>6, <2>4
    <3>2. m # <<r, "user">>
      BY <3>1 DEF Has
    <3>3. j + c \in DOMAIN t /\ t[j + c] = <<r, "user">>
      BY <1>4, <1>6, <3>2
    <3>4. j + c < i + c
      BY <2>1, <3>1, <3>3
    <3>5. QED
      BY <2>2, <3>4
  <2>5. QED
    BY <2>3, <2>4
<1>7. Conversation'
    BY <1>1, <1>5, <1>6 DEF Conversation
<1>8. \A x \in Sessions : \A i \in DOMAIN transcript'[x] :
          transcript'[x][i] = m \/ Has(x, transcript'[x][i])
    BY <1>1, <1>4 DEF Has
<1>9. QED
    BY <1>7, <1>8

LEMMA SaidStep == StoreTypes /\ SlotInv /\ Said /\ Conversation /\ [Next]_vars
                  => Said' /\ Conversation'
<1> SUFFICES ASSUME StoreTypes, SlotInv, Said, Conversation, [Next]_vars
             PROVE  Said' /\ Conversation'
    OBVIOUS
<1>1. Onward
    BY OnwardStep
<1>2. ASSUME NEW r \in Requests, StoreQuestion(r), Found(r) PROVE Said' /\ Conversation'
  <2> DEFINE m == <<r, "user">>
             s == target[r]
  <2>1. s \in Live /\ m \in Messages /\ AppendMessage(s, m) /\ pc[r] = "read" /\ s \in Sessions
    BY <1>2, TurnAssumption DEF StoreQuestion, Found, Live, StoreTypes
  <2>2. ~Has(s, m) /\ ~Has(s, <<r, "assistant">>)
    BY <2>1 DEF Has, Said, Unasked, Replied
  <2>3. \A q \in Requests : m = <<q, "user">> => ~Has(s, <<q, "assistant">>)
    BY <2>2
  <2>4. /\ Conversation'
        /\ \A x \in Sessions : \A i \in DOMAIN transcript'[x] :
              transcript'[x][i] = m \/ Has(x, transcript'[x][i])
    BY <2>1, <2>2, <2>3, Saying
  <2>5. pc'[r] \notin Unasked
    BY <1>2 DEF StoreQuestion, Goto, SlotInv, Unasked
  <2>6. Said'
    BY <1>1, <2>4, <2>5 DEF Said, Has, Onward
  <2>7. QED
    BY <2>4, <2>6
<1>3. ASSUME NEW r \in Requests, StoreReply(r) \/ StoreStreamed(r), Found(r)
      PROVE  Said' /\ Conversation'
  <2> DEFINE m == <<r, "assistant">>
             s == target[r]
  <2>1. s \in Live /\ m \in Messages /\ AppendMessage(s, m) /\ pc[r] \in {"replying", "sent"}
        /\ s \in Sessions
    BY <1>3, TurnAssumption DEF StoreReply, StoreStreamed, Found, Live, StoreTypes
  <2>2. ~Has(s, m)
    BY <2>1 DEF Has, Said, Replied
  <2>3. \A q \in Requests : m = <<q, "user">> => ~Has(s, <<q, "assistant">>)
    OBVIOUS
  <2>4. /\ Conversation'
        /\ \A x \in Sessions : \A i \in DOMAIN transcript'[x] :
              transcript'[x][i] = m \/ Has(x, transcript'[x][i])
    BY <2>1, <2>2, <2>3, Saying
  <2>5. pc'[r] \in Replied
    BY <1>3 DEF StoreReply, StoreStreamed, Goto, SlotInv, Replied
  <2>6. Said'
    BY <1>1, <2>4, <2>5 DEF Said, Has, Onward
  <2>7. QED
    BY <2>4, <2>6
<1>4. ASSUME \A s \in Sessions : transcript'[s] \in {transcript[s], <<>>}
      PROVE  Said' /\ Conversation'
  <2>1. Said'
    BY <1>1, <1>4 DEF Said, Onward
  <2>2. Conversation'
    BY <1>4 DEF Conversation
  <2>3. QED
    BY <2>1, <2>2
<1>5. ASSUME NEW ss, Drop(ss) PROVE \A s \in Sessions : transcript'[s] \in {transcript[s], <<>>}
    BY <1>5 DEF Drop
<1>6. CASE UNCHANGED transcript
    BY <1>4, <1>6
<1>7. ASSUME NEW s \in Sessions, PostSession(s) \/ RemoveSession(s) \/ Elapse(s)
      PROVE  Said' /\ Conversation'
    BY <1>4, <1>5, <1>7 DEF PostSession, RemoveSession, Elapse, CreateSession, DeleteSession, Expire
<1>8. CASE PurgeTask
    BY <1>4, <1>5, <1>8 DEF PurgeTask, PurgeExpired
<1>9. QED
    BY <1>2, <1>3, <1>6, <1>7, <1>8
    DEF Next, vars, storeVars, LoadSession, Step, Keepalive, Leave, LoadHistory, StoreQuestion,
        SlotGranted, SlotRefused, Emit, RunUnwound, Collected, StoreReply, CollectingUnwound,
        KeepaliveSent, FrameSent, NextPulled, NothingToStore, StoreStreamed, DoneSent,
        Disconnected, HangUp, CancelCollecting, CancelOutside

LEMMA SaidAlways == Spec => [](Said /\ Conversation)
<1>1. Init => Said /\ Conversation
    BY DEF Init, StoreInit, Said, Conversation
<1>2. QED
    BY <1>1, SaidStep, InitSlot, SlotStep, StoreTypesAlways, PTL DEF Spec

(* No message is stored twice, and in no transcript does a reply stand      *)
(* before its question, however turns, trims and deletions interleave.       *)
THEOREM ConversationAlways == Spec => []Conversation
  BY SaidAlways, PTL
-----------------------------------------------------------------------------
(* The port's promise.                                                     *)

LEMMA PromiseStep == StoreTypes /\ Said /\ [Next]_vars => [Promise!Next]_(Promise!vars)
<1> SUFFICES ASSUME StoreTypes, Said, StoreMoves PROVE [Promise!Next]_(Promise!vars)
    BY StoreSteps
<1>1. CASE UNCHANGED storeVars
    BY <1>1 DEF storeVars, Promise!vars
<1>2. ASSUME NEW s \in Sessions, CreateSession(s) \/ Expire(s)
      PROVE  [Promise!Next]_(Promise!vars)
    BY <1>2 DEF CreateSession, Expire, Promise!Next, Promise!Create, Promise!vars
<1>3. ASSUME NEW ss \in SUBSET stored, Drop(ss) PROVE Promise!Next
    BY <1>3 DEF Drop, Promise!Next, Promise!TakeAway
<1>4. ASSUME NEW s \in Live, NEW m \in Messages, AppendMessage(s, m), Promise!New(m)
      PROVE  Promise!Next
  <2>1. /\ s \in Sessions /\ transcript[s] \in Seq(Messages)
        /\ transcript' = [transcript EXCEPT ![s] = Promise!Newest(Append(transcript[s], m))]
        /\ count' = [count EXCEPT ![s] = @ + 1]
        /\ UNCHANGED <<minted, stored, expired>>
    BY <1>4, AppendFacts
  <2>2. s \in stored
    BY DEF Live
  <2> DEFINE last == Len(transcript[s]) + 1
  <2>3. last \in Promise!Places(transcript[s]) /\ Promise!InsertAt(transcript[s], last, m) = Append(transcript[s], m)
    BY <2>1, InsertedLast, LenProperties DEF Promise!Places
  <2>4. transcript' = [transcript EXCEPT ![s] =
                          Promise!Newest(Promise!InsertAt(transcript[s], last, m))]
    BY <2>1, <2>3
  <2>5. Promise!AppendMessage(s, m)
    <3>1. \E i \in Promise!Places(transcript[s]) :
             transcript' = [transcript EXCEPT ![s] =
                               Promise!Newest(Promise!InsertAt(transcript[s], i, m))]
      BY <2>3, <2>4, Zenon
    <3>2. QED
      BY <1>4, <2>1, <2>2, <3>1 DEF Promise!AppendMessage
  <2>6. QED
    BY <2>1, <2>5 DEF Promise!Next
<1>5. QED
    BY <1>1, <1>2, <1>3, <1>4 DEF StoreMoves, Appended

(* The in-memory store does what the port promises while any number of      *)
(* turns, deletions, expiries and purges use it: every operation seems to    *)
(* happen at one moment, every message stored is new and goes behind those   *)
(* there are, and nothing outlives its session.                              *)
THEOREM SessionStoreImplemented == Spec => ImplementsSessionStore
<1>1. Init => Promise!Init
    BY DEF Init, StoreInit, Promise!Init
<1>2. QED
    BY <1>1, PromiseStep, StoreTypesAlways, SaidAlways, PTL
    DEF Spec, ImplementsSessionStore, Promise!Spec
-----------------------------------------------------------------------------
(* What the client of a stream is sent.                                    *)

Events == Terminals \cup {"token"}
Frames == Events \cup {"stream_failed", "done"}

(* The frames are the events, but for one that is still to be sent.        *)
Relayed(own, e) == own = e \/ \E x \in Events : e = Append(own, x)

(* How a stream stands when only `done` is to follow.                      *)
Closing(e, f) == \/ f = e /\ e # <<>> /\ e[Len(e)] \in Terminals
                 \/ \E own \in Seq(Events) : Relayed(own, e) /\ f = Append(own, "stream_failed")

(* What a stream's place says about its events and its frames.             *)
Story(place, e, f) ==
    /\ place \notin {"collecting", "unwinding", "replying", "answered"}
    /\ place \in {"idle", "loaded", "read", "prepared", "refused"} => e = <<>> /\ f = <<>>
    /\ place \in {"pulling", "keepalive"} => f \in Seq(Events) /\ Relayed(f, e)
    /\ place = "sent" => f = e /\ e # <<>>
    /\ place = "closing" => Closing(e, f)
    /\ place = "streamed" => \E g \in Seq(Frames) : Closing(e, g) /\ f = Append(g, "done")
    /\ place = "gone" => (f \in Seq(Events) /\ Relayed(f, e)) \/ Closing(e, f)

FrameInv == /\ emitted \in [Requests -> Seq(Events)]
            /\ frames \in [Requests -> Seq(Frames)]
            /\ \A r \in Streams : Story(pc[r], emitted[r], frames[r])

(* A step of one request leaves the story of the others as it is.          *)
LEMMA StoryTold ==
    ASSUME SlotInv, FrameInv, NEW r \in Requests, NEW place, NEW e \in Seq(Events),
           NEW f \in Seq(Frames),
           pc' = [pc EXCEPT ![r] = place],
           emitted' = [emitted EXCEPT ![r] = e],
           frames' = [frames EXCEPT ![r] = f],
           r \in Streams => Story(place, e, f)
    PROVE  FrameInv'
<1>1. emitted' \in [Requests -> Seq(Events)] /\ frames' \in [Requests -> Seq(Frames)]
    BY DEF FrameInv
<1>2. ASSUME NEW q \in Streams PROVE Story(pc'[q], emitted'[q], frames'[q])
  <2>1. q \in Requests
    BY TurnAssumption
  <2>2. CASE q = r
    <3>1. pc'[q] = place /\ emitted'[q] = e /\ frames'[q] = f
      BY <2>1, <2>2 DEF SlotInv, FrameInv
    <3>2. QED
      BY <2>2, <3>1
  <2>3. CASE q # r
    <3>1. pc'[q] = pc[q] /\ emitted'[q] = emitted[q] /\ frames'[q] = frames[q]
      BY <2>1, <2>3 DEF SlotInv, FrameInv
    <3>2. QED
      BY <3>1 DEF FrameInv
  <2>4. QED
    BY <2>2, <2>3
<1>3. QED
    BY <1>1, <1>2 DEF FrameInv

(* The same for a step that only moves the request on.                     *)
LEMMA StoryMoved ==
    ASSUME SlotInv, FrameInv, NEW r \in Requests, NEW place, Goto(r, place),
           UNCHANGED <<emitted, frames>>,
           r \in Streams => Story(place, emitted[r], frames[r])
    PROVE  FrameInv'
<1>1. /\ emitted[r] \in Seq(Events) /\ emitted' = [emitted EXCEPT ![r] = emitted[r]]
      /\ frames[r] \in Seq(Frames) /\ frames' = [frames EXCEPT ![r] = frames[r]]
    BY DEF FrameInv
<1>2. QED
    BY <1>1, StoryTold DEF Goto

LEMMA StoryEmitted ==
    ASSUME SlotInv, FrameInv, NEW r \in Requests, Emit(r)
    PROVE  FrameInv'
<1>1. PICK x \in Events : emitted' = [emitted EXCEPT ![r] = Append(emitted[r], x)]
    BY DEF Emit, Events
<1> DEFINE e == Append(emitted[r], x)
<1>2. emitted[r] \in Seq(Events) /\ frames[r] \in Seq(Frames) /\ e \in Seq(Events)
    BY AppendProperties DEF FrameInv
<1>3. frames' = [frames EXCEPT ![r] = frames[r]] /\ pc' = [pc EXCEPT ![r] = pc[r]]
    BY DEF Emit, FrameInv, SlotInv
<1>4. ASSUME r \in Streams PROVE Story(pc[r], e, frames[r])
  <2>1. pc[r] \in {"pulling", "keepalive"} /\ ~(Len(emitted[r]) > Len(frames[r]))
    BY <1>4 DEF Emit, FrameInv, Story, Ready
  <2>2. frames[r] \in Seq(Events) /\ Relayed(frames[r], emitted[r])
    BY <1>4, <2>1 DEF FrameInv, Story
  <2>3. frames[r] = emitted[r]
    <3>1. ASSUME NEW y \in Events, emitted[r] = Append(frames[r], y) PROVE FALSE
      <4>1. Len(emitted[r]) = Len(frames[r]) + 1 /\ Len(frames[r]) \in Nat
        BY <2>2, <3>1, AppendProperties, LenProperties
      <4>2. QED
        BY <2>1, <4>1
    <3>2. QED
      BY <2>2, <3>1 DEF Relayed
  <2>4. Relayed(frames[r], e)
    BY <2>3 DEF Relayed
  <2>5. QED
    BY <2>1, <2>2, <2>4 DEF Story
<1>5. QED
    BY <1>1, <1>2, <1>3, <1>4, StoryTold

LEMMA StorySent ==
    ASSUME SlotInv, FrameInv, NEW r \in Requests, FrameSent(r), r \in Streams
    PROVE  FrameInv'
<1> DEFINE e == emitted[r]
           f == frames[r]
<1>1. e \in Seq(Events) /\ f \in Seq(Events) /\ Relayed(f, e) /\ Len(e) > Len(f)
    BY DEF FrameInv, FrameSent, Ready, Story
<1>2. PICK x \in Events : e = Append(f, x)
    BY <1>1, LenProperties DEF Relayed
<1>3. Latest(r) = x /\ e # <<>>
    BY <1>1, <1>2, AppendProperties DEF Latest
<1>4. frames' = [frames EXCEPT ![r] = e] /\ emitted' = [emitted EXCEPT ![r] = e]
      /\ pc' = [pc EXCEPT ![r] = "sent"]
    BY <1>2, <1>3 DEF FrameSent, Send, Goto, FrameInv
<1>5. Story("sent", e, e)
    BY <1>3 DEF Story
<1>6. e \in Seq(Frames)
  <2>1. f \in Seq(Frames) /\ x \in Frames
    BY DEF FrameInv, Frames
  <2>2. QED
    BY <1>2, <2>1, AppendProperties
<1>7. QED
    BY <1>1, <1>4, <1>5, <1>6, StoryTold

(* A frame of the endpoint's own is added to what the client has.          *)
LEMMA StoryFailed ==
    ASSUME SlotInv, FrameInv, NEW r \in Requests, r \in Streams,
           SlotRefused(r) \/ (StoreStreamed(r) /\ ~Found(r))
    PROVE  FrameInv'
<1> DEFINE e == emitted[r]
           f == Append(e, "stream_failed")
<1>1. e \in Seq(Events) /\ frames[r] = e /\ frames[r] \in Seq(Frames)
    BY DEF FrameInv, SlotRefused, StoreStreamed, Story
<1>2. f \in Seq(Frames)
    BY <1>1, AppendProperties DEF Frames
<1>3. frames' = [frames EXCEPT ![r] = f] /\ emitted' = [emitted EXCEPT ![r] = e]
      /\ pc' = [pc EXCEPT ![r] = "closing"]
    BY <1>1 DEF SlotRefused, StoreStreamed, Send, Goto, FrameInv
<1>4. Story("closing", e, f)
    BY <1>1 DEF Story, Closing, Relayed
<1>5. QED
    BY <1>1, <1>2, <1>3, <1>4, StoryTold

LEMMA StoryDone ==
    ASSUME SlotInv, FrameInv, NEW r \in Requests, DoneSent(r)
    PROVE  FrameInv'
<1> DEFINE e == emitted[r]
           f == Append(frames[r], "done")
<1>1. e \in Seq(Events) /\ frames[r] \in Seq(Frames)
    BY DEF FrameInv
<1>2. f \in Seq(Frames)
    BY <1>1, AppendProperties DEF Frames
<1>3. frames' = [frames EXCEPT ![r] = f] /\ emitted' = [emitted EXCEPT ![r] = e]
      /\ pc' = [pc EXCEPT ![r] = "streamed"]
    BY <1>1 DEF DoneSent, Send, Goto, FrameInv
<1>4. r \in Streams => Story("streamed", e, f)
    BY <1>1 DEF DoneSent, FrameInv, Story
<1>5. QED
    BY <1>1, <1>2, <1>3, <1>4, StoryTold

(* Were a request that waits for its reply to get there: its events and    *)
(* frames keep their types.                                                *)
LEMMA NotStreamed ==
    ASSUME SlotInv, FrameInv, NEW r \in Requests, r \notin Streams,
           FrameSent(r) \/ (StoreStreamed(r) /\ ~Found(r))
    PROVE  FrameInv'
<1>1. emitted[r] \in Seq(Events) /\ frames[r] \in Seq(Frames)
    BY DEF FrameInv
<1>2. PICK x : /\ frames' = [frames EXCEPT ![r] = Append(frames[r], x)]
               /\ x = "stream_failed" \/ (x = Latest(r) /\ Len(emitted[r]) > Len(frames[r]))
    BY DEF FrameSent, StoreStreamed, Send, Ready
<1>3. x \in Frames
  <2>1. CASE Len(emitted[r]) > Len(frames[r])
    <3>1. Len(emitted[r]) \in 1 .. Len(emitted[r])
      BY <1>1, <2>1, LenProperties
    <3>2. Latest(r) \in Events
      BY <1>1, <3>1, ElementOfSeq DEF Latest
    <3>3. QED
      BY <1>2, <3>2 DEF Frames
  <2>2. QED
    BY <1>2, <2>1 DEF Frames
<1>4. Append(frames[r], x) \in Seq(Frames)
    BY <1>1, <1>3, AppendProperties
<1>5. PICK place : Goto(r, place)
    BY DEF FrameSent, StoreStreamed
<1>6. emitted' = [emitted EXCEPT ![r] = emitted[r]]
    BY DEF FrameSent, StoreStreamed, FrameInv
<1>7. QED
    BY <1>1, <1>2, <1>4, <1>5, <1>6, StoryTold DEF Goto

LEMMA StoryStep == SlotInv /\ FrameInv /\ [Next]_vars => FrameInv'
<1> SUFFICES ASSUME SlotInv, FrameInv, [Next]_vars PROVE FrameInv'
    OBVIOUS
<1> DEFINE Story1(r) == r \in Streams => Story(pc[r], emitted[r], frames[r])
<1>0. \A r \in Requests : Story1(r)
    BY DEF FrameInv
<1>1. ASSUME NEW r \in Requests, LoadSession(r) \/ LoadHistory(r) \/ StoreQuestion(r)
      PROVE  FrameInv'
    BY <1>0, <1>1, StoryMoved DEF LoadSession, LoadHistory, StoreQuestion, Story
<1>2. ASSUME NEW r \in Requests, SlotGranted(r) PROVE FrameInv'
  <2>1. r \in Streams => emitted[r] = <<>> /\ frames[r] = <<>>
    BY <1>2 DEF SlotGranted, FrameInv, Story
  <2>2. <<>> \in Seq(Events)
    BY EmptySeq
  <2>3. r \in Streams => Story("pulling", emitted[r], frames[r])
    BY <2>1, <2>2 DEF Story, Relayed
  <2>4. QED
    BY <1>2, <2>3, StoryMoved DEF SlotGranted
<1>3. ASSUME NEW r \in Requests, SlotRefused(r) PROVE FrameInv'
    BY <1>3, StoryFailed, StoryMoved DEF SlotRefused
<1>4. ASSUME NEW r \in Requests, Emit(r) PROVE FrameInv'
    BY <1>4, StoryEmitted
<1>5. ASSUME NEW r \in Requests,
             Collected(r) \/ StoreReply(r) \/ CollectingUnwound(r) \/ CancelCollecting(r)
      PROVE  FrameInv'
  <2>1. r \notin Streams
    BY <1>0, <1>5 DEF Collected, StoreReply, CollectingUnwound, CancelCollecting, Story
  <2>2. QED
    BY <1>5, <2>1, StoryMoved DEF Collected, StoreReply, CollectingUnwound, CancelCollecting
<1>6. ASSUME NEW r \in Requests, Keepalive(r) \/ KeepaliveSent(r) PROVE FrameInv'
    BY <1>0, <1>6, StoryMoved DEF Keepalive, KeepaliveSent, Story
<1>7. ASSUME NEW r \in Requests, FrameSent(r), r \in Streams PROVE FrameInv'
    BY <1>7, StorySent
<1>8. ASSUME NEW r \in Requests, NextPulled(r) PROVE FrameInv'
  <2>1. r \in Streams => frames[r] = emitted[r] /\ emitted[r] \in Seq(Events)
    BY <1>8 DEF NextPulled, FrameInv, Story
  <2>2. r \in Streams => Story("pulling", emitted[r], frames[r])
    BY <2>1 DEF Story, Relayed
  <2>3. QED
    BY <1>8, <2>2, StoryMoved DEF NextPulled
<1>9. ASSUME NEW r \in Requests, NothingToStore(r) \/ (StoreStreamed(r) /\ Found(r))
      PROVE  FrameInv'
  <2>1. r \in Streams => /\ frames[r] = emitted[r] /\ emitted[r] # <<>>
                         /\ emitted[r][Len(emitted[r])] \in Terminals
    BY <1>0, <1>9 DEF NothingToStore, StoreStreamed, Story, Latest, Terminals
  <2>2. r \in Streams => Story("closing", emitted[r], frames[r])
    BY <2>1 DEF Story, Closing
  <2>3. QED
    BY <1>9, <2>2, StoryMoved DEF NothingToStore, StoreStreamed
<1>10. ASSUME NEW r \in Requests, StoreStreamed(r), ~Found(r), r \in Streams PROVE FrameInv'
    BY <1>10, StoryFailed
<1>11. ASSUME NEW r \in Requests, DoneSent(r) PROVE FrameInv'
    BY <1>11, StoryDone
<1>12. ASSUME NEW r \in Requests, Disconnected(r) \/ HangUp(r) PROVE FrameInv'
  <2>1. r \in Streams => /\ emitted[r] \in Seq(Events)
                         /\ frames[r] \in Seq(Events) /\ Relayed(frames[r], emitted[r])
    BY <1>0, <1>12 DEF Disconnected, HangUp, Story, Relayed, FrameInv
  <2>2. r \in Streams => Story("gone", emitted[r], frames[r])
    BY <2>1 DEF Story
  <2>3. QED
    BY <1>12, <2>2, StoryMoved DEF Disconnected, HangUp
<1>13. ASSUME NEW r \in Requests, CancelOutside(r) PROVE FrameInv'
  <2>1. r \in Streams => \/ emitted[r] = <<>> /\ frames[r] = <<>>
                         \/ Closing(emitted[r], frames[r])
    BY <1>0, <1>13 DEF CancelOutside, Story
  <2>2. <<>> \in Seq(Events)
    BY EmptySeq
  <2>3. r \in Streams => Story("gone", emitted[r], frames[r])
    BY <2>1, <2>2 DEF Story, Relayed
  <2>4. QED
    BY <1>13, <2>3, StoryMoved DEF CancelOutside
<1>14. CASE UNCHANGED <<pc, emitted, frames>>
    BY <1>14 DEF FrameInv
<1>15. ASSUME NEW r \in Requests, FrameSent(r) \/ (StoreStreamed(r) /\ ~Found(r)), r \notin Streams
       PROVE  FrameInv'
    BY <1>15, NotStreamed
<1>16. QED
    BY <1>1, <1>2, <1>3, <1>4, <1>5, <1>6, <1>7, <1>8, <1>9, <1>10, <1>11, <1>12, <1>13, <1>14,
       <1>15
    DEF Next, Step, Leave, RunUnwound, PostSession, RemoveSession, Elapse, PurgeTask,
        vars, turnVars

(* What was relayed is the beginning of what was emitted.                  *)
LEMMA RelayedFacts ==
    ASSUME NEW own \in Seq(Events), NEW e \in Seq(Events), Relayed(own, e)
    PROVE  Len(own) \in 0 .. Len(e) /\ own = SubSeq(e, 1, Len(own)) /\ Len(e) <= Len(own) + 1
<1>1. CASE own = e
    BY <1>1, SubSeqFull, LenProperties
<1>2. ASSUME NEW x \in Events, e = Append(own, x)
      PROVE  Len(own) \in 0 .. Len(e) /\ own = SubSeq(e, 1, Len(own)) /\ Len(e) <= Len(own) + 1
  <2>1. /\ Len(e) = Len(own) + 1 /\ Len(own) \in Nat
        /\ \A i \in 1 .. Len(own) : e[i] = own[i]
    BY <1>2, AppendProperties, LenProperties
  <2>2. \A i \in 1 .. Len(own) : e[i] \in Events
    BY <2>1, ElementOfSeq
  <2>3. /\ SubSeq(e, 1, Len(own)) \in Seq(Events)
        /\ Len(SubSeq(e, 1, Len(own))) = Len(own)
        /\ \A i \in 1 .. Len(own) : SubSeq(e, 1, Len(own))[i] = e[i]
    BY <2>1, <2>2, SubSeqProperties
  <2>4. own = SubSeq(e, 1, Len(own))
    BY <2>1, <2>3, SeqEqual
  <2>5. QED
    BY <2>1, <2>4
<1>3. QED
    BY <1>1, <1>2 DEF Relayed

LEMMA OwnEndings ==
    ASSUME NEW own \in Seq(Frames)
    PROVE  /\ own = own \o <<>>
           /\ Append(own, "stream_failed") = own \o <<"stream_failed">>
           /\ Append(own, "done") = own \o <<"done">>
           /\ Append(Append(own, "stream_failed"), "done") = own \o <<"stream_failed", "done">>
<1>1. "stream_failed" \in Frames /\ "done" \in Frames
    BY DEF Frames
<1>2. /\ own = own \o <<>>
      /\ Append(own, "stream_failed") = own \o <<"stream_failed">>
      /\ Append(own, "done") = own \o <<"done">>
    BY <1>1, ConcatEmptySeq, AppendIsConcat
<1>3. <<"stream_failed">> \in Seq(Frames) /\ <<"done">> \in Seq(Frames)
    BY <1>1
<1>4. Append(Append(own, "stream_failed"), "done") = (own \o <<"stream_failed">>) \o <<"done">>
    BY <1>1, <1>2, AppendProperties, AppendIsConcat
<1>5. (own \o <<"stream_failed">>) \o <<"done">> = own \o (<<"stream_failed">> \o <<"done">>)
    BY <1>3, ConcatAssociative
<1>6. <<"stream_failed">> \o <<"done">> = <<"stream_failed", "done">>
  <2>1. <<"stream_failed">> \o <<"done">> = Append(<<"stream_failed">>, "done")
    BY <1>1, <1>3, AppendIsConcat
  <2>2. Append(<<"stream_failed">>, "done") = <<"stream_failed", "done">>
    <3> DEFINE a == Append(<<"stream_failed">>, "done")
               b == <<"stream_failed", "done">>
    <3>1. a \in Seq(Frames) /\ Len(a) = 2 /\ a[1] = "stream_failed" /\ a[2] = "done"
      BY <1>1, <1>3, AppendProperties
    <3>2. b \in Seq(Frames) /\ Len(b) = 2 /\ b[1] = "stream_failed" /\ b[2] = "done"
      BY <1>1
    <3> HIDE DEF a, b
    <3>3. \A i \in 1 .. Len(a) : a[i] = b[i]
      BY <3>1, <3>2
    <3>4. a = b
      BY <3>1, <3>2, <3>3, SeqEqual
    <3>5. QED
      BY <3>4 DEF a, b
  <2>3. QED
    BY <2>1, <2>2
<1>7. QED
    BY <1>2, <1>4, <1>5, <1>6

(* FramesFaithful of one stream.                                           *)
Faithfully(place, e, f) ==
    \E n \in 0 .. Len(e), ending \in Endings :
        /\ f = SubSeq(e, 1, n) \o ending
        /\ Len(e) <= n + 1
        /\ place = "streamed" => \/ ending = <<"stream_failed", "done">>
                                 \/ ending = <<"done">> /\ n > 0 /\ e[n] \in Terminals

(* A story, whatever its place, is faithful.                               *)
LEMMA StoryFaithful ==
    ASSUME NEW place \in {"idle"} \cup Outside \cup Inside \cup Ended,
           NEW e \in Seq(Events), NEW f \in Seq(Frames), Story(place, e, f)
    PROVE  Faithfully(place, e, f)
<1> DEFINE Faithful(own, ending) ==
              /\ own \in Seq(Events) /\ Relayed(own, e) /\ f = own \o ending /\ ending \in Endings
              /\ place = "streamed" => \/ ending = <<"stream_failed", "done">>
                                       \/ ending = <<"done">> /\ own = e /\ e # <<>>
                                          /\ e[Len(e)] \in Terminals
<1>1. ASSUME NEW own, NEW ending, Faithful(own, ending)
      PROVE  Faithfully(place, e, f)
  <2>1. Len(own) \in 0 .. Len(e) /\ own = SubSeq(e, 1, Len(own)) /\ Len(e) <= Len(own) + 1
    BY <1>1, RelayedFacts
  <2>2. place = "streamed" /\ ending # <<"stream_failed", "done">>
        => ending = <<"done">> /\ Len(own) > 0 /\ e[Len(own)] \in Terminals
    BY <1>1, EmptySeq
  <2>3. f = SubSeq(e, 1, Len(own)) \o ending /\ ending \in Endings
    BY <1>1, <2>1
  <2>4. QED
    BY <2>1, <2>2, <2>3 DEF Faithfully
<1>2. \A own \in Seq(Events) : own \in Seq(Frames)
    BY SeqMonotonic DEF Frames
<1>3. CASE f \in Seq(Events) /\ Relayed(f, e) /\ place # "streamed"
  <2>1. Faithful(f, <<>>)
    BY <1>2, <1>3, OwnEndings DEF Endings
  <2>2. QED
    BY <1>1, <2>1
<1>4. CASE Closing(e, f) /\ place # "streamed"
  <2>1. CASE f = e
    BY <1>3, <1>4, <2>1 DEF Relayed
  <2>2. ASSUME NEW own \in Seq(Events), Relayed(own, e), f = Append(own, "stream_failed")
        PROVE  Faithful(own, <<"stream_failed">>)
    BY <1>2, <1>4, <2>2, OwnEndings DEF Endings
  <2>3. QED
    BY <1>1, <1>4, <2>1, <2>2 DEF Closing
<1>5. ASSUME NEW g, Closing(e, g), f = Append(g, "done")
      PROVE  \E own, ending : Faithful(own, ending)
  <2>1. CASE g = e /\ e # <<>> /\ e[Len(e)] \in Terminals
    <3>1. Faithful(e, <<"done">>)
      BY <1>2, <1>5, <2>1, OwnEndings DEF Endings, Relayed
    <3>2. QED
      BY <3>1
  <2>2. ASSUME NEW own \in Seq(Events), Relayed(own, e), g = Append(own, "stream_failed")
        PROVE  Faithful(own, <<"stream_failed", "done">>)
    BY <1>2, <1>5, <2>2, OwnEndings DEF Endings
  <2>3. QED
    BY <1>5, <2>1, <2>2 DEF Closing
<1>6. CASE place = "streamed"
  <2>1. PICK g \in Seq(Frames) : Closing(e, g) /\ f = Append(g, "done")
    BY <1>6 DEF Story
  <2>2. PICK own, ending : Faithful(own, ending)
    BY <1>5, <2>1
  <2>3. QED
    BY <1>1, <2>2
<1>7. CASE place \in {"idle", "loaded", "read", "prepared", "refused", "sent"}
    BY <1>3, <1>7, EmptySeq DEF Story, Relayed
<1>8. QED
    BY <1>3, <1>4, <1>6, <1>7 DEF Story

(* A streaming client sees its run's events in their order, none lost or     *)
(* repeated around keep-alives and at most one behind, then the endpoint's   *)
(* own frames, wherever the client hangs up or the store fails.              *)
THEOREM FramesFaithfulAlways == Spec => []FramesFaithful
<1>1. Init => FrameInv
  <2>1. <<>> \in Seq(Events) /\ <<>> \in Seq(Frames)
    BY EmptySeq
  <2>2. QED
    BY <2>1, TurnAssumption DEF Init, FrameInv, Story
<1>2. SlotInv /\ FrameInv => FramesFaithful
  <2> SUFFICES ASSUME SlotInv, FrameInv, NEW r \in Streams
               PROVE  Faithfully(pc[r], emitted[r], frames[r])
    BY DEF FramesFaithful, Faithfully
  <2>1. /\ pc[r] \in {"idle"} \cup Outside \cup Inside \cup Ended
        /\ emitted[r] \in Seq(Events) /\ frames[r] \in Seq(Frames)
        /\ Story(pc[r], emitted[r], frames[r])
    BY TurnAssumption DEF SlotInv, FrameInv
  <2>2. QED
    BY <2>1, StoryFaithful
<1>3. QED
    BY <1>1, <1>2, InitSlot, SlotStep, StoryStep, PTL DEF Spec
===============================================================================
