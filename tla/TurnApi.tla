------------------------------ MODULE TurnApi ------------------------------
(***************************************************************************)
(* The turn endpoints (bat/api/routers/messages.py) over a session store:  *)
(* requests for one turn each, waiting for the reply (send_message) or     *)
(* streaming it (stream_message), with the tenant's run slots              *)
(* (ConcurrencyLimiter), keep-alives, clients that hang up, and sessions   *)
(* that are deleted, expire or are purged meanwhile.  The agent's run is a *)
(* source of events, here any that AgentLoop allows.                       *)
(***************************************************************************)
EXTENDS MemoryStore

CONSTANTS Requests,   \* one turn each
          Streams,    \* those sent to stream_message
          Limit,      \* settings.rate_limit.max_concurrent_runs
          MaxTokens   \* the bound on token events of one run

ASSUME TurnAssumption ==
    /\ IsFiniteSet(Requests) /\ Streams \subseteq Requests
    /\ Limit \in Nat \ {0} /\ MaxTokens \in Nat
    /\ Messages = Requests \X {"user", "assistant"}

VARIABLES pc,        \* where each request is
          target,    \* the session it is for
          inFlight,  \* ConcurrencyLimiter._in_flight of the tenant
          alive,     \* the requests whose run has neither ended nor been unwound
          emitted,   \* the events each run has produced
          frames     \* the frames sent to each streaming client, keep-alives left out

turnVars == <<pc, target, inFlight, alive, emitted, frames>>
vars == <<storeVars, turnVars>>

Terminals == {"final", "blank", "error"}      \* "blank": a FinalEvent without content

Init == /\ StoreInit
        /\ pc = [r \in Requests |-> "idle"]
        /\ target = [r \in Requests |-> "none"]
        /\ inFlight = 0
        /\ alive = {}
        /\ emitted = [r \in Requests |-> <<>>]
        /\ frames = [r \in Requests |-> <<>>]

Goto(r, location) == pc' = [pc EXCEPT ![r] = location]
Send(r, frame) == frames' = [frames EXCEPT ![r] = Append(@, frame)]
Found(r) == target[r] \in Live
Latest(r) == emitted[r][Len(emitted[r])]

(* What slot() gives back when its body is left, however it is left.       *)
Release == inFlight' = inFlight - 1

-----------------------------------------------------------------------------
(* _prepare: three calls to the store, with others' in between.            *)

LoadSession(r) ==
    /\ pc[r] = "idle"
    /\ \E s \in minted :
          /\ target' = [target EXCEPT ![r] = s]
          /\ Goto(r, IF s \in Live THEN "loaded" ELSE "refused")
    /\ UNCHANGED <<storeVars, inFlight, alive, emitted, frames>>

LoadHistory(r) ==
    /\ pc[r] = "loaded"
    /\ Goto(r, IF Found(r) THEN "read" ELSE "refused")
    /\ UNCHANGED <<storeVars, target, inFlight, alive, emitted, frames>>

StoreQuestion(r) ==
    /\ pc[r] = "read"
    /\ IF Found(r)
       THEN Goto(r, "prepared") /\ AppendMessage(target[r], <<r, "user">>)
       ELSE Goto(r, "refused") /\ UNCHANGED storeVars
    /\ UNCHANGED <<target, inFlight, alive, emitted, frames>>

-----------------------------------------------------------------------------
(* limiter.slot: admission never waits.  A stream has begun its response   *)
(* by then, so a refusal becomes its last frames.                          *)

SlotGranted(r) ==
    /\ pc[r] = "prepared"
    /\ inFlight < Limit
    /\ inFlight' = inFlight + 1
    /\ alive' = alive \cup {r}
    /\ Goto(r, IF r \in Streams THEN "pulling" ELSE "collecting")
    /\ UNCHANGED <<storeVars, target, emitted, frames>>

SlotRefused(r) ==
    /\ pc[r] = "prepared"
    /\ inFlight >= Limit
    /\ IF r \in Streams
       THEN Goto(r, "closing") /\ Send(r, "stream_failed")
       ELSE Goto(r, "refused") /\ UNCHANGED frames
    /\ UNCHANGED <<storeVars, target, inFlight, alive, emitted>>

ReadyAgain(r) == emitted[r] # <<>>      \* mutant: the pull outlives its event

(* A pull has its event: the run advances only while one is waited for.    *)
Ready(r) == Len(emitted[r]) > Len(frames[r])

Emit(r) ==
    /\ r \in alive
    /\ pc[r] = "collecting" \/ (pc[r] \in {"pulling", "keepalive"} /\ ~Ready(r))
    /\ \E e \in Terminals \cup (IF Len(emitted[r]) < MaxTokens THEN {"token"} ELSE {}) :
          /\ emitted' = [emitted EXCEPT ![r] = Append(@, e)]
          /\ alive' = IF e \in Terminals THEN alive \ {r} ELSE alive
    /\ UNCHANGED <<storeVars, pc, target, inFlight, frames>>

-----------------------------------------------------------------------------
(* send_message: collect, then the reply, after the slot is given back.    *)

Collected(r) ==
    /\ pc[r] = "collecting"
    /\ emitted[r] # <<>> /\ Latest(r) \in Terminals
    /\ Release
    /\ Goto(r, IF Latest(r) = "error" THEN "refused" ELSE "replying")
    /\ UNCHANGED <<storeVars, target, alive, emitted, frames>>

StoreReply(r) ==
    /\ pc[r] = "replying"
    /\ IF Found(r)
       THEN Goto(r, "answered") /\ AppendMessage(target[r], <<r, "assistant">>)
       ELSE Goto(r, "refused") /\ UNCHANGED storeVars
    /\ UNCHANGED <<target, inFlight, alive, emitted, frames>>

-----------------------------------------------------------------------------
(* _with_keepalive: one pull at a time, kept across the ticks.             *)

KeepaliveCancelling(r) ==      \* mutant: the timeout cancels the pull, not just the wait
    /\ pc[r] = "pulling"
    /\ ~Ready(r)
    /\ Goto(r, "keepalive")
    /\ alive' = alive \ {r}
    /\ UNCHANGED <<storeVars, target, inFlight, emitted, frames>>

Keepalive(r) ==
    /\ pc[r] = "pulling"
    /\ ~Ready(r)
    /\ Goto(r, "keepalive")
    /\ UNCHANGED <<storeVars, target, inFlight, alive, emitted, frames>>

KeepaliveSent(r) ==
    /\ pc[r] = "keepalive"
    /\ Goto(r, "pulling")
    /\ UNCHANGED <<storeVars, target, inFlight, alive, emitted, frames>>

(* The next event, for a client that is still there.                       *)
FrameSent(r) ==
    /\ pc[r] = "pulling"
    /\ Ready(r)
    /\ Send(r, Latest(r))
    /\ Goto(r, "sent")
    /\ UNCHANGED <<storeVars, target, inFlight, alive, emitted>>

(* is_disconnected: the loop is left, and the run unwound after it.        *)
Disconnected(r) ==
    /\ pc[r] = "pulling"
    /\ Ready(r)
    /\ Release
    /\ Goto(r, "gone")
    /\ UNCHANGED <<storeVars, target, alive, emitted, frames>>

-----------------------------------------------------------------------------
(* _sse_stream, when the consumer asks for what follows a frame.           *)

Tokens(r) == \E i \in DOMAIN emitted[r] : emitted[r][i] = "token"

NextPulled(r) ==
    /\ pc[r] = "sent"
    /\ Latest(r) = "token"
    /\ Goto(r, "pulling")
    /\ UNCHANGED <<storeVars, target, inFlight, alive, emitted, frames>>

NothingToStore(r) ==
    /\ pc[r] = "sent"
    /\ Latest(r) = "error" \/ (Latest(r) = "blank" /\ ~Tokens(r))
    /\ Release
    /\ Goto(r, "closing")
    /\ UNCHANGED <<storeVars, target, alive, emitted, frames>>

StoreStreamedTwice(r) ==      \* mutant: the loop goes on after the reply is stored
    /\ pc[r] = "sent"
    /\ Latest(r) = "final" \/ (Latest(r) = "blank" /\ Tokens(r))
    /\ Found(r)
    /\ AppendMessage(target[r], <<r, "assistant">>)
    /\ UNCHANGED turnVars

StoreStreamed(r) ==
    /\ pc[r] = "sent"
    /\ Latest(r) = "final" \/ (Latest(r) = "blank" /\ Tokens(r))
    /\ Release
    /\ Goto(r, "closing")
    /\ IF Found(r)
       THEN AppendMessage(target[r], <<r, "assistant">>) /\ UNCHANGED frames
       ELSE Send(r, "stream_failed") /\ UNCHANGED storeVars
    /\ UNCHANGED <<target, alive, emitted>>

DoneSent(r) ==
    /\ pc[r] = "closing"
    /\ Send(r, "done")
    /\ Goto(r, "streamed")
    /\ UNCHANGED <<storeVars, target, inFlight, alive, emitted>>

-----------------------------------------------------------------------------
Outside == {"loaded", "read", "prepared", "replying", "closing"}
Inside == {"collecting", "unwinding", "pulling", "keepalive", "sent"}
Ended == {"refused", "answered", "streamed", "gone"}

HangUpHoldingSlot(r) ==      \* mutant: only a normal exit gives the slot back
    /\ r \in Streams
    /\ pc[r] \in {"pulling", "keepalive", "sent"}
    /\ Goto(r, "gone")
    /\ UNCHANGED <<storeVars, target, inFlight, alive, emitted, frames>>

(* A stream is cancelled at an await, or closed at a yield.  The slot is   *)
(* given back at once: the pull it waits for is only asked to cancel, and  *)
(* aclose() of a generator that is running raises.  The failure and done   *)
(* frames that error leads to have no client left and are not counted.     *)
HangUp(r) ==
    /\ r \in Streams
    /\ pc[r] \in {"pulling", "keepalive", "sent"}
    /\ Release
    /\ Goto(r, "gone")
    /\ UNCHANGED <<storeVars, target, alive, emitted, frames>>

(* A cancelled collect() unwinds the run it awaits, and then the slot.     *)
CancelCollecting(r) ==
    /\ pc[r] = "collecting" /\ r \in alive
    /\ Goto(r, "unwinding")
    /\ UNCHANGED <<storeVars, target, inFlight, alive, emitted, frames>>

CollectingUnwound(r) ==
    /\ pc[r] = "unwinding"
    /\ alive' = alive \ {r}
    /\ Release
    /\ Goto(r, "gone")
    /\ UNCHANGED <<storeVars, target, emitted, frames>>

CancelOutside(r) ==
    /\ pc[r] \in Outside
    /\ Goto(r, "gone")
    /\ UNCHANGED <<storeVars, target, inFlight, alive, emitted, frames>>

(* The run of a stream that is gone: cancelled, or closed by the loop when *)
(* its generator is collected.                                             *)
RunUnwound(r) ==
    /\ r \in alive
    /\ pc[r] = "gone"
    /\ alive' = alive \ {r}
    /\ UNCHANGED <<storeVars, pc, target, inFlight, emitted, frames>>

-----------------------------------------------------------------------------
Step(r) == \/ LoadHistory(r) \/ StoreQuestion(r)
           \/ SlotGranted(r) \/ SlotRefused(r)
           \/ Emit(r) \/ RunUnwound(r)
           \/ Collected(r) \/ StoreReply(r) \/ CollectingUnwound(r)
           \/ KeepaliveSent(r) \/ FrameSent(r)
           \/ NextPulled(r) \/ NothingToStore(r) \/ StoreStreamed(r) \/ DoneSent(r)

Leave(r) == \/ Disconnected(r) \/ HangUp(r) \/ CancelCollecting(r) \/ CancelOutside(r)

(* The endpoints of sessions.py that change the store, time, and the       *)
(* purge task.                                                             *)
PostSession(s) == CreateSession(s) /\ UNCHANGED turnVars
RemoveSession(s) == DeleteSession(s) /\ UNCHANGED turnVars
Elapse(s) == Expire(s) /\ UNCHANGED turnVars
PurgeTask == PurgeExpired /\ UNCHANGED turnVars

Next == \/ \E r \in Requests : LoadSession(r) \/ Step(r) \/ Keepalive(r) \/ Leave(r)
        \/ \E s \in Sessions : PostSession(s) \/ RemoveSession(s) \/ Elapse(s)
        \/ PurgeTask

(* The loop runs what is ready, and a run's next event comes: a turn ends  *)
(* (AgentLoop's TurnEnds).  Nobody has to call or to hang up.              *)
Fairness == \A r \in Requests : WF_vars(Step(r)) /\ WF_vars(Emit(r))

Spec == Init /\ [][Next]_vars /\ Fairness

-----------------------------------------------------------------------------
(* Every exit gives the slot back once: returns, errors, 404s while the    *)
(* reply is stored, cancellation and closing at every await and yield.     *)
SlotsExact ==
    /\ inFlight = Cardinality({r \in Requests : pc[r] \in Inside})
    /\ inFlight <= Limit

(* What a stream's client gets besides its run's events.                   *)
Endings == {<<>>, <<"stream_failed">>, <<"done">>, <<"stream_failed", "done">>}

(* A client's frames are its run's events, in order, none lost or repeated *)
(* around keep-alives; `done` comes once and last, a failure before it.    *)
FramesFaithful ==
    \A r \in Streams : \E n \in 0 .. Len(emitted[r]), ending \in Endings :
        /\ frames[r] = SubSeq(emitted[r], 1, n) \o ending
        /\ Len(emitted[r]) <= n + 1
        /\ pc[r] = "streamed" => \/ ending = <<"stream_failed", "done">>
                                 \/ ending = <<"done">> /\ n > 0 /\ emitted[r][n] \in Terminals

(* No message is stored twice, and a reply comes after its question.       *)
Conversation ==
    \A s \in Sessions :
        LET t == transcript[s]
        IN /\ \A i, j \in DOMAIN t : t[i] = t[j] => i = j
           /\ \A r \in Requests : \A i, j \in DOMAIN t :
                 t[i] = <<r, "assistant">> /\ t[j] = <<r, "user">> => j < i

(* Every request that got somewhere ends, however many keep-alives it      *)
(* sends, and so does every run.                                           *)
RequestsEnd ==
    \A r \in Requests : (pc[r] # "idle") ~> (pc[r] \in Ended /\ r \notin alive)
=============================================================================
