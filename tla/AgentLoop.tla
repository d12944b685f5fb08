----------------------------- MODULE AgentLoop -----------------------------
(***************************************************************************)
(* NativeAgentRunner.run (bat/services/agent/loop.py): one agent turn, an  *)
(* asynchronous generator of events, over the model client and the tool    *)
(* executor.  Each action is what the turn does between two points where   *)
(* it is suspended: an await, or a yield whose consumer may go away.       *)
(***************************************************************************)
EXTENDS ToolExecutor, SequencesExt

CONSTANTS Requests,      \* what the model may ask for: [name, args, valid]
          MaxBatch,      \* tool calls in one completion
          MaxSteps,      \* request.max_steps
          ToolRounds,    \* request.tool_rounds_per_turn
          StreamTokens,  \* request.stream_tokens
          Deadline,      \* request.deadline_s
          LeastLimit,    \* the 1.0 s floor of a model call's timeout
          ToolTimeout,   \* ToolDefinition.timeout_s
          MaxTokens,     \* tokens of a streamed answer
          Horizon        \* the bound on the clock

ASSUME LoopAssumption ==
    /\ MaxSteps \in Nat \ {0}
    /\ ToolRounds \in Nat \ {0}
    /\ MaxBatch \in Nat \ {0}
    /\ MaxTokens \in Nat
    /\ StreamTokens \in BOOLEAN
    /\ {Deadline, LeastLimit, ToolTimeout} \subseteq Nat \ {0}
    /\ Horizon \in Nat

VARIABLES pc,          \* where the generator is suspended
          steps,       \* steps
          toolBudget,  \* tool_budget
          roundsLeft,  \* tool_rounds_left
          specs,       \* names of the tools offered to the model
          observed,    \* the turn's cache: [name, args, source]
          calls,       \* calls of the current completion not yet answered
          result,      \* the ToolResult at hand: [id, source, error]
          requested,   \* number of calls the model has asked for so far
          messages,    \* the conversation since the user's message
          events,      \* what the generator has yielded
          now,         \* loop.time()
          limit        \* when the current model call or tool times out

loopVars == <<pc, steps, toolBudget, roundsLeft, specs, observed, calls, result,
              requested, messages, events, now, limit>>
vars == <<execVars, loopVars>>

(* done: the generator ended by itself; gone: it was cancelled or closed.  *)
Locations == {"prompt", "top", "slot", "complete", "answered", "stream", "token",
              "calls", "called", "tool", "result", "done", "gone"}

NoResult == [id |-> 0, source |-> 0, error |-> FALSE]

(* source: the call whose execution produced the content of a result.      *)
Event(type, id) == [type |-> type, id |-> id, source |-> 0, error |-> FALSE]
Emit(type, id) == events' = Append(events, Event(type, id))

(* A ToolResultEvent carries the content and the outcome of the result.    *)
ResultEvent(answer) == [type |-> "tool_result", id |-> answer.id,
                        source |-> answer.source, error |-> answer.error]
EmitResult == events' = Append(events, ResultEvent(result'))

Call == [id : Nat, name : {r.name : r \in Requests}, args : {r.args : r \in Requests},
         valid : {r.valid : r \in Requests}]

Init == /\ ExecInit
        /\ pc = "prompt"
        /\ steps = 0
        /\ toolBudget = Policy.maxCallsPerRun
        /\ roundsLeft = ToolRounds
        /\ specs = {}
        /\ observed = {}
        /\ calls = <<>>
        /\ result = NoResult
        /\ requested = 0
        /\ messages = <<>>
        /\ events = <<>>
        /\ now = 0
        /\ limit = 0

-----------------------------------------------------------------------------
(* _build_prompt awaits retrieval, whose failure only costs the context;   *)
(* then the tools are chosen.                                              *)
PromptBuilt ==
    /\ pc = "prompt"
    /\ specs' = IF Policy.maxCallsPerRun = 0 THEN {} ELSE Advertised
    /\ pc' = "top"
    /\ UNCHANGED <<execVars, steps, toolBudget, roundsLeft, observed, calls,
                   result, requested, messages, events, now, limit>>

(* Mutant: the FinalEvent of the deadline without its return.              *)
StepLimitWithoutReturn ==
    /\ pc = "top"
    /\ steps >= MaxSteps \/ now >= Deadline
    /\ Emit("final", 0)
    /\ pc' = IF steps >= MaxSteps THEN "done" ELSE "slot"
    /\ UNCHANGED <<execVars, steps, toolBudget, roundsLeft, specs, observed,
                   calls, result, requested, messages, now, limit>>

(* The while loop ends: out of steps, or out of time.                      *)
StepLimit ==
    /\ pc = "top"
    /\ steps >= MaxSteps \/ now >= Deadline
    /\ Emit("final", 0)
    /\ pc' = "done"
    /\ UNCHANGED <<execVars, steps, toolBudget, roundsLeft, specs, observed,
                   calls, result, requested, messages, now, limit>>

(* A model call is made with what remains of the deadline, and at least    *)
(* one second of it; first it waits for the inference slot.                *)
NextStep ==
    /\ pc = "top"
    /\ steps < MaxSteps
    /\ now < Deadline
    /\ steps' = steps + 1
    /\ limit' = IF Deadline - now < LeastLimit THEN LeastLimit ELSE Deadline - now
    /\ pc' = "slot"
    /\ UNCHANGED <<execVars, toolBudget, roundsLeft, specs, observed, calls,
                   result, requested, messages, events, now>>

(* The timeout of the model client starts when the slot is granted.        *)
ModelStarted ==
    /\ pc = "slot"
    /\ limit' = now + limit
    /\ pc' = IF specs # {} THEN "complete" ELSE "stream"
    /\ UNCHANGED <<execVars, steps, toolBudget, roundsLeft, specs, observed,
                   calls, result, requested, messages, events, now>>

(* A full queue, a timeout, an upstream error, a bug: one ErrorEvent.      *)
ModelFailed ==
    /\ pc \in {"slot", "complete", "stream"}
    /\ Emit("error", 0)
    /\ pc' = "done"
    /\ UNCHANGED <<execVars, steps, toolBudget, roundsLeft, specs, observed,
                   calls, result, requested, messages, now, limit>>

(* An answer that asks for no tool: one TokenEvent, then the FinalEvent.   *)
Answered ==
    /\ pc = "complete"
    /\ IF StreamTokens THEN Emit("token", 0) /\ pc' = "answered"
                       ELSE Emit("final", 0) /\ pc' = "done"
    /\ UNCHANGED <<execVars, steps, toolBudget, roundsLeft, specs, observed,
                   calls, result, requested, messages, now, limit>>

AnswerFinished ==
    /\ pc = "answered"
    /\ Emit("final", 0)
    /\ pc' = "done"
    /\ UNCHANGED <<execVars, steps, toolBudget, roundsLeft, specs, observed,
                   calls, result, requested, messages, now, limit>>

(* Mutant: the retry after noise still offers the tools.                   *)
AnsweredWithNoiseKeepingTools ==
    /\ pc = "complete"
    /\ pc' = "top"
    /\ UNCHANGED <<execVars, steps, toolBudget, roundsLeft, specs, observed, calls,
                   result, requested, messages, events, now, limit>>

(* _is_unusable: the tool handler leaked its own prefix, or nothing.       *)
AnsweredWithNoise ==
    /\ pc = "complete"
    /\ specs' = {}
    /\ pc' = "top"
    /\ UNCHANGED <<execVars, steps, toolBudget, roundsLeft, observed, calls,
                   result, requested, messages, events, now, limit>>

Numbered(batch) ==
    [i \in 1 .. Len(batch) |->
        [id |-> requested + i, name |-> batch[i].name,
         args |-> batch[i].args, valid |-> batch[i].valid]]

WithinBudgetUncut(batch) == batch     \* mutant: no cut to the budget

WithinBudget(batch) ==
    IF Len(batch) > toolBudget THEN SubSeq(batch, 1, toolBudget) ELSE batch

(* Mutant: the assistant message keeps the calls the budget cut off.       *)
ToolsRequestedUncut ==
    /\ pc = "complete"
    /\ \E n \in 1 .. MaxBatch : \E batch \in [1 .. n -> Requests] :
        /\ calls' = WithinBudget(Numbered(batch))
        /\ requested' = requested + n
    /\ messages' = Append(messages,
                     [role |-> "assistant",
                      ids |-> [i \in 1 .. requested' - requested |-> requested + i]])
    /\ pc' = "calls"
    /\ UNCHANGED <<execVars, steps, toolBudget, roundsLeft, specs, observed,
                   result, events, now, limit>>

(* The assistant message carries the calls that will be answered.          *)
ToolsRequested ==
    /\ pc = "complete"
    /\ \E n \in 1 .. MaxBatch : \E batch \in [1 .. n -> Requests] :
        /\ calls' = WithinBudget(Numbered(batch))
        /\ requested' = requested + n
    /\ messages' = Append(messages,
                     [role |-> "assistant",
                      ids |-> [i \in 1 .. Len(calls') |-> calls'[i].id]])
    /\ pc' = "calls"
    /\ UNCHANGED <<execVars, steps, toolBudget, roundsLeft, specs, observed,
                   result, events, now, limit>>

-----------------------------------------------------------------------------
(* for call in calls: ToolCallEvent is yielded, ...                        *)
CallAnnounced ==
    /\ pc = "calls"
    /\ calls # <<>>
    /\ toolBudget' = toolBudget - 1
    /\ Emit("tool_call", Head(calls).id)
    /\ pc' = "called"
    /\ UNCHANGED <<execVars, steps, roundsLeft, specs, observed, calls, result,
                   requested, messages, now, limit>>

(* observed[_call_key(call)].                                              *)
Cached(call) == {o \in observed : o.name = call.name /\ o.args = call.args}

(* ... the call is an exact repeat of a cacheable one, ...                 *)
CallReplayed ==
    /\ pc = "called"
    /\ IsCacheable(Head(calls).name)
    /\ \E o \in Cached(Head(calls)) :
          result' = [id |-> Head(calls).id, source |-> o.source, error |-> FALSE]
    /\ EmitResult
    /\ pc' = "result"
    /\ UNCHANGED <<execVars, steps, toolBudget, roundsLeft, specs, observed,
                   calls, requested, messages, now, limit>>

(* ... or the executor is awaited, ...                                     *)
CallExecuted ==
    /\ pc = "called"
    /\ ~(IsCacheable(Head(calls).name) /\ Cached(Head(calls)) # {})
    /\ Execute(Head(calls))
    /\ limit' = now + ToolTimeout
    /\ pc' = "tool"
    /\ UNCHANGED <<steps, toolBudget, roundsLeft, specs, observed, calls, result,
                   requested, messages, events, now>>

ToolFinished ==
    /\ pc = "tool"
    /\ \E error \in BOOLEAN : ToolReturned(error)
    /\ UNCHANGED loopVars

CallAudited ==
    /\ pc = "tool"
    /\ Audited
    /\ UNCHANGED loopVars

(* Errors are not cached.                                                  *)
Remember(call) ==
    observed' = IF IsCacheable(call.name) /\ ~verdict.error
                THEN observed \cup {[name |-> call.name, args |-> call.args,
                                     source |-> call.id]}
                ELSE observed

(* ... and the ToolResultEvent is yielded, ...                             *)
CallAnswered ==
    /\ pc = "tool"
    /\ ResultTaken
    /\ Remember(Head(calls))
    /\ result' = [id |-> Head(calls).id, source |-> Head(calls).id,
                  error |-> verdict.error]
    /\ EmitResult
    /\ pc' = "result"
    /\ UNCHANGED <<steps, toolBudget, roundsLeft, specs, calls, requested,
                   messages, now, limit>>

(* ... and the observation is appended when the consumer comes back.       *)
ObservationAppended ==
    /\ pc = "result"
    /\ messages' = Append(messages, [role |-> "tool", ids |-> <<result.id>>])
    /\ calls' = Tail(calls)
    /\ pc' = "calls"
    /\ UNCHANGED <<execVars, steps, toolBudget, roundsLeft, specs, observed,
                   result, requested, events, now, limit>>

(* Mutant: the failure of the sink is lost and nothing resumes the turn.   *)
AuditFailedSilently ==
    /\ pc = "tool"
    /\ exec = "auditing"
    /\ ExecuteAborted
    /\ UNCHANGED loopVars

(* The audit sink raised: the whole turn fails.                            *)
AuditFailed ==
    /\ pc = "tool"
    /\ exec = "auditing"
    /\ ExecuteAborted
    /\ Emit("error", 0)
    /\ pc' = "done"
    /\ UNCHANGED <<steps, toolBudget, roundsLeft, specs, observed, calls, result,
                   requested, messages, now, limit>>

(* Mutant: one round too many.                                             *)
RoundFinishedLate ==
    /\ pc = "calls"
    /\ calls = <<>>
    /\ roundsLeft' = IF roundsLeft = 0 THEN 0 ELSE roundsLeft - 1
    /\ specs' = IF toolBudget <= 0 \/ roundsLeft <= 0 THEN {} ELSE specs
    /\ pc' = "top"
    /\ UNCHANGED <<execVars, steps, toolBudget, observed, calls, result,
                   requested, messages, events, now, limit>>

(* The round is over; tools are withdrawn when budget or rounds are used.  *)
RoundFinished ==
    /\ pc = "calls"
    /\ calls = <<>>
    /\ roundsLeft' = roundsLeft - 1
    /\ specs' = IF toolBudget <= 0 \/ roundsLeft' <= 0 THEN {} ELSE specs
    /\ pc' = "top"
    /\ UNCHANGED <<execVars, steps, toolBudget, observed, calls, result,
                   requested, messages, events, now, limit>>

-----------------------------------------------------------------------------
(* No tools in play: the answer is streamed.                               *)
Streamed == Cardinality({i \in DOMAIN events : events[i].type = "token"})

TokenStreamed ==
    /\ pc = "stream"
    /\ Streamed < MaxTokens
    /\ IF StreamTokens THEN Emit("token", 0) /\ pc' = "token"
                       ELSE UNCHANGED <<events, pc>>
    /\ UNCHANGED <<execVars, steps, toolBudget, roundsLeft, specs, observed,
                   calls, result, requested, messages, now, limit>>

TokenConsumed ==
    /\ pc = "token"
    /\ pc' = "stream"
    /\ UNCHANGED <<execVars, steps, toolBudget, roundsLeft, specs, observed,
                   calls, result, requested, messages, events, now, limit>>

StreamFinished ==
    /\ pc = "stream"
    /\ Emit("final", 0)
    /\ pc' = "done"
    /\ UNCHANGED <<execVars, steps, toolBudget, roundsLeft, specs, observed,
                   calls, result, requested, messages, now, limit>>

-----------------------------------------------------------------------------
(* The task is cancelled at an await, or the consumer closes the generator *)
(* at a yield: nothing more is emitted.                                    *)
Abandoned ==
    /\ pc \notin {"top", "calls", "done", "gone"}
    /\ pc' = "gone"
    /\ IF exec \in {"running", "auditing"} THEN ExecuteAborted
                                           ELSE UNCHANGED execVars
    /\ UNCHANGED <<steps, toolBudget, roundsLeft, specs, observed, calls, result,
                   requested, messages, events, now, limit>>

(* Time passes while something is awaited: the wait for the slot and for   *)
(* retrieval has no bound, a model call and a tool run until their limit.  *)
Tick ==
    /\ now < Horizon
    /\ \/ pc \in {"prompt", "slot", "called", "result", "token", "answered"}
       \/ pc \in {"complete", "stream"} /\ now < limit
       \/ pc = "tool" /\ exec = "running" /\ now < limit
       \/ pc = "tool" /\ exec = "auditing"
    /\ now' = now + 1
    /\ UNCHANGED <<execVars, pc, steps, toolBudget, roundsLeft, specs, observed,
                   calls, result, requested, messages, events, limit>>

Turn == \/ PromptBuilt \/ StepLimit \/ NextStep \/ ModelStarted \/ ModelFailed
        \/ Answered \/ AnswerFinished \/ AnsweredWithNoise \/ ToolsRequested
        \/ CallAnnounced \/ CallReplayed \/ CallExecuted \/ ToolFinished
        \/ CallAudited \/ CallAnswered \/ ObservationAppended \/ AuditFailed
        \/ RoundFinished \/ TokenConsumed \/ StreamFinished

Next == Turn \/ TokenStreamed \/ Abandoned \/ Tick

Spec == Init /\ [][Next]_vars

(* Retrieval, the model, the tools and the audit sink answer in the end    *)
(* (each model call and tool run has a timeout), and the consumer reads.   *)
FairSpec == Spec /\ WF_vars(Turn)

-----------------------------------------------------------------------------
TypeOK ==
    /\ pc \in Locations
    /\ exec \in {"idle", "running", "auditing", "returned", "aborted"}
    /\ steps \in 0 .. MaxSteps
    /\ toolBudget \in 0 .. Policy.maxCallsPerRun
    /\ roundsLeft \in 0 .. ToolRounds
    /\ specs \subseteq Registered
    /\ requested \in Nat
    /\ now \in 0 .. Horizon

Terminal(event) == event.type \in {"final", "error"}

(* ports/agent.py: "exactly one terminal event (final or error) is         *)
(* emitted, always, including on internal failure", and it is the last; a  *)
(* turn that is cancelled or closed emits none.                            *)
OneTerminal ==
    /\ \A i \in DOMAIN events : Terminal(events[i]) => i = Len(events) /\ pc = "done"
    /\ pc = "done" => events # <<>> /\ Terminal(Last(events))

(* Whenever the model is called, every tool call the history attributes to *)
(* the assistant has been answered, once, in order and right after it:     *)
(* calls cut by the budget leave no trace, errors are answers.             *)
TranscriptAnswered ==
    pc \in {"slot", "complete", "stream"} =>
        \A i \in DOMAIN messages :
            messages[i].role = "assistant" =>
                LET ids == messages[i].ids IN
                /\ ids # <<>>
                /\ i + Len(ids) <= Len(messages)
                /\ \A k \in DOMAIN ids :
                      messages[i + k] = [role |-> "tool", ids |-> <<ids[k]>>]
                /\ i + Len(ids) = Len(messages)
                   \/ messages[i + Len(ids) + 1].role = "assistant"

(* max_calls_per_run bounds the calls of the whole turn, across rounds and *)
(* whatever the model asks for, replays included.                          *)
BudgetRespected ==
    Cardinality({i \in DOMAIN events : events[i].type = "tool_call"})
        <= Policy.maxCallsPerRun

(* What the model is told a call returned comes from an execution of that  *)
(* very call: the same tool and arguments, and an earlier one only when    *)
(* the tool is read-only and deterministic.                                *)
AnsweredFromSameCall ==
    pc = "result" /\ ~result.error =>
        \E i \in DOMAIN runs :
            /\ runs[i].id = result.source
            /\ runs[i].name = Head(calls).name
            /\ runs[i].args = Head(calls).args
            /\ \/ result.source = result.id
               \/ /\ Definitions[runs[i].name].deterministic
                  /\ Definitions[runs[i].name].sideEffect = "read_only"

(* A tool runs only within the tenant's grant, the principal's scopes and  *)
(* its own schema, whatever name the model invents.                        *)
OnlyGrantedRun ==
    \A i \in DOMAIN runs :
        /\ runs[i].name \in Registered \cap Policy.allowed
        /\ runs[i].valid
        /\ LET d == Definitions[runs[i].name] IN
              /\ d.authority <= Policy.maxAuthority
              /\ d.sideEffect \in Policy.allowedSideEffects
              /\ d.requiredScopes \subseteq Scopes \/ "admin" \in Scopes
              /\ d.executesArbitraryCode => d.isolation >= Policy.minCodeIsolation

(* tools.py: "Every outcome -- allowed or denied -- produces an audit      *)
(* record".  No result reaches the client, and through the history the     *)
(* model, before the one record of the call it comes from, with the        *)
(* outcome that is shown: a denial and an invented name no less than a run *)
(* or a replay of one.                                                     *)
AuditedBeforeShown ==
    \A k \in DOMAIN events : events[k].type = "tool_result" =>
        \E t \in DOMAIN trail :
            /\ trail[t].error = events[k].error
            /\ {u \in DOMAIN trail : trail[u].id = events[k].source} = {t}

(* settings.py, on tool_rounds_per_turn: the tool-calling template never   *)
(* renders the results of that many rounds, and with one round none.       *)
ToolTemplateSeesNoResults ==
    pc = "complete" =>
        Cardinality({i \in DOMAIN messages : messages[i].role = "assistant"}) < ToolRounds

(* A turn costs at most one model call more than it has tool rounds: the   *)
(* retry after handler noise withdraws the tools and so happens once.      *)
RetriedOnce == steps <= ToolRounds + 1

(* Every turn ends: neither a refused or failed call, nor a failed audit,  *)
(* nor the end of its time leaves it suspended for ever.                   *)
TurnEnds == <>(pc \in {"done", "gone"})
=============================================================================
