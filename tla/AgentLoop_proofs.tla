--------------------------- MODULE AgentLoop_proofs ---------------------------
(***************************************************************************)
(* Theorems about AgentLoop for every set of tools, policy and scopes, and *)
(* every number of steps, rounds and calls.                                *)
(***************************************************************************)
EXTENDS AgentLoop, SequenceTheorems, FiniteSetTheorems, TLAPS

Executing == {"idle", "running", "auditing", "returned", "aborted"}
Round == {"calls", "called", "tool", "result"}    \* answering the calls of a completion
InHand == {"called", "tool", "result"}            \* with the first of them taken up

EventTypes == {"token", "tool_call", "tool_result", "final", "error"}
Events == [type : EventTypes, id : Nat, source : Nat, error : BOOLEAN]
Results == [id : Nat, source : Nat, error : BOOLEAN]
Records == [id : Nat, allowed : BOOLEAN, error : BOOLEAN]
Verdicts == [denial : {"", "policy", "missing scope", "invalid arguments"}, error : BOOLEAN]
Texts == [role : {"assistant", "tool"}, ids : Seq(Nat)]

Counters ==
    /\ pc \in Locations
    /\ exec \in Executing
    /\ steps \in Nat /\ steps <= MaxSteps
    /\ toolBudget \in Nat /\ toolBudget <= Policy.maxCallsPerRun
    /\ roundsLeft \in Nat /\ roundsLeft <= ToolRounds
    /\ specs \subseteq Registered
    /\ requested \in Nat
    /\ now \in Nat /\ now <= Horizon

Data ==
    /\ calls \in Seq(Call)
    /\ runs \in Seq(Call)
    /\ events \in Seq(Events)
    /\ trail \in Seq(Records)
    /\ messages \in Seq(Texts)
    /\ invoked.id \in Nat
    /\ verdict \in Verdicts
    /\ result \in Results
    /\ \A o \in observed : o.source \in Nat

(* What is left of the calls fits what is left of the budget, and a        *)
(* completion that may ask for tools has a round left.                     *)
Allowance ==
    /\ pc \in InHand => calls # <<>> /\ Len(calls) <= toolBudget + 1
    /\ pc = "calls" => Len(calls) <= toolBudget
    /\ specs # {} => roundsLeft > 0
    /\ pc \in {"complete"} \cup Round => specs # {}

(* Each model call uses up a round, but for the last one, without tools.   *)
StepsCounted ==
    /\ pc = "prompt" => steps = 0 /\ roundsLeft = ToolRounds
    /\ pc = "top" => /\ steps <= ToolRounds
                     /\ specs # {} => steps = ToolRounds - roundsLeft
    /\ pc \in {"slot", "complete"} \cup Round /\ specs # {}
          => steps = ToolRounds - roundsLeft + 1
    /\ steps <= ToolRounds + 1

Control == Counters /\ Data /\ Allowance /\ StepsCounted

LEMMA Bounds == /\ MaxSteps \in Nat \ {0} /\ ToolRounds \in Nat \ {0} /\ MaxBatch \in Nat \ {0}
                /\ Policy.maxCallsPerRun \in Nat /\ Horizon \in Nat
  BY LoopAssumption, PolicyAssumption

LEMMA InitControl == Init => Control
<1> SUFFICES ASSUME Init PROVE Control
    OBVIOUS
<1>1. Counters
    BY Bounds DEF Init, ExecInit, Counters, Locations, Executing
<1>2. Data
  <2>0. NoVerdict \in Verdicts
      BY DEF Verdicts, NoVerdict
  <2>1. /\ <<>> \in Seq(Call) /\ <<>> \in Seq(Events) /\ <<>> \in Seq(Records)
        /\ <<>> \in Seq(Texts)
      BY EmptySeq
  <2>2. NoResult \in Results
      BY DEF Results, NoResult
  <2>3. QED
      BY <2>0, <2>1, <2>2 DEF Init, ExecInit, Data, NoInvocation
<1>3. Allowance /\ StepsCounted
    BY Bounds DEF Init, Allowance, StepsCounted, InHand, Round
<1>4. QED
    BY <1>1, <1>2, <1>3 DEF Control

(* One event of a type is added, of a call or of none.                     *)
Yields(type, id) ==
    \E e \in Events : e.type = type /\ e.id = id /\ events' = Append(events, e)

LEMMA EmitYields ==
    ASSUME NEW type \in EventTypes, NEW id \in Nat, Emit(type, id)
    PROVE  Yields(type, id)
<1>1. Event(type, id) \in Events /\ Event(type, id).type = type /\ Event(type, id).id = id
    BY DEF Event, Events
<1>2. QED
    BY <1>1, Zenon DEF Emit, Yields

LEMMA YieldsTyped ==
    ASSUME events \in Seq(Events), NEW type, NEW id, Yields(type, id)
    PROVE  events' \in Seq(Events)
<1>1. PICK e \in Events : events' = Append(events, e)
    BY DEF Yields
<1>2. QED
    BY <1>1, AppendProperties

LEMMA HeadOfCalls ==
    ASSUME calls \in Seq(Call), calls # <<>>
    PROVE  /\ Head(calls) \in Call /\ Head(calls).id \in Nat /\ Head(calls) = calls[1]
           /\ Tail(calls) \in Seq(Call) /\ Len(Tail(calls)) = Len(calls) - 1
           /\ Len(calls) \in Nat \ {0}
<1>1. /\ Head(calls) \in Call /\ Tail(calls) \in Seq(Call) /\ Len(Tail(calls)) = Len(calls) - 1
    BY HeadTailProperties
<1>2. Head(calls).id \in Nat
    BY <1>1 DEF Call
<1>3. Len(calls) \in Nat \ {0}
    BY EmptySeq, LenProperties
<1>4. QED
    BY <1>1, <1>2, <1>3

(* Numbering and cutting a batch of requests.                              *)
LEMMA BatchFacts ==
    ASSUME requested \in Nat, toolBudget \in Nat, NEW n \in Nat \ {0},
           NEW batch \in [1 .. n -> Requests]
    PROVE  LET cut == WithinBudget(Numbered(batch))
           IN /\ cut \in Seq(Call)
              /\ Len(cut) <= toolBudget /\ Len(cut) <= n
              /\ toolBudget > 0 => Len(cut) > 0
              /\ \A i \in 1 .. Len(cut) : cut[i].id = requested + i
<1> DEFINE numbered == Numbered(batch)
<1>1. Len(batch) = n
    BY LenProperties, IsASeq
<1>2. /\ numbered \in Seq(Call) /\ Len(numbered) = n
      /\ \A i \in 1 .. n : numbered[i].id = requested + i
  <2>1. ASSUME NEW i \in 1 .. n
        PROVE  /\ numbered[i] \in Call
               /\ numbered[i].id = requested + i
    <3>1. batch[i] \in Requests /\ requested + i \in Nat
        OBVIOUS
    <3>2. numbered[i] = [id |-> requested + i, name |-> batch[i].name,
                         args |-> batch[i].args, valid |-> batch[i].valid]
        BY <1>1 DEF Numbered
    <3>3. QED
        BY <3>1, <3>2 DEF Call
  <2>2. numbered \in [1 .. n -> Call]
      BY <1>1, <2>1 DEF Numbered
  <2>3. QED
      BY <2>1, <2>2, IsASeq, LenProperties
<1> HIDE DEF numbered
<1>3. CASE Len(numbered) > toolBudget
  <2>1. WithinBudget(numbered) = SubSeq(numbered, 1, toolBudget)
      BY <1>3 DEF WithinBudget
  <2>2. \A i \in 1 .. toolBudget : numbered[i] \in Call
      BY <1>2, <1>3, ElementOfSeq
  <2>3. /\ SubSeq(numbered, 1, toolBudget) \in Seq(Call)
        /\ Len(SubSeq(numbered, 1, toolBudget)) = toolBudget
        /\ \A i \in 1 .. toolBudget : SubSeq(numbered, 1, toolBudget)[i] = numbered[i]
      BY <2>2, SubSeqProperties
  <2>4. QED
      BY <1>2, <1>3, <2>1, <2>3 DEF numbered
<1>4. CASE ~(Len(numbered) > toolBudget)
    BY <1>2, <1>4 DEF WithinBudget, numbered
<1>5. QED
    BY <1>3, <1>4

-----------------------------------------------------------------------------
(* Every step keeps Control.                                               *)

LEMMA CountersStep == ASSUME Control, Next PROVE Counters'
<1> USE Bounds DEF Counters, Locations, Executing
<1>0. Counters /\ Allowance
    BY DEF Control
<1>1. CASE PromptBuilt
    BY <1>0, <1>1 DEF PromptBuilt, execVars, Advertised
<1>2. CASE StepLimit \/ ModelStarted \/ ModelFailed
    BY <1>0, <1>2 DEF StepLimit, ModelStarted, ModelFailed, execVars
<1>3. CASE NextStep
    BY <1>0, <1>3 DEF NextStep, execVars
<1>4. CASE Answered \/ AnswerFinished \/ AnsweredWithNoise
    BY <1>0, <1>4 DEF Answered, AnswerFinished, AnsweredWithNoise, execVars
<1>5. CASE ToolsRequested
    BY <1>0, <1>5 DEF ToolsRequested, execVars
<1>6. CASE CallAnnounced
  <2>1. Len(calls) \in Nat \ {0} /\ Len(calls) <= toolBudget
      BY <1>6, HeadOfCalls DEF CallAnnounced, Control, Data, Allowance
  <2>2. QED
      BY <1>0, <1>6, <2>1 DEF CallAnnounced, execVars
<1>7. CASE CallReplayed \/ ObservationAppended
    BY <1>0, <1>7 DEF CallReplayed, ObservationAppended, execVars
<1>8. CASE CallExecuted
    BY <1>0, <1>8 DEF CallExecuted, Execute, RefuseUnknown, Refuse, StartTool
<1>9. CASE ToolFinished \/ CallAudited
    BY <1>0, <1>9 DEF ToolFinished, CallAudited, ToolReturned, Audited, loopVars
<1>10. CASE CallAnswered \/ AuditFailed
    BY <1>0, <1>10 DEF CallAnswered, ResultTaken, AuditFailed, ExecuteAborted
<1>11. CASE RoundFinished
    BY <1>0, <1>11 DEF RoundFinished, execVars, Allowance, Round
<1>12. CASE TokenStreamed \/ TokenConsumed \/ StreamFinished
    BY <1>0, <1>12 DEF TokenStreamed, TokenConsumed, StreamFinished, execVars
<1>13. CASE Abandoned
    BY <1>0, <1>13 DEF Abandoned, ExecuteAborted, execVars
<1>14. CASE Tick
    BY <1>0, <1>14 DEF Tick, execVars
<1>15. QED
    BY <1>1, <1>2, <1>3, <1>4, <1>5, <1>6, <1>7, <1>8, <1>9, <1>10, <1>11, <1>12,
       <1>13, <1>14 DEF Next, Turn

LEMMA AllowanceStep == ASSUME Control, Next PROVE Allowance'
<1> USE Bounds DEF Allowance, InHand, Round
<1>0. Counters /\ Allowance
    BY DEF Control
<1>1. CASE PromptBuilt
    BY <1>0, <1>1 DEF PromptBuilt, Control, StepsCounted
<1>2. CASE StepLimit \/ NextStep \/ ModelStarted \/ ModelFailed
    BY <1>0, <1>2 DEF StepLimit, NextStep, ModelStarted, ModelFailed
<1>3. CASE Answered \/ AnswerFinished \/ AnsweredWithNoise
    BY <1>0, <1>3 DEF Answered, AnswerFinished, AnsweredWithNoise
<1>4. CASE ToolsRequested
  <2>1. PICK n \in 1 .. MaxBatch : \E batch \in [1 .. n -> Requests] :
            calls' = WithinBudget(Numbered(batch))
      BY <1>4 DEF ToolsRequested
  <2>2. n \in Nat \ {0} /\ requested \in Nat /\ toolBudget \in Nat
      BY <1>0, <2>1 DEF Counters
  <2>3. Len(calls') <= toolBudget
      BY <2>1, <2>2, BatchFacts
  <2>4. /\ pc = "complete" /\ pc' = "calls"
        /\ UNCHANGED <<specs, roundsLeft, toolBudget>>
      BY <1>4 DEF ToolsRequested
  <2>5. QED
      BY <1>0, <2>3, <2>4
<1>5. CASE CallAnnounced
    BY <1>0, <1>5, HeadOfCalls DEF CallAnnounced, Control, Data, Counters
<1>6. CASE CallReplayed \/ CallExecuted
    BY <1>0, <1>6 DEF CallReplayed, CallExecuted
<1>7. CASE ToolFinished \/ CallAudited
    BY <1>0, <1>7 DEF ToolFinished, CallAudited, loopVars
<1>8. CASE CallAnswered \/ AuditFailed
    BY <1>0, <1>8 DEF CallAnswered, AuditFailed
<1>9. CASE ObservationAppended
    BY <1>0, <1>9, HeadOfCalls DEF ObservationAppended, Control, Data, Counters
<1>10. CASE RoundFinished
    BY <1>0, <1>10 DEF RoundFinished
<1>11. CASE TokenStreamed \/ TokenConsumed \/ StreamFinished
    BY <1>0, <1>11 DEF TokenStreamed, TokenConsumed, StreamFinished
<1>12. CASE Abandoned
    BY <1>0, <1>12 DEF Abandoned
<1>13. CASE Tick
    BY <1>0, <1>13 DEF Tick
<1>14. QED
    BY <1>1, <1>2, <1>3, <1>4, <1>5, <1>6, <1>7, <1>8, <1>9, <1>10, <1>11, <1>12,
       <1>13 DEF Next, Turn

LEMMA StepsStep == ASSUME Control, Next PROVE StepsCounted'
<1> USE Bounds DEF StepsCounted, Round, Counters
<1>0. Counters /\ Allowance /\ StepsCounted
    BY DEF Control
<1>1. CASE PromptBuilt
    BY <1>0, <1>1 DEF PromptBuilt
<1>2. CASE StepLimit \/ NextStep \/ ModelStarted \/ ModelFailed
    BY <1>0, <1>2 DEF StepLimit, NextStep, ModelStarted, ModelFailed
<1>3. CASE Answered \/ AnswerFinished \/ AnsweredWithNoise
    BY <1>0, <1>3 DEF Answered, AnswerFinished, AnsweredWithNoise, Allowance
<1>4. CASE ToolsRequested \/ CallAnnounced \/ CallReplayed \/ CallExecuted
    BY <1>0, <1>4 DEF ToolsRequested, CallAnnounced, CallReplayed, CallExecuted
<1>5. CASE ToolFinished \/ CallAudited
    BY <1>0, <1>5 DEF ToolFinished, CallAudited, loopVars
<1>6. CASE CallAnswered \/ AuditFailed \/ ObservationAppended
    BY <1>0, <1>6 DEF CallAnswered, AuditFailed, ObservationAppended
<1>7. CASE RoundFinished
    BY <1>0, <1>7 DEF RoundFinished, Allowance
<1>8. CASE TokenStreamed \/ TokenConsumed \/ StreamFinished
    BY <1>0, <1>8 DEF TokenStreamed, TokenConsumed, StreamFinished
<1>9. CASE Abandoned \/ Tick
    BY <1>0, <1>9 DEF Abandoned, Tick
<1>10. QED
    BY <1>1, <1>2, <1>3, <1>4, <1>5, <1>6, <1>7, <1>8, <1>9 DEF Next, Turn

(* The result of a call names the call it comes from and its outcome.      *)
LEMMA ResultShown ==
    ASSUME Control, CallReplayed \/ CallAnswered
    PROVE  /\ Head(calls).id \in Nat /\ Head(calls) = calls[1] /\ calls # <<>>
           /\ result' \in Results /\ result'.id = Head(calls).id
           /\ ResultEvent(result') \in Events
           /\ ResultEvent(result').type = "tool_result"
           /\ ResultEvent(result').id = Head(calls).id
           /\ ResultEvent(result').source = result'.source
           /\ ResultEvent(result').error = result'.error
<1>1. Head(calls).id \in Nat /\ Head(calls) = calls[1] /\ calls # <<>>
    BY HeadOfCalls DEF CallReplayed, CallAnswered, Control, Data, Allowance, InHand
<1>2. result' \in Results /\ result'.id = Head(calls).id
  <2>1. CASE CallReplayed
    <3>1. PICK o \in observed :
              result' = [id |-> Head(calls).id, source |-> o.source, error |-> FALSE]
        BY <2>1 DEF CallReplayed, Cached
    <3>2. o.source \in Nat
        BY <3>1 DEF Control, Data
    <3>3. QED
        BY <1>1, <3>1, <3>2 DEF Results
  <2>2. CASE CallAnswered
    <3>1. result' = [id |-> Head(calls).id, source |-> Head(calls).id,
                     error |-> verdict.error]
        BY <2>2 DEF CallAnswered
    <3>2. verdict.error \in BOOLEAN
        BY DEF Control, Data, Verdicts
    <3>3. QED
        BY <1>1, <3>1, <3>2 DEF Results
  <2>3. QED
      BY <2>1, <2>2
<1>3. /\ result'.id \in Nat /\ result'.source \in Nat /\ result'.error \in BOOLEAN
    BY <1>2 DEF Results
<1>4. QED
    BY <1>1, <1>2, <1>3 DEF ResultEvent, Events, EventTypes

(* Each action appends at most one event, a terminal one as the turn ends; *)
(* an announced call is paid for from the budget.                          *)
LEMMA EventStep ==
    ASSUME Control, Next
    PROVE  /\ pc # "done"
           /\ \/ pc' # "done" /\ UNCHANGED <<events, toolBudget>>
              \/ pc' # "done" /\ UNCHANGED toolBudget /\ Yields("token", 0)
              \/ /\ pc' # "done" /\ toolBudget' = toolBudget - 1
                 /\ Head(calls).id \in Nat /\ Yields("tool_call", Head(calls).id)
              \/ /\ pc' # "done" /\ UNCHANGED toolBudget
                 /\ Head(calls).id \in Nat /\ Yields("tool_result", Head(calls).id)
                 /\ CallReplayed \/ CallAnswered
              \/ /\ pc' = "done" /\ UNCHANGED toolBudget
                 /\ \E type \in {"final", "error"} : Yields(type, 0)
<1> USE DEF EventTypes
<1>1. CASE PromptBuilt \/ NextStep \/ ModelStarted \/ AnsweredWithNoise \/ ToolsRequested
    BY <1>1 DEF PromptBuilt, NextStep, ModelStarted, AnsweredWithNoise, ToolsRequested
<1>2. CASE StepLimit \/ ModelFailed \/ AnswerFinished \/ AuditFailed \/ StreamFinished
    BY <1>2, EmitYields DEF StepLimit, ModelFailed, AnswerFinished, AuditFailed, StreamFinished
<1>3. CASE Answered
    BY <1>3, EmitYields DEF Answered
<1>4. CASE CallAnnounced
  <2>1. Head(calls).id \in Nat
      BY <1>4, HeadOfCalls DEF CallAnnounced, Control, Data
  <2>2. QED
      BY <1>4, <2>1, EmitYields DEF CallAnnounced
<1>5. CASE CallReplayed \/ CallAnswered
  <2>1. /\ pc # "done" /\ pc' # "done" /\ UNCHANGED toolBudget
        /\ events' = Append(events, ResultEvent(result'))
      BY <1>5 DEF CallReplayed, CallAnswered, EmitResult
  <2>2. Yields("tool_result", Head(calls).id) /\ Head(calls).id \in Nat
      BY <1>5, <2>1, ResultShown, Zenon DEF Yields
  <2>3. QED
      BY <1>5, <2>1, <2>2
<1>6. CASE CallExecuted \/ ToolFinished \/ CallAudited \/ ObservationAppended \/ RoundFinished
    BY <1>6 DEF CallExecuted, ToolFinished, CallAudited, ObservationAppended, RoundFinished,
                loopVars
<1>7. CASE TokenStreamed \/ TokenConsumed
    BY <1>7, EmitYields DEF TokenStreamed, TokenConsumed
<1>8. CASE Abandoned \/ Tick
    BY <1>8 DEF Abandoned, Tick
<1>9. QED
    BY <1>1, <1>2, <1>3, <1>4, <1>5, <1>6, <1>7, <1>8 DEF Next, Turn

(* Only the start of a tool adds a run: of the first call, when nothing    *)
(* refuses it.                                                             *)
LEMMA RunStep ==
    ASSUME Control, Next
    PROVE  \/ UNCHANGED runs
           \/ pc = "called" /\ CallExecuted /\ StartTool(Head(calls))
<1>1. CASE CallExecuted
    BY <1>1 DEF CallExecuted, Execute, RefuseUnknown, Refuse
<1>2. CASE ToolFinished \/ CallAudited \/ CallAnswered
    BY <1>2 DEF ToolFinished, CallAudited, CallAnswered, ToolReturned, Audited, ResultTaken
<1>3. CASE AuditFailed \/ Abandoned
    BY <1>3 DEF AuditFailed, Abandoned, ExecuteAborted, execVars
<1>4. CASE PromptBuilt \/ StepLimit \/ NextStep \/ ModelStarted \/ ModelFailed \/ Tick
    BY <1>4 DEF PromptBuilt, StepLimit, NextStep, ModelStarted, ModelFailed, Tick, execVars
<1>5. CASE Answered \/ AnswerFinished \/ AnsweredWithNoise \/ ToolsRequested \/ CallAnnounced
    BY <1>5 DEF Answered, AnswerFinished, AnsweredWithNoise, ToolsRequested, CallAnnounced,
                execVars
<1>6. CASE CallReplayed \/ ObservationAppended \/ RoundFinished
    BY <1>6 DEF CallReplayed, ObservationAppended, RoundFinished, execVars
<1>7. CASE TokenStreamed \/ TokenConsumed \/ StreamFinished
    BY <1>7 DEF TokenStreamed, TokenConsumed, StreamFinished, execVars
<1>8. QED
    BY <1>1, <1>2, <1>3, <1>4, <1>5, <1>6, <1>7 DEF Next, Turn

(* What the rest of the executor's state becomes.                          *)
LEMMA ExecutorStep ==
    ASSUME Control, Next
    PROVE  \/ UNCHANGED <<invoked, verdict, trail>>
           \/ CallExecuted /\ UNCHANGED trail
           \/ ToolFinished /\ UNCHANGED <<invoked, trail>>
           \/ CallAudited /\ UNCHANGED <<invoked, verdict>>
<1>1. CASE CallExecuted
    BY <1>1 DEF CallExecuted, Execute
<1>2. CASE ToolFinished \/ CallAudited \/ CallAnswered
    BY <1>2 DEF ToolFinished, CallAudited, CallAnswered, ToolReturned, Audited, ResultTaken
<1>3. CASE AuditFailed \/ Abandoned
    BY <1>3 DEF AuditFailed, Abandoned, ExecuteAborted, execVars
<1>4. CASE PromptBuilt \/ StepLimit \/ NextStep \/ ModelStarted \/ ModelFailed \/ Tick
    BY <1>4 DEF PromptBuilt, StepLimit, NextStep, ModelStarted, ModelFailed, Tick, execVars
<1>5. CASE Answered \/ AnswerFinished \/ AnsweredWithNoise \/ ToolsRequested \/ CallAnnounced
    BY <1>5 DEF Answered, AnswerFinished, AnsweredWithNoise, ToolsRequested, CallAnnounced,
                execVars
<1>6. CASE CallReplayed \/ ObservationAppended \/ RoundFinished
    BY <1>6 DEF CallReplayed, ObservationAppended, RoundFinished, execVars
<1>7. CASE TokenStreamed \/ TokenConsumed \/ StreamFinished
    BY <1>7 DEF TokenStreamed, TokenConsumed, StreamFinished, execVars
<1>8. QED
    BY <1>1, <1>2, <1>3, <1>4, <1>5, <1>6, <1>7 DEF Next, Turn

(* Only a completion and an observation change the conversation, and only  *)
(* they the calls.                                                         *)
LEMMA ConversationStep ==
    ASSUME Control, Next
    PROVE  \/ UNCHANGED <<calls, messages, requested>>
           \/ ToolsRequested
           \/ ObservationAppended
<1>1. CASE CallExecuted \/ CallAnswered \/ AuditFailed \/ Abandoned \/ Tick
    BY <1>1 DEF CallExecuted, CallAnswered, AuditFailed, Abandoned, Tick
<1>2. CASE ToolFinished \/ CallAudited
    BY <1>2 DEF ToolFinished, CallAudited, loopVars
<1>3. CASE PromptBuilt \/ StepLimit \/ NextStep \/ ModelStarted \/ ModelFailed
    BY <1>3 DEF PromptBuilt, StepLimit, NextStep, ModelStarted, ModelFailed
<1>4. CASE Answered \/ AnswerFinished \/ AnsweredWithNoise \/ CallAnnounced
    BY <1>4 DEF Answered, AnswerFinished, AnsweredWithNoise, CallAnnounced
<1>5. CASE CallReplayed \/ RoundFinished
    BY <1>5 DEF CallReplayed, RoundFinished
<1>6. CASE TokenStreamed \/ TokenConsumed \/ StreamFinished
    BY <1>6 DEF TokenStreamed, TokenConsumed, StreamFinished
<1>7. QED
    BY <1>1, <1>2, <1>3, <1>4, <1>5, <1>6 DEF Next, Turn

(* The assistant message of a completion, and what it leaves to answer.    *)
LEMMA RequestFacts ==
    ASSUME Control, ToolsRequested
    PROVE  /\ calls' \in Seq(Call)
           /\ Len(calls') <= toolBudget
           /\ toolBudget > 0 => Len(calls') > 0
           /\ requested' \in Nat /\ Len(calls') <= requested' - requested
           /\ \A i \in 1 .. Len(calls') : calls'[i].id = requested + i
           /\ messages' = Append(messages, [role |-> "assistant",
                                            ids |-> [i \in 1 .. Len(calls') |-> calls'[i].id]])
           /\ [role |-> "assistant", ids |-> [i \in 1 .. Len(calls') |-> calls'[i].id]] \in Texts
           /\ messages' \in Seq(Texts)
<1>1. PICK n \in 1 .. MaxBatch : \E batch \in [1 .. n -> Requests] :
          /\ calls' = WithinBudget(Numbered(batch))
          /\ requested' = requested + n
    BY DEF ToolsRequested
<1>2. PICK batch \in [1 .. n -> Requests] :
          /\ calls' = WithinBudget(Numbered(batch))
          /\ requested' = requested + n
    BY <1>1
<1>3. requested \in Nat /\ toolBudget \in Nat /\ n \in Nat \ {0}
    BY Bounds DEF Control, Counters
<1>4. /\ calls' \in Seq(Call) /\ Len(calls') <= toolBudget /\ Len(calls') <= n
      /\ toolBudget > 0 => Len(calls') > 0
      /\ \A i \in 1 .. Len(calls') : calls'[i].id = requested + i
    BY <1>2, <1>3, BatchFacts
<1> DEFINE ids == [i \in 1 .. Len(calls') |-> calls'[i].id]
<1>5. ids \in Seq(Nat)
  <2>1. Len(calls') \in Nat
      BY <1>4, LenProperties
  <2>2. \A i \in 1 .. Len(calls') : calls'[i].id \in Nat
      BY <1>3, <1>4
  <2>3. QED
      BY <2>1, <2>2, IsASeq
<1>6. [role |-> "assistant", ids |-> ids] \in Texts
    BY <1>5 DEF Texts
<1>7. messages' = Append(messages, [role |-> "assistant", ids |-> ids])
    BY DEF ToolsRequested
<1>8. messages' \in Seq(Texts)
    BY <1>6, <1>7, AppendProperties DEF Control, Data
<1>9. QED
    BY <1>2, <1>3, <1>4, <1>6, <1>7, <1>8

LEMMA DataStep == ASSUME Control, Next PROVE Data'
<1>0. Data
    BY DEF Control
<1>1. events' \in Seq(Events)
    BY <1>0, EventStep, YieldsTyped DEF Data
<1>2. runs' \in Seq(Call)
  <2>1. CASE pc = "called" /\ StartTool(Head(calls))
    <3>1. Head(calls) \in Call
        BY <1>0, <2>1, HeadOfCalls DEF Data, Control, Allowance, InHand
    <3>2. QED
        BY <1>0, <2>1, <3>1, AppendProperties DEF Data, StartTool
  <2>2. QED
      BY <1>0, <2>1, RunStep DEF Data
<1>3. trail' \in Seq(Records) /\ invoked'.id \in Nat /\ verdict' \in Verdicts
  <2>1. CASE CallExecuted /\ UNCHANGED trail
    <3>1. Head(calls).id \in Nat
        BY <1>0, <2>1, HeadOfCalls DEF Data, Control, Allowance, InHand, CallExecuted
    <3>2. /\ NoVerdict \in Verdicts /\ [denial |-> "", error |-> TRUE] \in Verdicts
          /\ [denial |-> Denial(Head(calls)), error |-> TRUE] \in Verdicts
        BY DEF Verdicts, NoVerdict, Denial
    <3>3. verdict' \in Verdicts
        BY <2>1, <3>2 DEF CallExecuted, Execute, RefuseUnknown, Refuse, StartTool
    <3>4. QED
        BY <1>0, <2>1, <3>1, <3>3 DEF CallExecuted, Execute, Data
  <2>2. CASE ToolFinished /\ UNCHANGED <<invoked, trail>>
    <3>1. PICK error \in BOOLEAN : ToolReturned(error)
        BY <2>2 DEF ToolFinished
    <3>2. [denial |-> "", error |-> error] \in Verdicts
        BY DEF Verdicts
    <3>3. QED
        BY <1>0, <2>2, <3>1, <3>2 DEF ToolReturned, Data
  <2>3. CASE CallAudited /\ UNCHANGED <<invoked, verdict>>
    <3>1. [id |-> invoked.id, allowed |-> ~verdict.error \/ verdict.denial = "",
           error |-> verdict.error] \in Records
        BY <1>0 DEF Data, Records, Verdicts
    <3>2. QED
        BY <1>0, <2>3, <3>1, AppendProperties DEF CallAudited, Audited, Data
  <2>4. QED
      BY <1>0, <2>1, <2>2, <2>3, ExecutorStep DEF Data
<1>4. result' \in Results /\ \A o \in observed' : o.source \in Nat
  <2>1. CASE CallReplayed
      BY <1>0, <2>1, ResultShown DEF CallReplayed, Data
  <2>2. CASE CallAnswered
    <3>1. Remember(Head(calls))
        BY <2>2 DEF CallAnswered
    <3>2. \A o \in observed' : o \in observed \/ o.source = Head(calls).id
        BY <3>1 DEF Remember
    <3>3. QED
        BY <1>0, <2>2, <3>2, ResultShown DEF Data
  <2>3. CASE ~(CallReplayed \/ CallAnswered)
    <3>1. UNCHANGED <<result, observed>>
        BY <2>3
        DEF Next, Turn, PromptBuilt, StepLimit, NextStep, ModelStarted, ModelFailed, Answered,
            AnswerFinished, AnsweredWithNoise, ToolsRequested, CallAnnounced, CallExecuted,
            ToolFinished, CallAudited, ObservationAppended, AuditFailed, RoundFinished,
            TokenConsumed, TokenStreamed, StreamFinished, Abandoned, Tick, loopVars
    <3>2. QED
        BY <1>0, <3>1 DEF Data
  <2>4. QED
      BY <2>1, <2>2, <2>3
<1>5. calls' \in Seq(Call) /\ messages' \in Seq(Texts)
  <2>1. CASE ToolsRequested
      BY <2>1, RequestFacts
  <2>2. CASE ObservationAppended
    <3>1. Tail(calls) \in Seq(Call)
        BY <1>0, <2>2, HeadOfCalls DEF ObservationAppended, Control, Data, Allowance, InHand
    <3>2. [role |-> "tool", ids |-> <<result.id>>] \in Texts
      <4>1. <<result.id>> \in Seq(Nat)
          BY <1>0 DEF Data, Results
      <4>2. QED
          BY <4>1 DEF Texts
    <3>3. QED
        BY <1>0, <2>2, <3>1, <3>2, AppendProperties DEF ObservationAppended, Data
  <2>3. QED
      BY <1>0, <2>1, <2>2, ConversationStep DEF Data
<1>6. QED
    BY <1>1, <1>2, <1>3, <1>4, <1>5 DEF Data

LEMMA ControlStep == Control /\ [Next]_vars => Control'
<1> SUFFICES ASSUME Control, [Next]_vars PROVE Control'
    OBVIOUS
<1>1. CASE Next
    BY <1>1, CountersStep, AllowanceStep, StepsStep, DataStep DEF Control
<1>2. CASE UNCHANGED vars
    BY <1>2 DEF vars, loopVars, execVars, Control, Counters, Data, Allowance, StepsCounted
<1>3. QED
    BY <1>1, <1>2

LEMMA ControlAlways == Spec => []Control
  BY InitControl, ControlStep, PTL DEF Spec

(* No counter of a turn leaves its bounds: steps, model calls, rounds and  *)
(* calls of a batch, whatever the model asks for and whatever fails.       *)
THEOREM TypeCorrect == Spec => []TypeOK
<1>1. Control => TypeOK
    BY Bounds DEF Control, Counters, TypeOK, Executing
<1>2. QED
    BY <1>1, ControlAlways, PTL

(* A turn costs at most one model call more than it has rounds, so the     *)
(* retry after handler noise happens once.                                 *)
THEOREM RetriedOnceAlways == Spec => []RetriedOnce
<1>1. Control => RetriedOnce
    BY DEF Control, StepsCounted, RetriedOnce
<1>2. QED
    BY <1>1, ControlAlways, PTL

-----------------------------------------------------------------------------
(* What is emitted.                                                        *)

LEMMA OneTerminalStep == Control /\ OneTerminal /\ [Next]_vars => OneTerminal'
<1> SUFFICES ASSUME Control, OneTerminal, [Next]_vars PROVE OneTerminal'
    OBVIOUS
<1>1. CASE UNCHANGED vars
    BY <1>1 DEF vars, loopVars, OneTerminal, Terminal
<1>2. ASSUME Next, NEW type \in EventTypes, NEW id \in Nat, Yields(type, id),
             pc # "done", pc' = "done" <=> type \in {"final", "error"}
      PROVE  OneTerminal'
  <2>1. PICK e \in Events : e.type = type /\ events' = Append(events, e)
      BY <1>2 DEF Yields
  <2>2. /\ Len(events') = Len(events) + 1 /\ events' # <<>>
        /\ \A i \in 1 .. Len(events) : events'[i] = events[i]
        /\ events'[Len(events')] = e
        /\ Len(events) \in Nat
        /\ DOMAIN events' = 1 .. Len(events') /\ DOMAIN events = 1 .. Len(events)
      BY <2>1, AppendProperties, LenProperties DEF Control, Data
  <2>3. \A i \in 1 .. Len(events) : ~Terminal(events[i])
      BY <1>2, <2>2 DEF OneTerminal
  <2>4. \A i \in DOMAIN events' : Terminal(events'[i]) => i = Len(events')
      BY <2>2, <2>3 DEF Terminal
  <2>5. Terminal(events'[Len(events')]) <=> type \in {"final", "error"}
      BY <2>1, <2>2 DEF Terminal
  <2>6. QED
      BY <1>2, <2>2, <2>4, <2>5 DEF OneTerminal, Terminal, Last
<1>3. ASSUME pc # "done", pc' # "done", UNCHANGED events PROVE OneTerminal'
    BY <1>3 DEF OneTerminal, Terminal
<1>4. CASE Next
    BY <1>2, <1>3, <1>4, EventStep DEF EventTypes
<1>5. QED
    BY <1>1, <1>4

(* Exactly one terminal event, the last, whatever fails and whenever; none *)
(* for a turn that is cancelled or closed.                                 *)
THEOREM OneTerminalAlways == Spec => []OneTerminal
<1>1. Init => OneTerminal
    BY DEF Init, OneTerminal
<1>2. QED
    BY <1>1, OneTerminalStep, ControlAlways, PTL DEF Spec

(* The positions of a sequence at which it has a member of a set.          *)
Positions(s, T) == {i \in DOMAIN s : s[i] \in T}

LEMMA PositionsFinite ==
    ASSUME NEW S, NEW s \in Seq(S), NEW T
    PROVE  IsFiniteSet(Positions(s, T)) /\ Cardinality(Positions(s, T)) \in Nat
<1>1. DOMAIN s = 1 .. Len(s) /\ Len(s) \in Nat
    BY LenProperties
<1>2. IsFiniteSet(1 .. Len(s))
    BY <1>1, FS_Interval
<1>3. QED
    BY <1>1, <1>2, FS_Subset, FS_CardinalityType DEF Positions

LEMMA PositionsAppended ==
    ASSUME NEW S, NEW s \in Seq(S), NEW e \in S, NEW T
    PROVE  Cardinality(Positions(Append(s, e), T))
             = Cardinality(Positions(s, T)) + (IF e \in T THEN 1 ELSE 0)
<1>1. /\ DOMAIN s = 1 .. Len(s) /\ Len(s) \in Nat
      /\ DOMAIN Append(s, e) = 1 .. Len(s) + 1
      /\ \A i \in 1 .. Len(s) : Append(s, e)[i] = s[i]
      /\ Append(s, e)[Len(s) + 1] = e
    BY AppendProperties, LenProperties
<1>2. CASE e \in T
  <2>1. Positions(Append(s, e), T) = Positions(s, T) \cup {Len(s) + 1}
      BY <1>1, <1>2 DEF Positions
  <2>2. Len(s) + 1 \notin Positions(s, T)
      BY <1>1 DEF Positions
  <2>3. QED
      BY <1>2, <2>1, <2>2, PositionsFinite, FS_AddElement
<1>3. CASE e \notin T
  <2>1. Positions(Append(s, e), T) = Positions(s, T)
      BY <1>1, <1>3 DEF Positions
  <2>2. QED
      BY <1>3, <2>1, PositionsFinite
<1>4. QED
    BY <1>2, <1>3

ToolCalls == {e \in Events : e.type = "tool_call"}

(* Every announced call was paid for.                                      *)
BudgetInv == Cardinality(Positions(events, ToolCalls)) + toolBudget = Policy.maxCallsPerRun

LEMMA BudgetStep == Control /\ BudgetInv /\ [Next]_vars => BudgetInv'
<1> SUFFICES ASSUME Control, BudgetInv, [Next]_vars PROVE BudgetInv'
    OBVIOUS
<1>1. CASE UNCHANGED <<events, toolBudget>>
    BY <1>1 DEF BudgetInv, Positions
<1>2. ASSUME NEW type \in EventTypes, NEW id \in Nat, Yields(type, id),
             toolBudget' = IF type = "tool_call" THEN toolBudget - 1 ELSE toolBudget
      PROVE  BudgetInv'
  <2>1. PICK e \in Events : e.type = type /\ events' = Append(events, e)
      BY <1>2 DEF Yields
  <2>2. events \in Seq(Events) /\ toolBudget \in Nat
      BY DEF Control, Data, Counters
  <2>3. Cardinality(Positions(events', ToolCalls))
          = Cardinality(Positions(events, ToolCalls)) + (IF type = "tool_call" THEN 1 ELSE 0)
      BY <2>1, <2>2, PositionsAppended DEF ToolCalls
  <2>4. Cardinality(Positions(events, ToolCalls)) \in Nat
      BY <2>2, PositionsFinite
  <2>5. QED
      BY <1>2, <2>2, <2>3, <2>4, Bounds DEF BudgetInv
<1>3. CASE Next
    BY <1>1, <1>2, <1>3, EventStep DEF EventTypes
<1>4. QED
    BY <1>1, <1>3 DEF vars, loopVars

(* No turn makes more calls than max_calls_per_run, replays included.      *)
THEOREM BudgetRespectedAlways == Spec => []BudgetRespected
<1>1. Init => BudgetInv
  <2> SUFFICES ASSUME Init PROVE BudgetInv
      OBVIOUS
  <2>1. Positions(events, ToolCalls) = {}
      BY DEF Init, Positions
  <2>2. Cardinality(Positions(events, ToolCalls)) = 0
      BY <2>1, FS_EmptySet
  <2>3. toolBudget = Policy.maxCallsPerRun
      BY DEF Init
  <2>4. QED
      BY <2>2, <2>3, Bounds DEF BudgetInv
<1>2. Control /\ BudgetInv => BudgetRespected
  <2> SUFFICES ASSUME Control, BudgetInv PROVE BudgetRespected
      OBVIOUS
  <2>1. events \in Seq(Events) /\ toolBudget \in Nat
      BY DEF Control, Data, Counters
  <2>2. {i \in DOMAIN events : events[i].type = "tool_call"} = Positions(events, ToolCalls)
      BY <2>1, ElementOfSeq, LenProperties DEF Positions, ToolCalls
  <2>3. Cardinality(Positions(events, ToolCalls)) \in Nat
      BY <2>1, PositionsFinite
  <2>4. Cardinality(Positions(events, ToolCalls)) <= Policy.maxCallsPerRun
      BY <2>1, <2>3, Bounds DEF BudgetInv
  <2>5. QED
      BY <2>2, <2>4 DEF BudgetRespected
<1>3. QED
    BY <1>1, <1>2, BudgetStep, ControlAlways, PTL DEF Spec

-----------------------------------------------------------------------------
(* What the model is shown.                                                *)

FromAssistant == {m \in Texts : m.role = "assistant"}
RoundsAsked == Cardinality(Positions(messages, FromAssistant))

(* Each round that was asked for is one that is no longer left.            *)
RoundsInv ==
    /\ pc \in {"prompt", "top", "slot", "complete"} => RoundsAsked = ToolRounds - roundsLeft
    /\ pc \in Round => RoundsAsked = ToolRounds - roundsLeft + 1

LEMMA RoundsStep == Control /\ RoundsInv /\ [Next]_vars => RoundsInv'
<1> SUFFICES ASSUME Control, RoundsInv, [Next]_vars PROVE RoundsInv'
    OBVIOUS
<1> USE DEF RoundsInv, Round
<1>0. messages \in Seq(Texts) /\ RoundsAsked \in Nat /\ roundsLeft \in Nat
    BY PositionsFinite DEF Control, Counters, Data, RoundsAsked
<1>u. UNCHANGED messages => RoundsAsked' = RoundsAsked
    BY DEF RoundsAsked, Positions
<1>1. CASE ToolsRequested
  <2> DEFINE m == [role |-> "assistant", ids |-> [i \in 1 .. Len(calls') |-> calls'[i].id]]
  <2>1. messages' = Append(messages, m) /\ m \in FromAssistant /\ m \in Texts
      BY <1>1, RequestFacts DEF FromAssistant
  <2> HIDE DEF m
  <2>2. RoundsAsked' = RoundsAsked + 1
      BY <1>0, <2>1, PositionsAppended DEF RoundsAsked
  <2>3. QED
      BY <1>0, <1>1, <2>2, Bounds DEF ToolsRequested
<1>2. CASE ObservationAppended
  <2> DEFINE m == [role |-> "tool", ids |-> <<result.id>>]
  <2>1. m \in Texts /\ m \notin FromAssistant
    <3>1. <<result.id>> \in Seq(Nat)
        BY DEF Control, Data, Results
    <3>2. QED
        BY <3>1 DEF Texts, FromAssistant
  <2>2. messages' = Append(messages, m)
      BY <1>2 DEF ObservationAppended
  <2> HIDE DEF m
  <2>3. RoundsAsked' = RoundsAsked
      BY <1>0, <2>1, <2>2, PositionsAppended DEF RoundsAsked
  <2>4. QED
      BY <1>2, <2>3 DEF ObservationAppended
<1>3. CASE PromptBuilt \/ StepLimit \/ NextStep \/ ModelStarted \/ ModelFailed \/ Tick
    BY <1>u, <1>3 DEF PromptBuilt, StepLimit, NextStep, ModelStarted, ModelFailed, Tick
<1>4. CASE Answered \/ AnswerFinished \/ AnsweredWithNoise \/ CallAnnounced
    BY <1>u, <1>4 DEF Answered, AnswerFinished, AnsweredWithNoise, CallAnnounced
<1>5. CASE CallReplayed \/ CallExecuted \/ CallAnswered
    BY <1>u, <1>5 DEF CallReplayed, CallExecuted, CallAnswered
<1>6. CASE ToolFinished \/ CallAudited \/ UNCHANGED vars
    BY <1>u, <1>6 DEF ToolFinished, CallAudited, loopVars, vars
<1>7. CASE AuditFailed \/ Abandoned
    BY <1>u, <1>7 DEF AuditFailed, Abandoned
<1>8. CASE RoundFinished
    BY <1>0, <1>u, <1>8, Bounds DEF RoundFinished
<1>9. CASE TokenStreamed \/ TokenConsumed \/ StreamFinished
    BY <1>u, <1>9 DEF TokenStreamed, TokenConsumed, StreamFinished
<1>10. QED
    BY <1>1, <1>2, <1>3, <1>4, <1>5, <1>6, <1>7, <1>8, <1>9 DEF Next, Turn

(* The tool-calling template is shown fewer rounds than the tool rounds of *)
(* the turn: with one round, no results at all.                            *)
THEOREM ToolTemplateAlways == Spec => []ToolTemplateSeesNoResults
<1>1. Init => RoundsInv
  <2> SUFFICES ASSUME Init PROVE RoundsInv
      OBVIOUS
  <2>1. Positions(messages, FromAssistant) = {}
      BY DEF Init, Positions
  <2>2. RoundsAsked = 0
      BY <2>1, FS_EmptySet DEF RoundsAsked
  <2>3. QED
      BY <2>2, Bounds DEF Init, RoundsInv, Round
<1>2. Control /\ RoundsInv => ToolTemplateSeesNoResults
  <2> SUFFICES ASSUME Control, RoundsInv, pc = "complete"
               PROVE  Cardinality({i \in DOMAIN messages : messages[i].role = "assistant"})
                        < ToolRounds
      BY DEF ToolTemplateSeesNoResults
  <2>1. messages \in Seq(Texts) /\ roundsLeft \in Nat /\ roundsLeft > 0
      BY DEF Control, Data, Counters, Allowance
  <2>2. {i \in DOMAIN messages : messages[i].role = "assistant"}
          = Positions(messages, FromAssistant)
      BY <2>1, ElementOfSeq, LenProperties DEF Positions, FromAssistant
  <2>3. RoundsAsked \in Nat /\ RoundsAsked < ToolRounds
      BY <2>1, PositionsFinite, Bounds DEF RoundsInv, RoundsAsked
  <2>4. QED
      BY <2>2, <2>3 DEF RoundsAsked
<1>3. QED
    BY <1>1, <1>2, RoundsStep, ControlAlways, PTL DEF Spec

-----------------------------------------------------------------------------
(* What runs.                                                              *)

Granted(call) ==
    /\ call.name \in Registered \cap Policy.allowed
    /\ call.valid
    /\ LET d == Definitions[call.name] IN
          /\ d.authority <= Policy.maxAuthority
          /\ d.sideEffect \in Policy.allowedSideEffects
          /\ d.requiredScopes \subseteq Scopes \/ "admin" \in Scopes
          /\ d.executesArbitraryCode => d.isolation >= Policy.minCodeIsolation

LEMMA StartedIsGranted == ASSUME NEW call, StartTool(call) PROVE Granted(call)
<1>1. call.name \in Registered /\ Denial(call) = ""
    BY DEF StartTool
<1>2. Permits(call.name) /\ HasScopes(call.name)
    BY <1>1 DEF Denial
<1>3. call.valid
    BY <1>1 DEF Denial
<1>4. QED
    BY <1>1, <1>2, <1>3 DEF Permits, HasScopes, Granted

(* A started tool is the last run, after the others.                       *)
LEMMA StartFacts ==
    ASSUME Control, pc = "called", StartTool(Head(calls))
    PROVE  /\ Len(runs) \in Nat /\ DOMAIN runs = 1 .. Len(runs)
           /\ DOMAIN runs' = 1 .. Len(runs) + 1
           /\ \A i \in 1 .. Len(runs) : runs'[i] = runs[i]
           /\ runs'[Len(runs) + 1] = Head(calls)
<1>1. Head(calls) \in Call /\ runs \in Seq(Call)
    BY HeadOfCalls DEF Control, Data, Allowance, InHand
<1>2. runs' = Append(runs, Head(calls))
    BY DEF StartTool
<1> DEFINE h == Head(calls)
<1> HIDE DEF h
<1>3. /\ runs' \in Seq(Call) /\ Len(runs') = Len(runs) + 1
      /\ \A i \in 1 .. Len(runs) : runs'[i] = runs[i]
      /\ runs'[Len(runs) + 1] = h
    BY <1>1, <1>2, AppendProperties DEF h
<1>4. QED
    BY <1>1, <1>3, LenProperties DEF h

LEMMA GrantedStep == Control /\ OnlyGrantedRun /\ [Next]_vars => OnlyGrantedRun'
<1> SUFFICES ASSUME Control, OnlyGrantedRun, [Next]_vars PROVE OnlyGrantedRun'
    OBVIOUS
<1>1. \A i \in DOMAIN runs : Granted(runs[i])
    BY DEF OnlyGrantedRun, Granted
<1>2. \A i \in DOMAIN runs' : Granted(runs'[i])
  <2>1. CASE pc = "called" /\ StartTool(Head(calls))
    <3>1. Granted(Head(calls))
        BY <2>1, StartedIsGranted
    <3>2. QED
        BY <1>1, <2>1, <3>1, StartFacts
  <2>2. CASE UNCHANGED runs
      BY <1>1, <2>2
  <2>3. QED
      BY <2>1, <2>2, RunStep DEF vars, execVars
<1>3. QED
    BY <1>2 DEF OnlyGrantedRun, Granted

(* Whatever the model asks for, a tool runs only within the tenant's       *)
(* grant, the principal's scopes and its own schema.                       *)
THEOREM OnlyGrantedRunAlways == Spec => []OnlyGrantedRun
<1>1. Init => OnlyGrantedRun
    BY DEF Init, ExecInit, OnlyGrantedRun
<1>2. QED
    BY <1>1, GrantedStep, ControlAlways, PTL DEF Spec

-----------------------------------------------------------------------------
(* What is shown.                                                          *)

(* A call in progress is the first one, and it was run if it is not in     *)
(* error.                                                                  *)
InProgress ==
    pc = "tool" =>
        /\ exec \in {"running", "auditing", "returned"}
        /\ invoked = Head(calls)
        /\ exec = "running" \/ ~verdict.error => \E i \in DOMAIN runs : runs[i] = invoked

LEMMA InProgressStep == Control /\ InProgress /\ [Next]_vars => InProgress'
<1> SUFFICES ASSUME Control, InProgress, [Next]_vars, pc' = "tool" PROVE InProgress'
    BY DEF InProgress
<1>1. CASE CallExecuted
  <2>1. invoked' = Head(calls) /\ calls' = calls /\ exec' \in {"running", "auditing"}
      BY <1>1 DEF CallExecuted, Execute, RefuseUnknown, Refuse, StartTool
  <2>2. CASE StartTool(Head(calls))
    <3>1. Len(runs) + 1 \in DOMAIN runs' /\ runs'[Len(runs) + 1] = Head(calls)
        BY <1>1, <2>2, StartFacts DEF CallExecuted
    <3>2. QED
        BY <2>1, <3>1 DEF InProgress
  <2>3. CASE RefuseUnknown(Head(calls)) \/ Refuse(Head(calls))
    <3>1. PICK denial : verdict' = [denial |-> denial, error |-> TRUE]
        BY <2>3, Zenon DEF RefuseUnknown, Refuse
    <3>2. verdict'.error
        BY <3>1, Zenon
    <3>3. exec' = "auditing"
        BY <2>3 DEF RefuseUnknown, Refuse
    <3>4. QED
        BY <2>1, <3>2, <3>3 DEF InProgress
  <2>4. QED
      BY <1>1, <2>2, <2>3 DEF CallExecuted, Execute
<1>2. CASE ToolFinished
  <2>1. /\ pc = "tool" /\ exec = "running" /\ exec' = "auditing"
        /\ UNCHANGED <<invoked, runs, calls>>
      BY <1>2 DEF ToolFinished, ToolReturned, loopVars
  <2>2. QED
      BY <2>1 DEF InProgress
<1>3. CASE CallAudited
  <2>1. /\ pc = "tool" /\ exec = "auditing" /\ exec' = "returned"
        /\ UNCHANGED <<invoked, verdict, runs, calls>>
      BY <1>3 DEF CallAudited, Audited, loopVars
  <2>2. QED
      BY <2>1 DEF InProgress
<1>4. CASE Tick \/ UNCHANGED vars
    BY <1>4 DEF Tick, vars, execVars, loopVars, InProgress
<1>5. CASE ~(CallExecuted \/ ToolFinished \/ CallAudited \/ Tick \/ UNCHANGED vars)
    BY <1>5
    DEF Next, Turn, PromptBuilt, StepLimit, NextStep, ModelStarted, ModelFailed, Answered,
        AnswerFinished, AnsweredWithNoise, ToolsRequested, CallAnnounced, CallReplayed,
        CallAnswered, ObservationAppended, AuditFailed, RoundFinished, TokenConsumed,
        TokenStreamed, StreamFinished, Abandoned
<1>6. QED
    BY <1>1, <1>2, <1>3, <1>4, <1>5

InProgressInv == Control /\ InProgress

LEMMA InProgressAlways == Spec => []InProgressInv
<1>1. Init => InProgress
    BY DEF Init, InProgress
<1>2. QED
    BY <1>1, InitControl, ControlStep, InProgressStep, PTL DEF Spec, InProgressInv

(* The record of a call is the last one, with the outcome of the call.     *)
LEMMA RecordFacts ==
    ASSUME InProgressInv, CallAudited
    PROVE  /\ Len(trail) \in Nat /\ DOMAIN trail = 1 .. Len(trail)
           /\ DOMAIN trail' = 1 .. Len(trail) + 1
           /\ \A i \in 1 .. Len(trail) : trail'[i] = trail[i]
           /\ trail'[Len(trail) + 1].id = calls[1].id
           /\ trail'[Len(trail) + 1].error = verdict.error
           /\ invoked.id = calls[1].id /\ calls[1].id \in Nat
           /\ UNCHANGED <<pc, calls, requested, invoked, verdict>>
           /\ pc = "tool" /\ exec = "auditing" /\ exec' = "returned"
<1> DEFINE r == [id |-> invoked.id, allowed |-> ~verdict.error \/ verdict.denial = "",
                 error |-> verdict.error]
<1>1. r \in Records /\ r.id = invoked.id /\ r.error = verdict.error
    BY DEF InProgressInv, Control, Data, Records, Verdicts
<1>2. /\ trail' = Append(trail, r) /\ trail \in Seq(Records)
      /\ UNCHANGED <<pc, calls, requested, invoked, verdict>>
      /\ pc = "tool" /\ exec = "auditing" /\ exec' = "returned"
    BY DEF CallAudited, Audited, loopVars, InProgressInv, Control, Data
<1> HIDE DEF r
<1>3. /\ trail' \in Seq(Records) /\ Len(trail') = Len(trail) + 1
      /\ \A i \in 1 .. Len(trail) : trail'[i] = trail[i]
      /\ trail'[Len(trail) + 1] = r /\ Len(trail) \in Nat
    BY <1>1, <1>2, AppendProperties, LenProperties
<1>4. invoked.id = calls[1].id /\ calls[1].id \in Nat
    BY <1>2, HeadOfCalls DEF InProgressInv, InProgress, Control, Data, Allowance, InHand
<1>5. QED
    BY <1>1, <1>2, <1>3, <1>4, LenProperties

(* Records and runs are only added.                                        *)
LEMMA Grows ==
    ASSUME InProgressInv, [Next]_vars
    PROVE  /\ \A i \in DOMAIN runs : i \in DOMAIN runs' /\ runs'[i] = runs[i]
           /\ UNCHANGED trail \/ CallAudited
<1>1. \A i \in DOMAIN runs : i \in DOMAIN runs' /\ runs'[i] = runs[i]
    BY RunStep, StartFacts DEF vars, execVars, InProgressInv
<1>2. UNCHANGED trail \/ CallAudited
    BY ExecutorStep DEF vars, execVars, InProgressInv
<1>3. QED
    BY <1>1, <1>2

RecordedBefore(k) == \A i \in DOMAIN trail : trail[i].id < k

(* Calls are numbered in the order they are asked for and taken up, and    *)
(* those recorded come before what is still to be recorded.                *)
Numbering ==
    /\ RecordedBefore(requested + 1)
    /\ pc \in Round => \A i \in 1 .. Len(calls) : /\ calls[i].id <= requested
                                                  /\ calls[i].id = calls[1].id + i - 1
    /\ pc \in {"calls", "called"} /\ calls # <<>> => RecordedBefore(calls[1].id)
    /\ pc = "tool" /\ exec # "returned" => RecordedBefore(calls[1].id)
    /\ pc \in {"tool", "result"} => RecordedBefore(calls[1].id + 1)

LEMMA BeforeLater ==
    ASSUME Control, NEW j \in Nat, NEW k \in Nat, j <= k, RecordedBefore(j)
    PROVE  RecordedBefore(k)
<1>1. ASSUME NEW i \in DOMAIN trail PROVE trail[i].id \in Nat
  <2>1. trail[i] \in Records
      BY ElementOfSeq, LenProperties DEF Control, Data
  <2>2. QED
      BY <2>1 DEF Records
<1>2. QED
    BY <1>1 DEF RecordedBefore

(* Steps that record nothing and leave the calls alone.                    *)
LEMMA NumberingKept ==
    ASSUME Numbering, UNCHANGED <<trail, calls, requested>>,
           \/ pc' = pc /\ (exec' = exec \/ exec # "returned" \/ pc # "tool")
           \/ pc = "calls" /\ pc' = "called"
           \/ pc' \notin Round
    PROVE  Numbering'
  BY DEF Numbering, RecordedBefore, Round

LEMMA NumberingStep == InProgressInv /\ Numbering /\ [Next]_vars => Numbering'
<1> SUFFICES ASSUME InProgressInv, Numbering, [Next]_vars PROVE Numbering'
    OBVIOUS
<1> USE DEF Round, InHand, InProgressInv
<1>0. requested \in Nat
    BY DEF Control, Counters
<1>h. pc \in InHand => /\ Head(calls) = calls[1] /\ calls # <<>>
                       /\ Len(calls) \in Nat \ {0} /\ calls[1].id \in Nat
                       /\ calls[1].id <= requested
  <2> SUFFICES ASSUME pc \in InHand
               PROVE  /\ Head(calls) = calls[1] /\ calls # <<>>
                      /\ Len(calls) \in Nat \ {0} /\ calls[1].id \in Nat
                      /\ calls[1].id <= requested
      OBVIOUS
  <2>1. /\ Head(calls).id \in Nat /\ Head(calls) = calls[1] /\ Len(calls) \in Nat \ {0}
        /\ calls # <<>>
      BY HeadOfCalls DEF Control, Data, Allowance
  <2>2. QED
      BY <2>1 DEF Numbering
<1>1. CASE PromptBuilt \/ StepLimit \/ NextStep \/ ModelStarted \/ ModelFailed \/ Tick
    BY <1>1, NumberingKept
    DEF PromptBuilt, StepLimit, NextStep, ModelStarted, ModelFailed, Tick, execVars
<1>2. CASE Answered \/ AnswerFinished \/ AnsweredWithNoise \/ CallAnnounced
    BY <1>2, NumberingKept
    DEF Answered, AnswerFinished, AnsweredWithNoise, CallAnnounced, execVars
<1>3. CASE ToolsRequested
  <2>1. /\ requested' \in Nat /\ Len(calls') <= requested' - requested
        /\ calls' \in Seq(Call)
        /\ \A i \in 1 .. Len(calls') : calls'[i].id = requested + i
      BY <1>3, RequestFacts
  <2>2. UNCHANGED trail /\ pc' = "calls"
      BY <1>3 DEF ToolsRequested, execVars
  <2>3. requested <= requested' /\ Len(calls') \in Nat
      BY <1>0, <2>1, LenProperties
  <2>4. RecordedBefore(requested' + 1)
    <3>1. PICK n \in Nat : n = requested' /\ requested <= n
        BY <2>1, <2>3
    <3>2. requested <= n
        BY <3>1
    <3>3. n + 1 \in Nat /\ requested + 1 \in Nat /\ requested + 1 <= n + 1
        BY <1>0, <3>2
    <3>4. RecordedBefore(requested + 1)
        BY DEF Numbering
    <3>5. RecordedBefore(n + 1)
        BY <3>3, <3>4, BeforeLater
    <3>6. QED
        BY <3>1, <3>5
  <2>5. ASSUME NEW i \in 1 .. Len(calls')
        PROVE  calls'[i].id <= requested' /\ calls'[i].id = calls'[1].id + i - 1
    <3>1. i \in Nat /\ i <= Len(calls') /\ 1 \in 1 .. Len(calls')
        BY <2>3
    <3>2. calls'[i].id = requested + i /\ calls'[1].id = requested + 1
        BY <2>1, <3>1
    <3>3. QED
        BY <1>0, <2>1, <2>3, <3>1, <3>2
  <2>6. ASSUME calls' # <<>>
        PROVE  RecordedBefore(calls'[1].id)
    <3>1. Len(calls') > 0
        BY <2>1, <2>3, <2>6, EmptySeq
    <3>2. calls'[1].id = requested + 1
        BY <2>1, <2>3, <3>1
    <3>3. QED
        BY <3>2 DEF Numbering
  <2>7. QED
      BY <2>2, <2>4, <2>5, <2>6 DEF Numbering, RecordedBefore
<1>4. CASE CallReplayed \/ CallExecuted
  <2>1. /\ UNCHANGED <<calls, requested, trail>>
        /\ pc = "called" /\ pc' \in {"tool", "result"}
      BY <1>4 DEF CallReplayed, CallExecuted, Execute, execVars
  <2>2. RecordedBefore(calls[1].id) /\ RecordedBefore(requested + 1)
      BY <1>h, <2>1 DEF Numbering
  <2>3. /\ calls[1].id \in Nat /\ calls[1].id + 1 \in Nat /\ calls[1].id <= calls[1].id + 1
      BY <1>h, <2>1
  <2>4. RecordedBefore(calls[1].id + 1)
      BY <2>2, <2>3, BeforeLater
  <2>5. QED
      BY <2>1, <2>2, <2>4 DEF Numbering, RecordedBefore
<1>5. CASE ToolFinished
    BY <1>5, NumberingKept DEF ToolFinished, ToolReturned, loopVars
<1>6. CASE CallAudited
  <2>1. RecordedBefore(calls[1].id) /\ calls[1].id <= requested
      BY <1>6, <1>h, RecordFacts DEF Numbering
  <2>2. \A i \in DOMAIN trail' : trail'[i].id < calls[1].id \/ trail'[i].id = calls[1].id
    <3>1. ASSUME NEW i \in 1 .. Len(trail) + 1
          PROVE  trail'[i].id < calls[1].id \/ trail'[i].id = calls[1].id
        BY <1>6, <2>1, RecordFacts DEF RecordedBefore
    <3>2. QED
        BY <1>6, <3>1, RecordFacts
  <2>3. \A i \in DOMAIN trail : trail[i].id \in Nat
    <3>1. ASSUME NEW i \in DOMAIN trail PROVE trail[i] \in Records
        BY ElementOfSeq, LenProperties DEF Control, Data
    <3>2. QED
        BY <3>1 DEF Records
  <2>4. \A i \in DOMAIN trail' : trail'[i].id < calls[1].id + 1 /\ trail'[i].id < requested + 1
    <3>1. ASSUME NEW i \in 1 .. Len(trail) + 1
          PROVE  trail'[i].id \in Nat
        BY <1>6, <2>3, RecordFacts
    <3>2. ASSUME NEW i \in DOMAIN trail' PROVE trail'[i].id \in Nat
        BY <1>6, <3>1, RecordFacts
    <3>3. calls[1].id \in Nat
        BY <1>6, RecordFacts
    <3>4. QED
        BY <1>0, <2>1, <2>2, <3>2, <3>3
  <2>5. /\ pc' = "tool" /\ pc = "tool" /\ exec' = "returned" /\ UNCHANGED <<calls, requested>>
      BY <1>6, RecordFacts
  <2>6. QED
      BY <2>4, <2>5 DEF Numbering, RecordedBefore
<1>7. CASE CallAnswered
    BY <1>7 DEF CallAnswered, ResultTaken, Numbering, RecordedBefore
<1>8. CASE ObservationAppended
  <2>1. UNCHANGED <<trail, requested>> /\ calls' = Tail(calls)
      BY <1>8 DEF ObservationAppended, execVars
  <2>2. pc = "result" /\ pc' = "calls"
      BY <1>8 DEF ObservationAppended
  <2>3. /\ calls' \in Seq(Call) /\ Len(calls') = Len(calls) - 1
        /\ \A i \in 1 .. Len(calls') : calls'[i] = calls[i + 1]
      BY <1>h, <2>1, <2>2, HeadTailProperties DEF Control, Data
  <2>4. ASSUME NEW i \in 1 .. Len(calls')
        PROVE  /\ calls'[i].id <= requested
               /\ calls'[i].id = calls[1].id + i
               /\ calls'[1].id = calls[1].id + 1
    <3>1. i + 1 \in 1 .. Len(calls) /\ 1 + 1 \in 1 .. Len(calls) /\ 1 \in 1 .. Len(calls')
        BY <1>h, <2>2, <2>3
    <3>2. calls'[i] = calls[i + 1] /\ calls'[1] = calls[1 + 1]
        BY <2>3, <3>1
    <3>3. /\ calls[i + 1].id <= requested /\ calls[i + 1].id = calls[1].id + (i + 1) - 1
          /\ calls[1 + 1].id = calls[1].id + (1 + 1) - 1
        BY <2>2, <3>1 DEF Numbering
    <3>4. QED
        BY <1>h, <2>2, <3>2, <3>3
  <2>5. ASSUME calls' # <<>>
        PROVE  RecordedBefore(calls'[1].id)
    <3>1. 1 \in 1 .. Len(calls')
        BY <2>3, <2>5, EmptySeq, LenProperties
    <3>2. calls'[1].id = calls[1].id + 1
        BY <2>4, <3>1
    <3>3. QED
        BY <2>2, <3>2 DEF Numbering
  <2>6. ASSUME NEW i \in 1 .. Len(calls')
        PROVE  calls'[i].id <= requested /\ calls'[i].id = calls'[1].id + i - 1
    <3>1. calls[1].id \in Nat
        BY <1>h, <2>2
    <3>2. QED
        BY <2>4, <3>1
  <2>7. RecordedBefore(requested + 1)
      BY DEF Numbering
  <2>8. QED
      BY <2>1, <2>2, <2>5, <2>6, <2>7 DEF Numbering, RecordedBefore
<1>9. CASE AuditFailed \/ Abandoned \/ UNCHANGED vars
    BY <1>9, NumberingKept
    DEF AuditFailed, Abandoned, ExecuteAborted, execVars, loopVars, vars
<1>10. CASE RoundFinished \/ TokenStreamed \/ TokenConsumed \/ StreamFinished
    BY <1>10, NumberingKept DEF RoundFinished, TokenStreamed, TokenConsumed, StreamFinished,
                                execVars
<1>11. QED
    BY <1>1, <1>2, <1>3, <1>4, <1>5, <1>6, <1>7, <1>8, <1>9, <1>10 DEF Next, Turn

(* One record of a call, with this outcome.                                *)
Once(id, error) ==
    \E t \in DOMAIN trail :
        trail[t].error = error /\ {u \in DOMAIN trail : trail[u].id = id} = {t}

(* What may be shown next: the result of the call that returned, and what  *)
(* the turn remembers.                                                     *)
Recorded ==
    /\ pc = "tool" /\ exec = "returned" => Once(invoked.id, verdict.error)
    /\ \A o \in observed : Once(o.source, FALSE)

(* A record stays the only one of its call, for the next one is of a       *)
(* later call.                                                             *)
LEMMA OnceKept ==
    ASSUME InProgressInv, Numbering, [Next]_vars, NEW id, NEW error, Once(id, error)
    PROVE  Once(id, error)'
<1>1. CASE UNCHANGED trail
    BY <1>1 DEF Once
<1>2. CASE CallAudited
  <2>1. PICK t \in DOMAIN trail :
            trail[t].error = error /\ {u \in DOMAIN trail : trail[u].id = id} = {t}
      BY DEF Once
  <2>2. trail[t].id = id
      BY <2>1
  <2>3. RecordedBefore(calls[1].id) /\ calls[1].id \in Nat
      BY <1>2, RecordFacts DEF Numbering
  <2>4. trail[t].id \in Nat
    <3>1. trail[t] \in Records
        BY ElementOfSeq, LenProperties DEF InProgressInv, Control, Data
    <3>2. QED
        BY <3>1 DEF Records
  <2>5. trail'[Len(trail) + 1].id # id
      BY <1>2, <2>2, <2>3, <2>4, RecordFacts DEF RecordedBefore
  <2>6. t \in DOMAIN trail' /\ trail'[t] = trail[t]
      BY <1>2, RecordFacts
  <2>7. ASSUME NEW u \in DOMAIN trail', trail'[u].id = id PROVE u = t
    <3>1. u \in DOMAIN trail /\ trail'[u] = trail[u]
        BY <1>2, <2>5, <2>7, RecordFacts
    <3>2. QED
        BY <2>1, <2>7, <3>1
  <2>8. {u \in DOMAIN trail' : trail'[u].id = id} = {t}
      BY <2>2, <2>6, <2>7
  <2>9. QED
      BY <2>1, <2>6, <2>8, Zenon DEF Once
<1>3. QED
    BY <1>1, <1>2, Grows

(* The call in progress gets its one record before it returns.             *)
LEMMA OnceAdded ==
    ASSUME InProgressInv, Numbering, CallAudited
    PROVE  Once(invoked.id, verdict.error)'
<1> DEFINE t == Len(trail) + 1
<1>1. /\ t \in DOMAIN trail' /\ trail'[t].error = verdict'.error
      /\ trail'[t].id = invoked'.id
    BY RecordFacts
<1>2. RecordedBefore(calls[1].id) /\ invoked'.id = calls[1].id /\ calls[1].id \in Nat
    BY RecordFacts DEF Numbering
<1>3. ASSUME NEW u \in DOMAIN trail', u # t PROVE trail'[u].id # invoked'.id
  <2>1. u \in DOMAIN trail /\ trail'[u] = trail[u]
      BY <1>3, RecordFacts
  <2>2. QED
      BY <1>2, <2>1 DEF RecordedBefore
<1> HIDE DEF t
<1>4. {u \in DOMAIN trail' : trail'[u].id = invoked'.id} = {t}
    BY <1>1, <1>3
<1>5. QED
    BY <1>1, <1>4, Zenon DEF Once

LEMMA RecordedStep == InProgressInv /\ Numbering /\ Recorded /\ [Next]_vars => Recorded'
<1> SUFFICES ASSUME InProgressInv, Numbering, Recorded, [Next]_vars PROVE Recorded'
    OBVIOUS
<1>1. ASSUME pc' = "tool", exec' = "returned" PROVE Once(invoked.id, verdict.error)'
  <2>1. CASE CallAudited
      BY <2>1, OnceAdded
  <2>2. CASE ~CallAudited
    <3>1. pc = "tool" /\ exec = "returned" /\ UNCHANGED <<invoked, verdict>>
        BY <1>1, <2>2
        DEF Next, Turn, PromptBuilt, StepLimit, NextStep, ModelStarted, ModelFailed, Answered,
            AnswerFinished, AnsweredWithNoise, ToolsRequested, CallAnnounced, CallReplayed,
            CallExecuted, Execute, RefuseUnknown, Refuse, StartTool, ToolFinished, ToolReturned,
            CallAnswered, ObservationAppended, AuditFailed, RoundFinished, TokenConsumed,
            TokenStreamed, StreamFinished, Abandoned, Tick, vars, execVars, loopVars
    <3>2. Once(invoked.id, verdict.error)
        BY <3>1 DEF Recorded
    <3>3. Once(invoked.id, verdict.error)'
        BY <3>1, <3>2, OnceKept DEF Once
    <3>4. QED
        BY <3>3
  <2>3. QED
      BY <2>1, <2>2
<1>2. ASSUME NEW o \in observed' PROVE Once(o.source, FALSE)'
  <2>1. CASE o \in observed
    <3>1. Once(o.source, FALSE)
        BY <2>1 DEF Recorded
    <3>2. QED
        BY <3>1, OnceKept
  <2>2. CASE o \notin observed
    <3>1. CallAnswered
        BY <2>2
        DEF Next, Turn, PromptBuilt, StepLimit, NextStep, ModelStarted, ModelFailed, Answered,
            AnswerFinished, AnsweredWithNoise, ToolsRequested, CallAnnounced, CallReplayed,
            CallExecuted, ToolFinished, CallAudited, ObservationAppended, AuditFailed,
            RoundFinished, TokenConsumed, TokenStreamed, StreamFinished, Abandoned, Tick,
            loopVars, vars
    <3>2. /\ pc = "tool" /\ exec = "returned" /\ Remember(Head(calls))
          /\ invoked = Head(calls)
        BY <3>1 DEF CallAnswered, ResultTaken, InProgressInv, InProgress
    <3>3. o.source = invoked.id /\ ~verdict.error
        BY <2>2, <3>2 DEF Remember
    <3>4. verdict.error = FALSE
      <4>1. verdict.error \in BOOLEAN
          BY DEF InProgressInv, Control, Data, Verdicts
      <4>2. QED
          BY <3>3, <4>1
    <3>5. Once(o.source, FALSE)
        BY <3>2, <3>3, <3>4 DEF Recorded
    <3>6. QED
        BY <3>5, OnceKept
  <2>3. QED
      BY <2>1, <2>2
<1>3. QED
    BY <1>1, <1>2 DEF Recorded

LEMMA AuditedStep ==
    InProgressInv /\ Numbering /\ Recorded /\ AuditedBeforeShown /\ [Next]_vars
        => AuditedBeforeShown'
<1> SUFFICES ASSUME InProgressInv, Numbering, Recorded, AuditedBeforeShown, [Next]_vars,
                    NEW k \in DOMAIN events', events'[k].type = "tool_result"
             PROVE  Once(events[k].source, events[k].error)'
    BY DEF AuditedBeforeShown, Once
<1>1. CASE k \in DOMAIN events /\ events'[k] = events[k]
  <2>1. PICK id, error : id = events[k].source /\ error = events[k].error
      OBVIOUS
  <2>2. Once(id, error)
      BY <1>1, <2>1 DEF AuditedBeforeShown, Once
  <2>3. Once(id, error)'
      BY <2>2, OnceKept
  <2>4. id = events'[k].source /\ error = events'[k].error
      BY <1>1, <2>1
  <2>5. QED
      BY <2>3, <2>4 DEF Once
<1>2. ASSUME NEW e \in Events, events' = Append(events, e), k \notin DOMAIN events
      PROVE  events'[k] = e
    BY <1>2, AppendProperties, LenProperties DEF InProgressInv, Control, Data
<1>3. CASE CallReplayed \/ CallAnswered
  <2>1. PICK e : /\ e \in Events /\ e = ResultEvent(result')
                 /\ e.source = result'.source /\ e.error = result'.error
      BY <1>3, ResultShown DEF InProgressInv
  <2>2. events' = Append(events, e)
      BY <1>3, <2>1 DEF CallReplayed, CallAnswered, EmitResult
  <2>3. CASE k \in DOMAIN events
    <3>1. events'[k] = events[k]
        BY <2>1, <2>2, <2>3, AppendProperties, LenProperties DEF InProgressInv, Control, Data
    <3>2. QED
        BY <1>1, <2>3, <3>1
  <2>4. CASE k \notin DOMAIN events
    <3>1. events'[k] = e
        BY <1>2, <2>1, <2>2, <2>4
    <3>2. UNCHANGED trail
        BY <1>3 DEF CallReplayed, CallAnswered, ResultTaken, execVars
    <3>3. Once(result'.source, result'.error)
      <4>1. CASE CallReplayed
        <5>1. PICK o \in observed : result'.source = o.source /\ result'.error = FALSE
            BY <4>1 DEF CallReplayed, Cached
        <5>2. QED
            BY <5>1 DEF Recorded
      <4>2. CASE CallAnswered
        <5>1. /\ pc = "tool" /\ exec = "returned" /\ invoked = Head(calls)
              /\ result'.source = Head(calls).id /\ result'.error = verdict.error
            BY <4>2 DEF CallAnswered, ResultTaken, InProgressInv, InProgress
        <5>2. QED
            BY <5>1 DEF Recorded
      <4>3. QED
          BY <1>3, <4>1, <4>2
    <3>4. QED
        BY <2>1, <3>1, <3>2, <3>3 DEF Once
  <2>5. QED
      BY <2>3, <2>4
<1>4. CASE ~(CallReplayed \/ CallAnswered)
  <2>1. \/ UNCHANGED events
        \/ \E type \in EventTypes \ {"tool_result"}, id \in Nat : Yields(type, id)
      BY <1>4, EventStep DEF EventTypes, vars, loopVars, InProgressInv
  <2>2. CASE UNCHANGED events
      BY <1>1, <2>2
  <2>3. ASSUME NEW type \in EventTypes \ {"tool_result"}, NEW id \in Nat, Yields(type, id)
        PROVE  k \in DOMAIN events /\ events'[k] = events[k]
    <3>1. PICK e \in Events : e.type = type /\ events' = Append(events, e)
        BY <2>3 DEF Yields
    <3>2. k \in DOMAIN events
        BY <1>2, <2>3, <3>1
    <3>3. QED
        BY <3>1, <3>2, AppendProperties, LenProperties DEF InProgressInv, Control, Data
  <2>4. QED
      BY <1>1, <2>1, <2>2, <2>3
<1>5. QED
    BY <1>3, <1>4

AuditedInv == InProgressInv /\ Numbering /\ Recorded /\ AuditedBeforeShown

(* No client and no model sees a result of the executor, be it a run, a    *)
(* denial, an invented name or a replay, before the one record of the call *)
(* it comes from exists, with the outcome that is shown.                   *)
THEOREM AuditedBeforeShownAlways == Spec => []AuditedBeforeShown
<1>1. Init => Numbering /\ Recorded /\ AuditedBeforeShown
    BY DEF Init, ExecInit, Numbering, RecordedBefore, Round, Recorded, AuditedBeforeShown
<1>2. AuditedInv /\ InProgressInv /\ [Next]_vars /\ InProgressInv' => AuditedInv'
    BY NumberingStep, RecordedStep, AuditedStep DEF AuditedInv
<1>3. AuditedInv => AuditedBeforeShown
    BY DEF AuditedInv
<1>4. Init /\ InProgressInv => AuditedInv
    BY <1>1 DEF AuditedInv
<1>5. QED
    BY <1>2, <1>3, <1>4, InProgressAlways, PTL DEF Spec

(* What the turn remembers was returned by a run of that very call, of a   *)
(* tool whose results may be reused.                                       *)
Remembered ==
    \A o \in observed :
        /\ IsCacheable(o.name)
        /\ \E i \in DOMAIN runs :
              runs[i].id = o.source /\ runs[i].name = o.name /\ runs[i].args = o.args

AnsweredInv == InProgressInv /\ Remembered /\ AnsweredFromSameCall

LEMMA AnsweredStep == AnsweredInv /\ [Next]_vars => Remembered' /\ AnsweredFromSameCall'
<1> SUFFICES ASSUME AnsweredInv, [Next]_vars PROVE Remembered' /\ AnsweredFromSameCall'
    OBVIOUS
<1> USE DEF AnsweredInv, InProgressInv
<1>1. \A i \in DOMAIN runs : i \in DOMAIN runs' /\ runs'[i] = runs[i]
    BY Grows
<1>2. UNCHANGED observed => Remembered'
    BY <1>1 DEF Remembered, IsCacheable
<1>3. CASE CallAnswered
  <2>1. /\ pc = "tool" /\ exec = "returned" /\ UNCHANGED <<runs, calls>>
        /\ Remember(Head(calls)) /\ verdict.error \in BOOLEAN
        /\ result' = [id |-> Head(calls).id, source |-> Head(calls).id,
                      error |-> verdict.error]
      BY <1>3 DEF CallAnswered, ResultTaken, Control, Data, Verdicts
  <2>2. ~verdict.error => \E i \in DOMAIN runs : runs[i] = Head(calls)
      BY <2>1 DEF InProgress
  <2>3. Remembered'
    <3>1. CASE IsCacheable(Head(calls).name) /\ ~verdict.error
      <4>1. observed' = observed \cup {[name |-> Head(calls).name, args |-> Head(calls).args,
                                        source |-> Head(calls).id]}
          BY <2>1, <3>1 DEF Remember
      <4>2. \E i \in DOMAIN runs : runs[i] = Head(calls)
          BY <2>2, <3>1
      <4>3. QED
          BY <2>1, <3>1, <4>1, <4>2 DEF Remembered, IsCacheable
    <3>2. CASE ~(IsCacheable(Head(calls).name) /\ ~verdict.error)
      <4>1. observed' = observed
          BY <2>1, <3>2 DEF Remember
      <4>2. QED
          BY <1>2, <4>1
    <3>3. QED
        BY <3>1, <3>2
  <2>4. AnsweredFromSameCall'
    <3>1. result'.error = verdict.error /\ result'.source = result'.id
          /\ result'.source = Head(calls).id
        BY <2>1
    <3>2. ~result'.error => ~verdict.error
        BY <3>1, Zenon
    <3>3. QED
        BY <2>1, <2>2, <3>1, <3>2 DEF AnsweredFromSameCall
  <2>5. QED
      BY <2>3, <2>4
<1>4. CASE CallReplayed
  <2>1. PICK o \in Cached(Head(calls)) :
            result' = [id |-> Head(calls).id, source |-> o.source, error |-> FALSE]
      BY <1>4 DEF CallReplayed
  <2>2. UNCHANGED <<observed, runs, calls>> /\ IsCacheable(Head(calls).name)
      BY <1>4 DEF CallReplayed, execVars
  <2>3. PICK i \in DOMAIN runs :
            runs[i].id = o.source /\ runs[i].name = o.name /\ runs[i].args = o.args
      BY DEF Remembered, Cached
  <2>4. /\ result'.source = o.source
        /\ o.name = Head(calls).name /\ o.args = Head(calls).args
      BY <2>1 DEF Cached
  <2>5. /\ Definitions[runs[i].name].deterministic
        /\ Definitions[runs[i].name].sideEffect = "read_only"
      BY <2>2, <2>3, <2>4 DEF IsCacheable
  <2>6. QED
      BY <1>2, <2>2, <2>3, <2>4, <2>5 DEF AnsweredFromSameCall
<1>5. CASE ~(CallAnswered \/ CallReplayed)
  <2>1. /\ UNCHANGED <<observed, result>>
        /\ pc' = "result" => pc = "result" /\ UNCHANGED <<calls, runs>>
      BY <1>5
      DEF Next, Turn, PromptBuilt, StepLimit, NextStep, ModelStarted, ModelFailed, Answered,
          AnswerFinished, AnsweredWithNoise, ToolsRequested, CallAnnounced, CallExecuted,
          ToolFinished, CallAudited, ObservationAppended, AuditFailed, RoundFinished,
          TokenConsumed, TokenStreamed, StreamFinished, Abandoned, Tick, ToolReturned, Audited,
          loopVars, execVars, vars
  <2>2. QED
      BY <1>2, <2>1 DEF AnsweredFromSameCall
<1>6. QED
    BY <1>3, <1>4, <1>5

(* What the model is told a call returned comes from a run of that very    *)
(* call, an earlier one only of a read-only and deterministic tool.        *)
THEOREM AnsweredFromSameCallAlways == Spec => []AnsweredFromSameCall
<1>1. Init => Remembered /\ AnsweredFromSameCall
    BY DEF Init, ExecInit, Remembered, AnsweredFromSameCall
<1>2. QED
    BY <1>1, InProgressAlways, AnsweredStep, PTL DEF Spec, AnsweredInv

-----------------------------------------------------------------------------
(* The transcript.                                                         *)

Between == {"prompt", "top", "slot", "complete", "answered", "stream", "token"}

(* A completion that may ask for tools has budget for one call at least.   *)
Affordable ==
    /\ pc = "prompt" => toolBudget = Policy.maxCallsPerRun
    /\ pc \in {"top", "slot", "complete"} /\ specs # {} => toolBudget > 0

LEMMA AffordableStep == Control /\ Affordable /\ [Next]_vars => Affordable'
<1> SUFFICES ASSUME Control, Affordable, [Next]_vars PROVE Affordable'
    OBVIOUS
<1> USE Bounds DEF Affordable
<1>1. CASE PromptBuilt \/ StepLimit \/ NextStep \/ ModelStarted \/ ModelFailed \/ Tick
    BY <1>1 DEF PromptBuilt, StepLimit, NextStep, ModelStarted, ModelFailed, Tick
<1>2. CASE Answered \/ AnswerFinished \/ AnsweredWithNoise \/ ToolsRequested
    BY <1>2 DEF Answered, AnswerFinished, AnsweredWithNoise, ToolsRequested
<1>3. CASE CallAnnounced \/ CallReplayed \/ CallExecuted \/ CallAnswered
    BY <1>3 DEF CallAnnounced, CallReplayed, CallExecuted, CallAnswered
<1>4. CASE ToolFinished \/ CallAudited \/ UNCHANGED vars
    BY <1>4 DEF ToolFinished, CallAudited, loopVars, vars
<1>5. CASE ObservationAppended \/ AuditFailed \/ Abandoned
    BY <1>5 DEF ObservationAppended, AuditFailed, Abandoned
<1>6. CASE RoundFinished
    BY <1>6 DEF RoundFinished, Control, Counters
<1>7. CASE TokenStreamed \/ TokenConsumed \/ StreamFinished
    BY <1>7 DEF TokenStreamed, TokenConsumed, StreamFinished
<1>8. QED
    BY <1>1, <1>2, <1>3, <1>4, <1>5, <1>6, <1>7 DEF Next, Turn

Answer(id) == [role |-> "tool", ids |-> <<id>>]

(* The calls of message i are answered right after it, and nothing else    *)
(* comes before the assistant speaks again.                                *)
Closed(ms, i) ==
    LET ids == ms[i].ids IN
    /\ ids # <<>>
    /\ i + Len(ids) <= Len(ms)
    /\ \A k \in DOMAIN ids : ms[i + k] = Answer(ids[k])
    /\ i + Len(ids) = Len(ms) \/ ms[i + Len(ids) + 1].role = "assistant"

(* Those of message u are answered but for cs, and nothing has followed.   *)
Open(ms, cs, u) ==
    LET ids == ms[u].ids IN
    /\ ids # <<>>
    /\ Len(cs) <= Len(ids)
    /\ u + (Len(ids) - Len(cs)) = Len(ms)
    /\ \A k \in 1 .. Len(ids) - Len(cs) : ms[u + k] = Answer(ids[k])
    /\ \A k \in 1 .. Len(cs) : ids[Len(ids) - Len(cs) + k] = cs[k].id

OpenAt(ms, cs, u) ==
    /\ Open(ms, cs, u)
    /\ \A i \in DOMAIN ms : ms[i].role = "assistant" /\ i # u =>
          Closed(ms, i) /\ i + Len(ms[i].ids) < Len(ms)

TranscriptInv ==
    /\ pc \in Between => \A i \in DOMAIN messages :
                            messages[i].role = "assistant" => Closed(messages, i)
    /\ pc \in Round => \E u \in DOMAIN messages : OpenAt(messages, calls, u)
    /\ pc = "result" => result.id = Head(calls).id

LEMMA TextFacts ==
    ASSUME NEW ms \in Seq(Texts)
    PROVE  /\ Len(ms) \in Nat /\ DOMAIN ms = 1 .. Len(ms)
           /\ \A i \in DOMAIN ms : /\ ms[i].ids \in Seq(Nat) /\ Len(ms[i].ids) \in Nat
                                   /\ DOMAIN ms[i].ids = 1 .. Len(ms[i].ids)
<1>1. Len(ms) \in Nat /\ DOMAIN ms = 1 .. Len(ms)
    BY LenProperties
<1>2. ASSUME NEW i \in DOMAIN ms PROVE ms[i].ids \in Seq(Nat)
  <2>1. ms[i] \in Texts
      BY <1>1, ElementOfSeq
  <2>2. QED
      BY <2>1 DEF Texts
<1>3. ASSUME NEW i \in DOMAIN ms
      PROVE  Len(ms[i].ids) \in Nat /\ DOMAIN ms[i].ids = 1 .. Len(ms[i].ids)
    BY <1>2, LenProperties
<1>4. QED
    BY <1>1, <1>2, <1>3

(* When nothing is left to answer, the message is closed.                  *)
LEMMA OpenCloses ==
    ASSUME NEW ms \in Seq(Texts), NEW u \in DOMAIN ms, OpenAt(ms, <<>>, u)
    PROVE  \A i \in DOMAIN ms : ms[i].role = "assistant" => Closed(ms, i)
<1>1. Len(<<>>) = 0
    BY EmptySeq
<1>2. Closed(ms, u)
  <2> DEFINE ids == ms[u].ids
  <2>1. Len(ids) \in Nat /\ DOMAIN ids = 1 .. Len(ids) /\ Len(ms) \in Nat /\ u \in Nat
      BY TextFacts
  <2>2. Len(ids) - Len(<<>>) = Len(ids)
      BY <1>1, <2>1
  <2>3. /\ ids # <<>> /\ u + Len(ids) = Len(ms)
        /\ \A k \in 1 .. Len(ids) : ms[u + k] = Answer(ids[k])
      BY <2>2 DEF OpenAt, Open
  <2> HIDE DEF ids
  <2>4. u + Len(ids) <= Len(ms)
      BY <2>1, <2>3
  <2>5. QED
      BY <2>1, <2>3, <2>4 DEF Closed, ids
<1>3. QED
    BY <1>2 DEF OpenAt

(* A closed message stays closed when the assistant speaks, and so does    *)
(* one that something has followed whatever is appended.                   *)
LEMMA ClosedKept ==
    ASSUME NEW ms \in Seq(Texts), NEW m \in Texts, NEW i \in DOMAIN ms, Closed(ms, i),
           m.role = "assistant" \/ i + Len(ms[i].ids) < Len(ms)
    PROVE  /\ Closed(Append(ms, m), i)
           /\ i + Len(Append(ms, m)[i].ids) < Len(Append(ms, m))
<1> DEFINE app == Append(ms, m)
           ids == ms[i].ids
<1>1. /\ Len(app) = Len(ms) + 1 /\ \A k \in 1 .. Len(ms) : app[k] = ms[k]
      /\ app[Len(ms) + 1] = m
    BY AppendProperties
<1>2. /\ Len(ms) \in Nat /\ i \in 1 .. Len(ms)
      /\ Len(ids) \in Nat /\ DOMAIN ids = 1 .. Len(ids)
    BY TextFacts
<1> HIDE DEF app
<1>3. app[i].ids = ids
    BY <1>1, <1>2
<1>4. ids # <<>> /\ i + Len(ids) <= Len(ms) /\ \A k \in DOMAIN ids : ms[i + k] = Answer(ids[k])
    BY DEF Closed
<1>5. \A k \in DOMAIN ids : app[i + k] = Answer(ids[k])
  <2>1. \A k \in 1 .. Len(ids) : i + k \in 1 .. Len(ms)
      BY <1>2, <1>4
  <2>2. QED
      BY <1>1, <1>2, <1>4, <2>1
<1>6. app[i + Len(ids) + 1].role = "assistant"
  <2>1. CASE i + Len(ids) = Len(ms)
    <3>1. m.role = "assistant"
        BY <1>2, <2>1
    <3>2. i + Len(ids) + 1 = Len(ms) + 1
        BY <2>1
    <3>3. QED
        BY <1>1, <3>1, <3>2
  <2>2. CASE i + Len(ids) # Len(ms)
    <3>1. ms[i + Len(ids) + 1].role = "assistant"
        BY <2>2 DEF Closed
    <3>2. i + Len(ids) + 1 \in 1 .. Len(ms)
      <4>1. i + Len(ids) <= Len(ms)
          BY <1>4
      <4>2. QED
          BY <1>2, <2>2, <4>1
    <3>3. QED
        BY <1>1, <3>1, <3>2
  <2>3. QED
      BY <2>1, <2>2
<1> HIDE DEF ids
<1>7. i + Len(ids) <= Len(app) /\ i + Len(ids) < Len(app)
    BY <1>1, <1>2, <1>4
<1>8. Closed(app, i)
    BY <1>3, <1>4, <1>5, <1>6, <1>7 DEF Closed
<1>9. QED
    BY <1>3, <1>7, <1>8 DEF app

LEMMA TranscriptRequested ==
    ASSUME Control, Affordable, TranscriptInv, ToolsRequested
    PROVE  \E u \in DOMAIN messages' : OpenAt(messages', calls', u)
<1> DEFINE ids == [i \in 1 .. Len(calls') |-> calls'[i].id]
           m == [role |-> "assistant", ids |-> ids]
           u == Len(messages) + 1
<1>1. /\ m \in Texts /\ messages' = Append(messages, m)
      /\ calls' \in Seq(Call) /\ (toolBudget > 0 => Len(calls') > 0)
    BY RequestFacts
<1>2. messages \in Seq(Texts) /\ pc = "complete" /\ specs # {}
    BY DEF Control, Data, Allowance, ToolsRequested
<1>3. toolBudget > 0
    BY <1>2 DEF Affordable
<1>4. Len(calls') \in Nat /\ Len(calls') > 0
    BY <1>1, <1>3, LenProperties
<1>5. /\ ids \in Seq(Nat) /\ Len(ids) = Len(calls') /\ ids # <<>>
      /\ \A k \in 1 .. Len(calls') : ids[k] = calls'[k].id
      /\ m.ids = ids /\ m.role = "assistant"
  <2>1. ids \in Seq(Nat)
      BY <1>1 DEF Texts
  <2>2. Len(ids) = Len(calls')
      BY <1>4, <2>1, LenProperties
  <2>3. ids # <<>>
      BY <1>4, <2>2, EmptySeq
  <2>4. QED
      BY <2>1, <2>2, <2>3
<1> HIDE DEF ids
<1>6. m.ids = ids /\ m.role = "assistant"
    BY <1>5
<1> HIDE DEF m
<1>7. /\ Len(messages) \in Nat /\ DOMAIN messages = 1 .. Len(messages)
      /\ messages' \in Seq(Texts) /\ Len(messages') = u /\ DOMAIN messages' = 1 .. u
      /\ \A k \in 1 .. Len(messages) : messages'[k] = messages[k]
      /\ messages'[u] = m
    BY <1>1, <1>2, AppendProperties, LenProperties
<1>8. Open(messages', calls', u)
  <2>1. messages'[u].ids = ids
      BY <1>6, <1>7
  <2>2. /\ Len(calls') <= Len(ids) /\ Len(ids) - Len(calls') = 0
        /\ u + (Len(ids) - Len(calls')) = Len(messages')
      BY <1>4, <1>5, <1>7
  <2>3. \A k \in 1 .. Len(calls') : ids[Len(ids) - Len(calls') + k] = calls'[k].id
      BY <1>5, <2>2
  <2>4. \A k \in 1 .. Len(ids) - Len(calls') : messages'[u + k] = Answer(ids[k])
      BY <2>2
  <2>5. QED
      BY <1>5, <2>1, <2>2, <2>3, <2>4 DEF Open
<1>9. ASSUME NEW i \in DOMAIN messages', messages'[i].role = "assistant", i # u
      PROVE  Closed(messages', i) /\ i + Len(messages'[i].ids) < Len(messages')
  <2>1. i \in DOMAIN messages /\ messages'[i] = messages[i]
      BY <1>7, <1>9
  <2>2. Closed(messages, i)
      BY <1>2, <1>9, <2>1 DEF TranscriptInv, Between
  <2>3. QED
      BY <1>1, <1>2, <1>6, <2>1, <2>2, ClosedKept
<1>10. QED
    BY <1>7, <1>8, <1>9 DEF OpenAt

LEMMA TranscriptObserved ==
    ASSUME Control, TranscriptInv, ObservationAppended
    PROVE  \E u \in DOMAIN messages' : OpenAt(messages', calls', u)
<1> DEFINE m == Answer(result.id)
<1>1. pc = "result" /\ messages' = Append(messages, m) /\ calls' = Tail(calls)
    BY DEF ObservationAppended, Answer
<1>2. messages \in Seq(Texts) /\ m \in Texts /\ m.role = "tool"
  <2>1. <<result.id>> \in Seq(Nat)
      BY DEF Control, Data, Results
  <2>2. QED
      BY <2>1 DEF Control, Data, Texts, Answer
<1>3. /\ Len(calls) \in Nat \ {0} /\ Len(calls') = Len(calls) - 1
      /\ \A k \in 1 .. Len(calls') : calls'[k] = calls[k + 1]
      /\ m = Answer(calls[1].id)
    BY <1>1, HeadOfCalls, HeadTailProperties
    DEF Control, Data, Allowance, InHand, TranscriptInv
<1> HIDE DEF m
<1>4. /\ Len(messages) \in Nat /\ DOMAIN messages = 1 .. Len(messages)
      /\ messages' \in Seq(Texts) /\ Len(messages') = Len(messages) + 1
      /\ DOMAIN messages' = 1 .. Len(messages) + 1
      /\ \A k \in 1 .. Len(messages) : messages'[k] = messages[k]
      /\ messages'[Len(messages) + 1] = m
    BY <1>1, <1>2, AppendProperties, LenProperties
<1>5. PICK u \in DOMAIN messages : OpenAt(messages, calls, u)
    BY <1>1 DEF TranscriptInv, Round
<1> DEFINE ids == messages[u].ids
<1>6. /\ Len(ids) \in Nat /\ messages'[u].ids = ids /\ u \in 1 .. Len(messages)
    BY <1>2, <1>4, TextFacts
<1>7. /\ ids # <<>> /\ Len(calls) <= Len(ids)
      /\ u + (Len(ids) - Len(calls)) = Len(messages)
      /\ \A k \in 1 .. Len(ids) - Len(calls) : messages[u + k] = Answer(ids[k])
      /\ \A k \in 1 .. Len(calls) : ids[Len(ids) - Len(calls) + k] = calls[k].id
    BY <1>5 DEF OpenAt, Open
<1> HIDE DEF ids
<1>n. /\ Len(calls) \in Nat /\ Len(calls') = Len(calls) - 1 /\ u \in Nat
      /\ u + (Len(ids) - Len(calls)) = Len(messages)
    BY <1>3, <1>6, <1>7
<1>8. ASSUME NEW k \in 1 .. Len(ids) - Len(calls')
      PROVE  messages'[u + k] = Answer(ids[k])
  <2>1. CASE k <= Len(ids) - Len(calls)
      BY <1>3, <1>4, <1>6, <1>7, <2>1
  <2>2. CASE k = Len(ids) - Len(calls) + 1
    <3>1. u + k = Len(messages) + 1
        BY <1>n, <1>6, <2>2
    <3>2. 1 \in 1 .. Len(calls) /\ Len(ids) - Len(calls) + 1 = k
        BY <1>3, <2>2
    <3>3. ids[k] = calls[1].id
        BY <1>7, <3>2
    <3>4. QED
        BY <1>3, <1>4, <3>1, <3>3
  <2>3. k <= Len(ids) - Len(calls) \/ k = Len(ids) - Len(calls) + 1
      BY <1>n, <1>6
  <2>4. QED
      BY <2>1, <2>2, <2>3
<1>9. ASSUME NEW k \in 1 .. Len(calls')
      PROVE  ids[Len(ids) - Len(calls') + k] = calls'[k].id
  <2>1. k + 1 \in 1 .. Len(calls) /\ calls'[k] = calls[k + 1]
      BY <1>3
  <2>2. Len(ids) - Len(calls') + k = Len(ids) - Len(calls) + (k + 1)
      BY <1>3, <1>6
  <2>3. QED
      BY <1>7, <2>1, <2>2
<1>10. Len(calls') <= Len(ids) /\ u + (Len(ids) - Len(calls')) = Len(messages')
    BY <1>3, <1>4, <1>6, <1>7
<1>11. Open(messages', calls', u)
    BY <1>6, <1>7, <1>8, <1>9, <1>10 DEF Open
<1>12. ASSUME NEW i \in DOMAIN messages', messages'[i].role = "assistant", i # u
       PROVE  Closed(messages', i) /\ i + Len(messages'[i].ids) < Len(messages')
  <2>1. i \in DOMAIN messages /\ messages'[i] = messages[i]
      BY <1>2, <1>4, <1>12
  <2>2. Closed(messages, i) /\ i + Len(messages[i].ids) < Len(messages)
      BY <1>5, <1>12, <2>1 DEF OpenAt
  <2>3. QED
      BY <1>1, <1>2, <2>1, <2>2, ClosedKept
<1>13. QED
    BY <1>4, <1>6, <1>11, <1>12 DEF OpenAt

LEMMA TranscriptStep ==
    Control /\ Affordable /\ TranscriptInv /\ [Next]_vars => TranscriptInv'
<1> SUFFICES ASSUME Control, Affordable, TranscriptInv, [Next]_vars PROVE TranscriptInv'
    OBVIOUS
<1> USE DEF Between, Round
<1>1. CASE ToolsRequested
    BY <1>1, TranscriptRequested DEF ToolsRequested, TranscriptInv
<1>2. CASE ObservationAppended
    BY <1>2, TranscriptObserved DEF ObservationAppended, TranscriptInv
<1>3. CASE RoundFinished
  <2>1. messages \in Seq(Texts)
      BY DEF Control, Data
  <2>2. QED
      BY <1>3, <2>1, OpenCloses DEF RoundFinished, TranscriptInv
<1>4. ASSUME UNCHANGED <<messages, calls>>,
             \/ pc' \in {"done", "gone"}
             \/ pc \in Between /\ pc' \in Between
             \/ pc \in Round /\ pc' \in Round,
             pc' = "result" => result'.id = Head(calls).id
      PROVE  TranscriptInv'
    BY <1>4 DEF TranscriptInv
<1>5. CASE PromptBuilt \/ StepLimit \/ NextStep \/ ModelStarted \/ ModelFailed
    BY <1>4, <1>5 DEF PromptBuilt, StepLimit, NextStep, ModelStarted, ModelFailed
<1>6. CASE Answered \/ AnswerFinished \/ AnsweredWithNoise
    BY <1>4, <1>6 DEF Answered, AnswerFinished, AnsweredWithNoise
<1>7. CASE CallAnnounced \/ CallReplayed \/ CallExecuted \/ CallAnswered
    BY <1>4, <1>7 DEF CallAnnounced, CallReplayed, CallExecuted, CallAnswered
<1>8. CASE ToolFinished \/ CallAudited
    BY <1>4, <1>8 DEF ToolFinished, CallAudited, loopVars
<1>9. CASE AuditFailed \/ Abandoned
    BY <1>4, <1>9 DEF AuditFailed, Abandoned
<1>10. CASE TokenStreamed \/ TokenConsumed \/ StreamFinished
    BY <1>4, <1>10 DEF TokenStreamed, TokenConsumed, StreamFinished
<1>11. CASE Tick \/ UNCHANGED vars
    BY <1>11 DEF Tick, vars, loopVars, TranscriptInv
<1>12. QED
    BY <1>1, <1>2, <1>3, <1>5, <1>6, <1>7, <1>8, <1>9, <1>10, <1>11 DEF Next, Turn

(* Whenever the model is called, every call the history attributes to the  *)
(* assistant has been answered, once, in order and right after it.         *)
THEOREM TranscriptAnsweredAlways == Spec => []TranscriptAnswered
<1>1. Init => Affordable /\ TranscriptInv
    BY DEF Init, Affordable, TranscriptInv, Between, Round
<1>2. TranscriptInv => TranscriptAnswered
    BY DEF TranscriptInv, TranscriptAnswered, Between, Closed, Answer
<1>3. QED
    BY <1>1, <1>2, ControlAlways, AffordableStep, TranscriptStep, PTL DEF Spec
===============================================================================
