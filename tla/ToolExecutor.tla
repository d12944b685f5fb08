---------------------------- MODULE ToolExecutor ----------------------------
(***************************************************************************)
(* PolicyToolExecutor and InMemoryToolRegistry                             *)
(* (bat/services/agent/tools.py) with the policy of bat/ports/tools.py:    *)
(* the choke point every tool call of a turn passes through.  execute()    *)
(* checks in order existence, policy, scopes and arguments, awaits the     *)
(* tool under a timeout, and awaits the audit sink; one call is in         *)
(* progress at a time, because the agent loop awaits each.                 *)
(***************************************************************************)
EXTENDS Naturals, Sequences, FiniteSets

CONSTANTS Definitions,  \* ToolDefinition of each registered name
          Policy,       \* the request's ToolPolicy
          Scopes        \* the scopes the principal holds

(* Authority and Isolation are IntEnums, compared as numbers.              *)
PURE == 0
TENANT == 1
NETWORK == 2
HOST == 3
IN_PROCESS == 0
SUBPROCESS == 1
CONTAINER == 2

SideEffects == {"read_only", "tenant_write", "external_write"}

ToolDefinition ==
    [authority : PURE .. HOST, isolation : IN_PROCESS .. CONTAINER,
     executesArbitraryCode : BOOLEAN, sideEffect : SideEffects,
     requiredScopes : SUBSET {"tools:execute", "memory:read", "memory:write"},
     deterministic : BOOLEAN]

Registered == DOMAIN Definitions

ASSUME DefinitionsAssumption == \A n \in Registered : Definitions[n] \in ToolDefinition
ASSUME PolicyAssumption ==
    /\ Policy.maxAuthority \in PURE .. HOST
    /\ Policy.minCodeIsolation \in IN_PROCESS .. CONTAINER
    /\ Policy.allowedSideEffects \subseteq SideEffects
    /\ Policy.maxCallsPerRun \in Nat

VARIABLES exec,     \* where execute() is
          invoked,  \* its invocation: [id, name, args, valid]
          verdict,  \* the result it will return: [denial, error]
          runs,     \* the invocations whose tool was started, in order
          trail     \* the audit records written, in order

execVars == <<exec, invoked, verdict, runs, trail>>

NoInvocation == [id |-> 0, name |-> "", args |-> "", valid |-> FALSE]
NoVerdict == [denial |-> "", error |-> FALSE]

ExecInit == /\ exec = "idle"
            /\ invoked = NoInvocation
            /\ verdict = NoVerdict
            /\ runs = <<>>
            /\ trail = <<>>

-----------------------------------------------------------------------------
(* ToolPolicy.permits.                                                     *)
Permits(name) ==
    LET d == Definitions[name] IN
    /\ name \in Policy.allowed
    /\ d.authority <= Policy.maxAuthority
    /\ d.executesArbitraryCode => d.isolation >= Policy.minCodeIsolation
    /\ d.sideEffect \in Policy.allowedSideEffects

(* Principal.has, for every required scope: ADMIN stands for them all.     *)
HasScopes(name) ==
    \/ "admin" \in Scopes
    \/ Definitions[name].requiredScopes \subseteq Scopes

(* Mutant: the executor trusts what the registry advertised.               *)
DenialUnchecked(call) ==
    IF ~HasScopes(call.name) THEN "missing scope"
    ELSE IF ~call.valid THEN "invalid arguments"
    ELSE ""

(* The first check that refuses a call to a registered tool, or "".        *)
Denial(call) ==
    IF ~Permits(call.name) THEN "policy"
    ELSE IF ~HasScopes(call.name) THEN "missing scope"
    ELSE IF ~call.valid THEN "invalid arguments"
    ELSE ""

(* InMemoryToolRegistry.specs_for, and the scope filter of _advertise.     *)
Advertised == {n \in Registered : Permits(n) /\ HasScopes(n)}

(* Mutant: anything deterministic is replayed.                             *)
IsCacheableDeterministic(name) ==
    /\ name \in Registered
    /\ Definitions[name].deterministic

(* Definition.deterministic and READ_ONLY; an unknown name is not.         *)
IsCacheable(name) ==
    /\ name \in Registered
    /\ Definitions[name].deterministic
    /\ Definitions[name].sideEffect = "read_only"

-----------------------------------------------------------------------------
(* execute() up to its first await.                                        *)
RefuseUnknown(call) ==
    /\ call.name \notin Registered
    /\ exec' = "auditing"
    /\ verdict' = [denial |-> "", error |-> TRUE]
    /\ UNCHANGED runs

RefuseAtOnce(call) ==      \* mutant: a denial is returned on the spot
    /\ call.name \in Registered
    /\ Denial(call) # ""
    /\ exec' = "returned"
    /\ verdict' = [denial |-> Denial(call), error |-> TRUE]
    /\ UNCHANGED runs

Refuse(call) ==
    /\ call.name \in Registered
    /\ Denial(call) # ""
    /\ exec' = "auditing"
    /\ verdict' = [denial |-> Denial(call), error |-> TRUE]
    /\ UNCHANGED runs

StartTool(call) ==
    /\ call.name \in Registered
    /\ Denial(call) = ""
    /\ exec' = "running"
    /\ verdict' = NoVerdict
    /\ runs' = Append(runs, call)

Execute(call) ==
    /\ exec = "idle"
    /\ invoked' = call
    /\ RefuseUnknown(call) \/ Refuse(call) \/ StartTool(call)
    /\ UNCHANGED trail

(* The tool returns its output, or raises and becomes an observation, or   *)
(* wait_for cancels it.                                                    *)
ToolReturned(error) ==
    /\ exec = "running"
    /\ exec' = "auditing"
    /\ verdict' = [denial |-> "", error |-> error]
    /\ UNCHANGED <<invoked, runs, trail>>

Audited ==
    /\ exec = "auditing"
    /\ exec' = "returned"
    /\ trail' = Append(trail,
                    [id |-> invoked.id,
                     allowed |-> ~verdict.error \/ verdict.denial = "",
                     error |-> verdict.error])
    /\ UNCHANGED <<invoked, verdict, runs>>

(* The sink raises, or the turn is cancelled: execute() raises too and     *)
(* leaves no record.                                                       *)
ExecuteAborted ==
    /\ exec \in {"running", "auditing"}
    /\ exec' = "aborted"
    /\ UNCHANGED <<invoked, verdict, runs, trail>>

ResultTaken ==
    /\ exec = "returned"
    /\ exec' = "idle"
    /\ UNCHANGED <<invoked, verdict, runs, trail>>
=============================================================================
