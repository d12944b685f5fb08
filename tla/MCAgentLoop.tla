---------------------------- MODULE MCAgentLoop ----------------------------
(* Small instances of AgentLoop for TLC: a cacheable tool asked for twice  *)
(* with different arguments, a tool with side effects, one the policy      *)
(* refuses, one the principal lacks the scope for, and an invented name.   *)
EXTENDS AgentLoop

MCTool == [authority |-> PURE, isolation |-> IN_PROCESS,
           executesArbitraryCode |-> FALSE, sideEffect |-> "read_only",
           requiredScopes |-> {"tools:execute"},
           deterministic |-> TRUE]

MCDefinitions ==
    [calculator |-> MCTool,
     note |-> [MCTool EXCEPT !.authority = TENANT, !.sideEffect = "tenant_write"],
     shell |-> [MCTool EXCEPT !.authority = HOST],
     python |-> [MCTool EXCEPT !.executesArbitraryCode = TRUE],
     memory |-> [MCTool EXCEPT !.requiredScopes = {"memory:read"}]]

MCPolicy == [allowed |-> {"calculator", "note", "shell", "python", "memory"},
             maxAuthority |-> NETWORK,
             minCodeIsolation |-> SUBPROCESS,
             allowedSideEffects |-> {"read_only", "tenant_write"},
             maxCallsPerRun |-> 3]

MCScopes == {"tools:execute"}

MCRequest(name, args, valid) == [name |-> name, args |-> args, valid |-> valid]

MCRequests == {MCRequest("calculator", "a", TRUE), MCRequest("calculator", "b", TRUE),
               MCRequest("note", "a", TRUE), MCRequest("shell", "a", TRUE)}

MCOddRequests == {MCRequest("calculator", "b", FALSE), MCRequest("python", "a", TRUE),
                  MCRequest("memory", "a", TRUE), MCRequest("ghost", "a", TRUE),
                  MCRequest("calculator", "a", TRUE)}

MCAllRequests == MCRequests \cup MCOddRequests
=============================================================================
