\* Two rounds of up to two calls under a budget of three, with a clock, and
\* with refused and invented calls among those asked for.
SPECIFICATION FairSpec
CONSTANTS
    Definitions <- MCDefinitions
    Policy <- MCPolicy
    Scopes <- MCScopes
    Requests <- MCAllRequests
    MaxBatch = 2
    MaxSteps = 4
    ToolRounds = 2
    StreamTokens = TRUE
    Deadline = 2
    LeastLimit = 1
    ToolTimeout = 1
    MaxTokens = 1
    Horizon = 3
INVARIANTS
    TypeOK
    TranscriptAnswered
    BudgetRespected
    AnsweredFromSameCall
    AuditedBeforeShown
    OneTerminal
    OnlyGrantedRun
    ToolTemplateSeesNoResults
    RetriedOnce
PROPERTY
    TurnEnds
CHECK_DEADLOCK FALSE
