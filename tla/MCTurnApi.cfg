SPECIFICATION Spec
CONSTANTS
    r1 = r1
    r2 = r2
    s1 = s1
    s2 = s2
    Requests = {r1, r2}
    Streams = {r2}
    Sessions = {s1, s2}
    Messages <- MCMessages
    MaxOwned = 1
    HistoryCap = 3
    Limit = 1
    MaxTokens = 1
INVARIANTS
    SlotsExact
    FramesFaithful
    Conversation
PROPERTIES
    ImplementsSessionStore
    RequestsEnd
CHECK_DEADLOCK FALSE
