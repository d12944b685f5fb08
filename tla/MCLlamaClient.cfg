\* Every hazard enabled; no chat_format is configured (the default), so plain
\* calls rely on the template being restored.
SPECIFICATION FairSpec
CONSTANTS
    plain = plain
    tool = tool
    stream = stream
    Calls <- MCCalls
    StreamCalls <- MCStreamCalls
    ToolCalls <- MCToolCalls
    MaxQueueDepth = 2
    MaxTokens = 2
    NativeFormat = "native"
    ToolFormat = "chatml"
    NoFormat = "None"
    ConfigFormat = "None"
    NoCall = NoCall
    Closer = Closer
INVARIANTS
    TypeOK
    SlotOwned
    QueueAccounted
    NoUseAfterClose
    NothingLost
PROPERTIES
    ImplementsNativeModel
    AdmittedCallsLeave
    CloseTerminates
CHECK_DEADLOCK FALSE
