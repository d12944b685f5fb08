SPECIFICATION Spec
CONSTANTS
    Embeds = {"a", "b"}
    Batches = 2
INVARIANT
    NothingUsedAfterClose
PROPERTY
    ShutdownEnds
CHECK_DEADLOCK FALSE
