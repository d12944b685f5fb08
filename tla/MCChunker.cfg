SPECIFICATION ChunkerSpec
CONSTANTS
    Size = 4
    Overlap = 2
    MaxLen = 9
INVARIANTS
    NeighboursShare
    NoLetterLost
CHECK_DEADLOCK FALSE
