SPECIFICATION ChunkerSpec
CONSTANTS
    Size = 4
    Overlap = 2
    MaxLen = 9
INVARIANT
    WordsApart
CHECK_DEADLOCK FALSE
