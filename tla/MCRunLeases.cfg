\* A run and the skew stay below the time-to-live: 1 + 1 < 3.
SPECIFICATION Spec
CONSTANTS
    r1 = r1
    r2 = r2
    r3 = r3
    Runs <- MCRuns
    Limit = 2
    Ttl = 3
    MaxRun = 1
    Skew = 1
    FailOpen = TRUE
    Horizon = 5
SYMMETRY Symmetry
INVARIANTS
    TypeOK
    WithinCeiling
PROPERTY
    RefusedBehindFreshLeases
CHECK_DEADLOCK FALSE
