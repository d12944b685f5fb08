\* A clock that is never behind: in process, or replicas in step.
SPECIFICATION Spec
CONSTANTS
    Rate = 2
    Burst = 6
    Cost = 3
    IdleTtl = 3
    MinWait = 0
    Lag = 0
    Horizon = 8
INVARIANTS
    TypeOK
    WindowBounded
    RetrySuffices
CHECK_DEADLOCK FALSE
