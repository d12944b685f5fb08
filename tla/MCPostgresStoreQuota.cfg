SPECIFICATION Spec
CONSTANTS
    Sessions = {1, 2}
    Messages = {1, 2, 3}
    MaxOwned = 1
    HistoryCap = 2
    Ttl = 3
    MaxWait = 1
    Limit = 1
    Horizon = 3
INVARIANT
    QuotaHeld
CHECK_DEADLOCK FALSE
