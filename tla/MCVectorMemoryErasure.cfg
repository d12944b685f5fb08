SPECIFICATION Spec
CONSTANTS
    d1 = d1
    d2 = d2
    q1 = q1
    e1 = e1
    r1 = r1
    r2 = r2
    Replicas = {r1, r2}
    Documents = {d1, d2}
    Searches = {q1}
    Erasures = {e1}
    At <- MCAt
    Batches = 2
INVARIANT
    ErasureErases
CHECK_DEADLOCK FALSE
