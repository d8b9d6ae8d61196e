SPECIFICATION MCSpec
CONSTANTS
    Task = {t1, t2, t3}
    Request = {r1, r2}
    MaxDepth = 2
    MaxAttempts = 2
    None = None
CHECK_DEADLOCK FALSE
INVARIANTS
    SearchInv
PROPERTIES
    Implements
    EveryRequestEnds
