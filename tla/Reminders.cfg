SPECIFICATION MCSpec
CONSTANTS
    Instance = {i1, i2}
    p1 = p1
    Person = {p1, p2}
    Task = {t1}
    Kind = {builtin, r1}
    Builtin = builtin
    Ahead = 1
    LastDay = 2
    TTL = 1
    MaxAttempts = 2
    MaxFaults = 2
    None = None
INVARIANTS
    DeliveryInv
    NeverSentTwice
PROPERTIES
    KeepsLedger
    PendingIsSettled
    UntouchedIsReminded
