SPECIFICATION MCSpec
CONSTANTS
    Instance = {i1, i2}
    p1 = p1
    Person = {p1}
    Task = {t1}
    Kind = {r1}
    Builtin = builtin
    Ahead = 1
    LastDay = 1
    TTL = 1
    MaxAttempts = 2
    MaxFaults = 1
    None = None
INVARIANT InterruptedIsVisible
