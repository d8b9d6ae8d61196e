SPECIFICATION Spec
CONSTANTS
    t1 = t1
    t2 = t2
    v1 = v1
    v2 = v2
    v3 = v3
    w1 = w1
    w2 = w2
    Window = {w1, w2}
    Task = {t1, t2}
    Value = {v1, v2, v3}
    Absent = Absent
    Initial <- MCInitial
    Typed <- MCTyped
    MaxOps = 2
    MaxFaults = 1
    MaxReloads = 1
CHECK_DEADLOCK FALSE
INVARIANTS
    StoreInv
PROPERTIES
    NoSilentOverwrite
    Converges
