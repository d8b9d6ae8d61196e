SPECIFICATION SharingSpec
CONSTANTS
    User = {u1, u2}
    Project = {p1, p2}
    Task = {t1, t2}
    None = None
    Item = {i1, i2, i3}
    Section = {s1, s2, s3}
    Nil = Nil
    Out = Out
    PositionStep = 2
    SpawnOffset = 1
    Nudge = 2
    MaxPlace = 6
    Card = {c1, c2}
    Tag = {g1, g2, g3}
    Option = {o1, o2}
    Editor = {e1, e2}
    Saver = {v1, v2}
    TagLimit = 2
    Unset = Unset
SYMMETRY Symmetry
CHECK_DEADLOCK FALSE
INVARIANTS
    ActiveTaskHasActiveProject
    NoOrphanOption
PROPERTIES
    NoWidening
    DropsLand
    TagsMoveAsAsked
