SPECIFICATION MCSpec
CONSTANTS
    User = {u1}
    Project = {p1, p2}
    Task = {t1, t2, t3}
    None = None
    MaxTasks = 2
SYMMETRY Symmetry
CHECK_DEADLOCK FALSE
CONSTRAINT OnePreview
INVARIANT OneLevel
