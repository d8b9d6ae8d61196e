SPECIFICATION Spec
CONSTANTS
    r1 = r1
    r2 = r2
    r3 = r3
    A = A
    B = B
    Request = {q1, q2}
    Rule = {r1, r2, r3}
    Task = {p, s1, s2}
    Parent = p
    Status = {"DOING", "DONE"}
    Done = "DONE"
    Project = {A, B}
    NoProject = NoProject
    MaxDepth = 2
    RuleBooks <- MCBooks
    ProjectLists <- MCProjects
    RuleOrder <- MCOrder
    MaxChanges = 2
CHECK_DEADLOCK FALSE
INVARIANTS
    RulesInv
    CompletionAnnounced
PROPERTIES
    EveryChangeEnds
