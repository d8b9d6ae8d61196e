SPECIFICATION UpdateSpec
CONSTANTS
    p1 = p1
    p2 = p2
    todo = todo
    Request = {r1, r2}
    Person = {p1, p2}
    Manager = {p1}
    Active = {todo}
    InProgress = todo
    Patch <- SomePatches
    MaxVersion = 2
    Keep = Keep
    None = None
    b1 = b1
    b2 = b2
    b3 = b3
    b4 = b4
    Bar = {b1, b2, b3, b4}
    Table <- StoreOrder
    LastDay = 2
    Nil = Nil
    LeapMonths = {1}
    FirstWeekday = 5
    Months = 16
    Rule <- SomeRules
    NoDue = NoDue
    LastSource = 75
    i1 = i1
    i2 = i2
    x1 = x1
    x2 = x2
    Editor = {p1, p2}
    Card = {x1, x2}
    TaskItem = {i1, i2}
    ProjectItem = {j1}
    Edit = {r1, r2}
    NoLink = NoLink
    Unborn = Unborn
    OwnerOf <- CardOwner
    MaxReadVersion = 1
SYMMETRY Symmetry
CONSTRAINT OneArriving
CHECK_DEADLOCK FALSE
INVARIANTS
    CascadeInv
PROPERTIES
    OneNextOccurrence
    ApprovalFollowsStatus
    DecidedByApprover
    NoBlindOverwrite
    FirstNamedDay
    OthersLinksStay
