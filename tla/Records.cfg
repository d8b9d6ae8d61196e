SPECIFICATION RecordsSpec
CONSTANTS
    Organization = {o1}
    Contact = {c1, c2}
    Opportunity = {opp1}
    FollowUp = {f1}
    Request = {r1, r2}
    Name = {n1, n2}
    Email = {e1}
    None = None
    LastDay = 1
    MaxNudges = 1
    MaxDue = 4
    t1 = t1
    t2 = t2
    Task = {t1, t2}
    Key = {k1, k2, k3}
    ParentOf <- SubtaskOf
    Picture = {c1, c2}
    BackupRun = {r1, r2}
    MinKept = 3
    Retention = 1
    Earlier = 2
    LastMorning = 2
    MaxStamps = 4
    NoArchive = NoArchive
SYMMETRY Symmetry
INVARIANTS
    CrmInv
    BackupsInv
    FilesStand
PROPERTIES
    CrmSteps
