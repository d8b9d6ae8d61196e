--------------------------- MODULE MCWorkStructure ---------------------------
(***************************************************************************)
(* Instances of WorkStructure for TLC.                                     *)
(***************************************************************************)
EXTENDS WorkStructure, Naturals, TLC

CONSTANT MaxTasks

VARIABLE scene

\* First(ps) is the only element of ps when there are two projects, so projects
\* may be exchanged as well.
Symmetry == Permutations(Task) \cup Permutations(Project)

\* One person, no sharing: the two trashes alone.
TrashNext == \E u \in User :
    \/ \E p \in Project :
          \/ CreateProject(u, p, u, {})
          \/ DeleteProject(u, p)
          \/ RestoreProject(u, p)
          \/ PreviewProjectPurge(u, p)
          \/ PurgeProject(u, p)
          \/ PurgeProjectRefused(u, p)
    \/ \E t \in Task :
          \/ \E par \in Task \cup {None}, p \in Project \cup {None} :
                CreateTask(u, t, par, p, None, {})
          \/ \E p \in Project : MoveTask(u, t, p)
          \/ \E p \in Project : RemoveTaskFromProject(u, t, p)
          \/ \E q \in Task : MakeSubtask(u, t, q)
          \/ MakeTask(u, t)
          \/ DeleteTask(u, t)
          \/ RestoreTask(u, t)
          \/ PurgeTask(u, t)

\* States an earlier version could leave behind: active tasks whose projects
\* are all in the trash.
LegacyInit ==
    /\ project \in [Project -> {"active", "trashed"}]
    /\ archived = {}
    /\ \E u \in User, family \in SUBSET Task, main \in Task :
          /\ Cardinality(family) = MaxTasks /\ main \in family
          /\ owner   = [p \in Project |-> u]
          /\ founder = [p \in Project |-> u]
          /\ role    = [p \in Project |-> [v \in User |-> IF v = u THEN "OWNER" ELSE None]]
          /\ task    = [t \in Task |-> IF t \in family THEN "active" ELSE "unborn"]
          /\ creator = [t \in Task |-> IF t \in family THEN u ELSE None]
          /\ parent  = [t \in Task |-> IF t \in family \ {main} THEN main ELSE None]
          /\ \E ps \in SUBSET Project : memberOf = [t \in Task |-> IF t = main THEN ps ELSE {}]
    /\ assignee      = [t \in Task |-> None]
    /\ collaborators = [t \in Task |-> {}]
    /\ sameStamp     = {}
    /\ deletedWith   = [t \in Task |-> None]
    /\ deletedBy     = [t \in Task |-> None]
    /\ origin        = [t \in Task |-> None]
    /\ preview       = [p \in Project |-> NoScope]

\* Bounds: the two trashes with every task; everything there is to do in one project,
\* with MaxTasks of them; or the two trashes from the states of an earlier version.
MCInit ==
    \/ scene \in {"trashes", "everything"} /\ Init
    \/ scene = "legacy" /\ LegacyInit

MCNext ==
    /\ UNCHANGED scene
    /\ IF scene = "everything"
       THEN Next /\ \E p \in Project : project'[p] = "unborn"
       ELSE TrashNext
    /\ scene = "trashes" \/ Cardinality({t \in Task : task'[t] # "unborn"}) <= MaxTasks

MCSpec == MCInit /\ [][MCNext]_<<vars, scene>>

\* Bound: one purge dialog open at a time, opened once the projects exist.
OnePreview ==
    /\ Cardinality({p \in Project : preview[p].shown}) <= 1
    /\ scene = "trashes" /\ (\E t \in Task : task[t] # "unborn") => \A p \in Project : project[p] # "unborn"
=============================================================================
