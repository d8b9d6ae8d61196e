---------------------------- MODULE WorkStructure ----------------------------
(***************************************************************************)
(* Where a task lives: projects, parents and the two trashes               *)
(* (src/lib/tasks/service.ts and project-service.ts).                      *)
(*                                                                         *)
(* Every action that moves a task holds the structure lock of the          *)
(* workspace and checks its guard again under it, so one handler is one    *)
(* step here.  Left out, because no property is about them: positions and  *)
(* sections, activity log, notifications and broadcasts, row versions.     *)
(*                                                                         *)
(* A definition introduced by "Seeded fault" is not part of the system: it *)
(* is a plausible bug of the definition that follows it, put in its place  *)
(* to show that a property notices.                                        *)
(***************************************************************************)
EXTENDS TaskAccess

VARIABLES
    origin,     \* recurrence_origin_id: the occurrence this task follows
    preview     \* last purge scope shown for a project of the trash

vars == <<project, archived, owner, founder, role, task, parent, memberOf,
          creator, assignee, collaborators, sameStamp, deletedWith, deletedBy,
          origin, preview>>

NoScope == [erased |-> {}, routes |-> {}, shown |-> FALSE]

Init ==
    /\ project       = [p \in Project |-> "unborn"]
    /\ archived      = {}
    /\ owner         = [p \in Project |-> None]
    /\ founder       = [p \in Project |-> None]
    /\ role          = [p \in Project |-> [u \in User |-> None]]
    /\ task          = [t \in Task |-> "unborn"]
    /\ parent        = [t \in Task |-> None]
    /\ memberOf      = [t \in Task |-> {}]
    /\ creator       = [t \in Task |-> None]
    /\ assignee      = [t \in Task |-> None]
    /\ collaborators = [t \in Task |-> {}]
    /\ sameStamp     = {}
    /\ deletedWith   = [t \in Task |-> None]
    /\ deletedBy     = [t \in Task |-> None]
    /\ origin        = [t \in Task |-> None]
    /\ preview       = [p \in Project |-> NoScope]

-----------------------------------------------------------------------------
(* Projects and their people.  These writes do not take the lock.          *)

CreateProject(u, p, o, members) ==
    /\ project[p] = "unborn"
    /\ project' = [project EXCEPT ![p] = "active"]
    /\ founder' = [founder EXCEPT ![p] = u]
    /\ owner'   = [owner EXCEPT ![p] = o]
    /\ role'    = [role EXCEPT ![p] = [v \in User |->
                      IF v = o THEN "OWNER"
                      ELSE IF v \in members \cup {u} THEN "EDITOR" ELSE None]]
    /\ UNCHANGED <<archived, task, parent, memberOf, rightVars, trashVars,
                   origin, preview>>

\* r = None removes the member; the person in owner_id cannot be removed.
SetProjectMember(u, p, v, r) ==
    /\ CanManageProject(u, p)
    /\ r = None => owner[p] # v
    /\ role' = [role EXCEPT ![p][v] = r]
    /\ UNCHANGED <<project, archived, owner, founder, task, parent, memberOf,
                   rightVars, trashVars, origin, preview>>

\* updateProject with an ownerId, which may be null.
SetProjectOwner(u, p, v) ==
    /\ CanManageProject(u, p)
    /\ owner' = [owner EXCEPT ![p] = v]
    /\ role'  = IF v = None THEN role ELSE [role EXCEPT ![p][v] = "OWNER"]
    /\ UNCHANGED <<project, archived, founder, task, parent, memberOf,
                   rightVars, trashVars, origin, preview>>

SetProjectArchived(u, p) ==
    /\ CanManageProject(u, p)
    /\ archived' = IF p \in archived THEN archived \ {p} ELSE archived \cup {p}
    /\ UNCHANGED <<project, owner, founder, role, task, parent, memberOf,
                   rightVars, trashVars, origin, preview>>

-----------------------------------------------------------------------------
(* Creating rows.                                                          *)

Unborn == {t \in Task : task[t] = "unborn"}

\* The assignee of a task of a project (of its root) must read a project of it.
ReadsOneOf(v, ps) == ps = {} \/ \E p \in ps : CanReadProject(v, p)

\* par: the parent, or None.  p: the project, or None.  a: the assignee, or
\* None.  kids: the subtasks a task template adds.
CreateTask(u, t, par, p, a, kids) ==
    /\ {t} \cup kids \subseteq Unborn /\ t \notin kids
    /\ par # None => /\ CanEdit(u, par) /\ parent[par] = None
                     /\ p = None /\ kids = {}
    /\ p # None => CanEditProjectContent(u, p)
    /\ a \notin {None, u} =>
          /\ InDirectory(u, a)
          /\ ReadsOneOf(a, IF p # None THEN {p}
                           ELSE IF par # None THEN memberOf[par] ELSE {})
          /\ par # None => CanManage(u, par)
    /\ task'     = [x \in Task |-> IF x \in {t} \cup kids THEN "active" ELSE task[x]]
    /\ parent'   = [x \in Task |-> IF x = t THEN par ELSE IF x \in kids THEN t ELSE parent[x]]
    /\ memberOf' = [memberOf EXCEPT ![t] = {p} \ {None}]
    /\ creator'  = [x \in Task |-> IF x \in {t} \cup kids THEN u ELSE creator[x]]
    /\ assignee' = [assignee EXCEPT ![t] = a]
    /\ UNCHANGED <<project, peopleVars, collaborators, trashVars, origin, preview>>

\* A task and its active subtasks.
Family(t) == {t} \cup ActiveChildren(t)

Copies(t, withKids) ==
    {f \in [(IF withKids THEN Family(t) ELSE {t}) -> Unborn] :
        \A x, y \in DOMAIN f : f[x] = f[y] => x = y}

\* Insert the rows f[x]; the fields of the copy of x are those given for x.
InsertCopies(t, f, projects, createdBy, collabs) ==
    LET new    == {f[x] : x \in DOMAIN f}
        src(n) == CHOOSE x \in DOMAIN f : f[x] = n IN
    /\ task'     = [x \in Task |-> IF x \in new THEN "active" ELSE task[x]]
    /\ parent'   = [x \in Task |-> IF x = f[t] THEN parent[t]
                                   ELSE IF x \in new THEN f[t] ELSE parent[x]]
    /\ memberOf' = [memberOf EXCEPT ![f[t]] = projects]
    /\ creator'  = [x \in Task |-> IF x \in new THEN createdBy[src(x)] ELSE creator[x]]
    /\ assignee' = [x \in Task |-> IF x \in new THEN assignee[src(x)] ELSE assignee[x]]
    /\ collaborators' = [collaborators EXCEPT ![f[t]] = collabs]
    /\ UNCHANGED <<project, peopleVars, trashVars, preview>>

\* The copy enters the projects u may edit; a task of a project never becomes
\* free by copy.
DuplicateTask(u, t, f) ==
    LET kept == {p \in memberOf[t] : CanEditProjectContent(u, p)} IN
    /\ CanManage(u, t)
    /\ parent[t] # None => CanManage(u, parent[t])
    /\ memberOf[t] # {} => kept # {}
    /\ InsertCopies(t, f, kept, [x \in Task |-> u], {})
    /\ UNCHANGED origin

\* Completing a recurring task inserts its next occurrence, once.
SpawnNextOccurrence(u, t, f) ==
    /\ CanEdit(u, t)
    /\ \A x \in Task : origin[x] # t
    /\ InsertCopies(t, f, memberOf[t], creator, collaborators[t])
    /\ origin' = [origin EXCEPT ![f[t]] = t]

-----------------------------------------------------------------------------
(* Rights on one task.                                                     *)

\* updateTaskFields with an assigneeId.
AssignTask(u, t, v) ==
    /\ CanManage(u, t)
    /\ assignee[t] # v
    /\ v # None => InDirectory(u, v) /\ ReadsOneOf(v, memberOf[Root(t)])
    /\ assignee' = [assignee EXCEPT ![t] = v]
    /\ UNCHANGED <<project, peopleVars, task, parent, memberOf, creator,
                   collaborators, trashVars, origin, preview>>

\* setFollower: kind COLLABORATOR adds, FOLLOWER or null takes away.
SetCollaborator(u, t, v, on) ==
    /\ IF u = v /\ ~on THEN CanRead(u, t) ELSE CanManage(u, t)
    /\ InDirectory(u, v)
    /\ collaborators' = [collaborators EXCEPT ![t] = IF on THEN @ \cup {v} ELSE @ \ {v}]
    /\ UNCHANGED <<project, peopleVars, task, parent, memberOf, creator,
                   assignee, trashVars, origin, preview>>

-----------------------------------------------------------------------------
(* Moving a task.                                                          *)

\* moveTask into a project the task is not in yet (addTaskToProject).
MoveTask(u, t, p) ==
    /\ CanManage(u, t)
    /\ parent[t] = None
    /\ CanEditProjectContent(u, p)
    /\ p \notin memberOf[t]
    /\ memberOf' = [memberOf EXCEPT ![t] = @ \cup {p}]
    /\ UNCHANGED <<project, peopleVars, task, parent, rightVars, trashVars,
                   origin, preview>>

\* Left with some project, the task needs an active one; left with none, it is
\* free and must open to nobody.
MayKeepOnly(t, rest) ==
    IF rest = {} THEN Involved(t) \subseteq Readers(t)
                 ELSE rest \cap LiveProjects(t) # {}

RemoveTaskFromProject(u, t, p) ==
    /\ CanManage(u, t)
    /\ CanEditProjectContent(u, p)
    /\ p \in memberOf[t]
    /\ MayKeepOnly(t, memberOf[t] \ {p})
    /\ memberOf' = [memberOf EXCEPT ![t] = @ \ {p}]
    /\ UNCHANGED <<project, peopleVars, task, parent, rightVars, trashVars,
                   origin, preview>>

\* Seeded fault: the projects of q are forgotten.
FutureReadersInvolved(q) == Involved(q)

\* Who reads the subtasks of q, as computed by assertParentKeepsVisibility.
FutureReaders(q) ==
    IF LiveProjects(q) = {} THEN Involved(q)
    ELSE {u \in User : \E p \in LiveProjects(q) :
              \/ role[p][u] # None
              \/ u = IF owner[p] = None THEN founder[p] ELSE owner[p]}

\* setTaskParent(t, q).
MakeSubtask(u, t, q) ==
    /\ t # q
    /\ CanManage(u, t) /\ CanManage(u, q)
    /\ parent[q] = None
    /\ ActiveChildren(t) = {}
    /\ memberOf[t] = LiveProjects(t)
    /\ FutureReaders(q) \subseteq Readers(t)
    /\ memberOf' = [memberOf EXCEPT ![t] = {}]
    /\ parent'   = [parent EXCEPT ![t] = q]
    /\ UNCHANGED <<project, peopleVars, task, rightVars, trashVars, origin, preview>>

\* setTaskParent(t, null): the task joins its former parent's active projects.
MakeTask(u, t) ==
    /\ CanManage(u, t)
    /\ parent[t] # None
    /\ memberOf' = [memberOf EXCEPT ![t] = @ \cup LiveProjects(parent[t])]
    /\ parent'   = [parent EXCEPT ![t] = None]
    /\ UNCHANGED <<project, peopleVars, task, rightVars, trashVars, origin, preview>>

-----------------------------------------------------------------------------
(* The trash of tasks.                                                     *)

ToTrash(S, u, p) ==
    /\ task'        = [t \in Task |-> IF t \in S THEN "trashed" ELSE task[t]]
    /\ deletedBy'   = [t \in Task |-> IF t \in S THEN u ELSE deletedBy[t]]
    /\ deletedWith' = [t \in Task |-> IF t \in S THEN p ELSE deletedWith[t]]
    /\ sameStamp'   = sameStamp \cup {t \in S : parent[t] \in S}

OutOfTrash(S) ==
    /\ task'        = [t \in Task |-> IF t \in S THEN "active" ELSE task[t]]
    /\ deletedBy'   = [t \in Task |-> IF t \in S THEN None ELSE deletedBy[t]]
    /\ deletedWith' = [t \in Task |-> IF t \in S THEN None ELSE deletedWith[t]]
    /\ sameStamp'   = sameStamp \ S

DeleteTask(u, t) ==
    /\ CanManage(u, t)
    /\ ToTrash(Family(t), u, None)
    /\ UNCHANGED <<project, peopleVars, parent, memberOf, rightVars, origin, preview>>

\* Seeded fault: a subtask comes back under a parent of the trash.
RestoreTaskAnywhere(u, t) ==
    /\ task[t] = "trashed"
    /\ CanRestore(u, t)
    /\ OutOfTrash({t} \cup (Children(t) \cap sameStamp))
    /\ UNCHANGED <<project, peopleVars, parent, memberOf, rightVars, origin, preview>>

\* Brings back the subtasks whose deleted_at is the task's.
RestoreTask(u, t) ==
    /\ task[t] = "trashed"
    /\ CanRestore(u, t)
    /\ parent[t] # None => task[parent[t]] # "trashed"
    /\ OutOfTrash({t} \cup (Children(t) \cap sameStamp))
    /\ UNCHANGED <<project, peopleVars, parent, memberOf, rightVars, origin, preview>>

\* Seeded fault: no cascade.
CascadeNot(S) == S

\* ON DELETE CASCADE of tasks.parent_id: the least set that holds S and the
\* children of its members.
Cascade(S) ==
    {t \in Task : \A C \in SUBSET Task :
        (S \subseteq C /\ \A c \in Task : parent[c] \in C => c \in C) => t \in C}

Without(f, gone, x) == [t \in Task |-> IF t \in gone THEN x ELSE f[t]]

\* The rows of S and of their subtasks disappear, with every reference to them.
Erase(S) ==
    LET gone == Cascade(S) IN
    /\ parent'        = Without(parent, gone, None)
    /\ creator'       = Without(creator, gone, None)
    /\ assignee'      = Without(assignee, gone, None)
    /\ collaborators' = Without(collaborators, gone, {})
    /\ origin'        = [t \in Task |-> IF t \in gone \/ origin[t] \in gone
                                        THEN None ELSE origin[t]]

PurgeTask(u, t) ==
    LET gone == Cascade({t}) IN
    /\ task[t] = "trashed"
    /\ CanPurge(u, t)
    /\ Erase({t})
    /\ task'        = Without(task, gone, "erased")
    /\ memberOf'    = Without(memberOf, gone, {})
    /\ deletedWith' = Without(deletedWith, gone, None)
    /\ deletedBy'   = Without(deletedBy, gone, None)
    /\ sameStamp'   = sameStamp \ gone
    /\ UNCHANGED <<project, peopleVars, preview>>

-----------------------------------------------------------------------------
(* The trash of projects.                                                  *)

Roots == {t \in Task : parent[t] = None}

\* Seeded fault: a project of the trash counts as another home.
ExclusiveOfAll(p) == {t \in Roots : task[t] = "active" /\ memberOf[t] = {p}}

\* The main tasks of p that no other active project holds.
Exclusive(p) ==
    {t \in Roots : task[t] = "active" /\ p \in memberOf[t] /\ LiveProjects(t) \ {p} = {}}

\* They go to the trash with the project, and so do their active subtasks.
DeleteProject(u, p) ==
    /\ CanManageProject(u, p)
    /\ project' = [project EXCEPT ![p] = "trashed"]
    /\ ToTrash({t \in Task : task[t] = "active" /\ {t, parent[t]} \cap Exclusive(p) # {}}, u, p)
    /\ UNCHANGED <<peopleVars, parent, memberOf, rightVars, origin, preview>>

\* Seeded fault: only the tasks trashed with p come back.
ComesBackWithOwn(p) == {t \in Roots : deletedWith[t] = p}

\* The main tasks trashed with p come back, and those trashed with another
\* project still in the trash that are also tasks of p.
ComesBack(p) ==
    {t \in Roots : \/ deletedWith[t] = p
                   \/ /\ p \in memberOf[t] /\ deletedWith[t] # None
                      /\ project[deletedWith[t]] = "trashed"}

RestoreProject(u, p) ==
    LET roots == ComesBack(p)
        back  == roots \cup {t \in Task : /\ parent[t] \in roots
                                          /\ deletedWith[t] = deletedWith[parent[t]]} IN
    /\ project[p] = "trashed"
    /\ IsProjectOwner(u, p)
    /\ project' = [project EXCEPT ![p] = "active"]
    /\ OutOfTrash(back)
    /\ UNCHANGED <<peopleVars, parent, memberOf, rightVars, origin, preview>>

\* Seeded fault: the tasks still active are forgotten.
ConcernedTrash(p) == {t \in Roots : task[t] = "trashed" /\ (p \in memberOf[t] \/ deletedWith[t] = p)}

\* Main tasks a purge of p decides about, and their projects other than p.
Concerned(p) == {t \in Roots : \/ p \in memberOf[t] /\ task[t] \in {"active", "trashed"}
                               \/ deletedWith[t] = p}
Others(t, p)  == memberOf[t] \ {p}
First(ps)     == CHOOSE q \in ps : TRUE     \* the first by identifier

\* Seeded fault: another project of the trash does not keep the task.
PurgedUnlessActive(p) == {t \in Concerned(p) : Others(t, p) \cap LiveProjects(t) = {}}

Purged(p) == {t \in Concerned(p) : Others(t, p) = {}}

\* Seeded fault: the subtasks are not announced.
AnnouncedMain(p) == Purged(p)

Announced(p) == Purged(p) \cup {t \in Task : parent[t] \in Purged(p)}

\* Where each kept task goes: back to an active project, after another project
\* of the trash, or nowhere.
Restored(p) == {t \in Concerned(p) \ Purged(p) :
                    deletedWith[t] = p /\ Others(t, p) \cap LiveProjects(t) # {}}
Follows(p)  == {t \in Concerned(p) \ Purged(p) :
                    /\ deletedWith[t] = p \/ task[t] = "active"
                    /\ Others(t, p) \cap LiveProjects(t) = {}}

\* The scope the owner confirms; its hash is the token.
PurgeScope(p) ==
    [erased |-> Announced(p),
     routes |-> {<<t, IF t \in Restored(p) THEN "restored" ELSE
                      IF t \in Follows(p) THEN First(Others(t, p)) ELSE "unchanged">> :
                 t \in Concerned(p) \ Purged(p)},
     shown  |-> TRUE]

PreviewProjectPurge(u, p) ==
    /\ project[p] = "trashed" /\ IsProjectOwner(u, p)
    /\ preview' = [preview EXCEPT ![p] = PurgeScope(p)]
    /\ UNCHANGED <<project, peopleVars, task, parent, memberOf, rightVars,
                   trashVars, origin>>

\* t goes where root r goes: the rows updated with r.
With(t, r, p) == t = r \/ (parent[t] = r /\ deletedWith[t] = p)

\* The scope is what was confirmed: the project and its purged tasks are
\* erased, the other tasks lose the project or follow another one.
PurgeProject(u, p) ==
    LET gone    == Cascade(Purged(p))
        back    == {t \in Task : \E r \in Restored(p) : With(t, r, p)}
        moved   == {t \in Task : \E r \in Follows(p) :
                       IF task[r] = "active" THEN task[t] = "active" /\ r \in {t, parent[t]}
                                             ELSE With(t, r, p)}
        home(t) == First(Others(IF t \in Follows(p) THEN t ELSE parent[t], p)) IN
    /\ project[p] = "trashed" /\ IsProjectOwner(u, p)
    /\ preview[p] = PurgeScope(p)
    /\ project' = [project EXCEPT ![p] = "erased"]
    /\ Erase(Purged(p))
    /\ task' = [t \in Task |-> IF t \in gone THEN "erased"
                               ELSE IF t \in back THEN "active"
                               ELSE IF t \in moved THEN "trashed" ELSE task[t]]
    /\ memberOf' = [t \in Task |-> IF t \in gone THEN {} ELSE memberOf[t] \ {p}]
    /\ deletedWith' = [t \in Task |-> IF t \in moved \ gone THEN home(t)
                                      ELSE IF t \in gone \cup back \/ deletedWith[t] = p
                                      THEN None ELSE deletedWith[t]]
    /\ deletedBy' = [t \in Task |-> IF t \in gone \cup back THEN None
                                    ELSE IF t \in moved /\ task[t] = "active" THEN u
                                    ELSE deletedBy[t]]
    /\ sameStamp' = (sameStamp \cup {t \in moved : task[t] = "active" /\ parent[t] \in moved})
                       \ (gone \cup back)
    /\ archived' = archived \ {p}
    /\ owner'    = [owner EXCEPT ![p] = None]
    /\ founder'  = [founder EXCEPT ![p] = None]
    /\ role'     = [role EXCEPT ![p] = [v \in User |-> None]]
    /\ preview'  = [preview EXCEPT ![p] = NoScope]

\* The scope changed since the preview: nothing is erased, the new one is shown.
PurgeProjectRefused(u, p) ==
    /\ project[p] = "trashed" /\ IsProjectOwner(u, p)
    /\ preview[p].shown /\ preview[p] # PurgeScope(p)
    /\ preview' = [preview EXCEPT ![p] = PurgeScope(p)]
    /\ UNCHANGED <<project, peopleVars, task, parent, memberOf, rightVars,
                   trashVars, origin>>

-----------------------------------------------------------------------------
ProjectStep(u) == \E p \in Project :
    \/ \E o \in User, members \in SUBSET User : CreateProject(u, p, o, members)
    \/ \E v \in User, r \in Role \cup {None} : SetProjectMember(u, p, v, r)
    \/ \E v \in User \cup {None} : SetProjectOwner(u, p, v)
    \/ SetProjectArchived(u, p)
    \/ DeleteProject(u, p)
    \/ RestoreProject(u, p)
    \/ PreviewProjectPurge(u, p)
    \/ PurgeProject(u, p)
    \/ PurgeProjectRefused(u, p)

TaskStep(u) == \E t \in Task :
    \/ \E par \in Task \cup {None}, p \in Project \cup {None},
          a \in User \cup {None}, kids \in SUBSET Unborn : CreateTask(u, t, par, p, a, kids)
    \/ \E withKids \in BOOLEAN : \E f \in Copies(t, withKids) : DuplicateTask(u, t, f)
    \/ \E f \in Copies(t, TRUE) : SpawnNextOccurrence(u, t, f)
    \/ \E v \in User \cup {None} : AssignTask(u, t, v)
    \/ \E v \in User, on \in BOOLEAN : SetCollaborator(u, t, v, on)
    \/ \E p \in Project : MoveTask(u, t, p)
    \/ \E p \in Project : RemoveTaskFromProject(u, t, p)
    \/ \E q \in Task : MakeSubtask(u, t, q)
    \/ MakeTask(u, t)
    \/ DeleteTask(u, t)
    \/ RestoreTask(u, t)
    \/ PurgeTask(u, t)

Next == \E u \in User : ProjectStep(u) \/ TaskStep(u)

Spec == Init /\ [][Next]_vars

-----------------------------------------------------------------------------
(* Properties.                                                             *)

Present(x) == x \in {"active", "trashed"}

\* Every column holds a value of its type, and a row that is not there holds
\* the value of no row.
TypeOK ==
    /\ project \in [Project -> State]
    /\ archived \subseteq Project
    /\ owner \in [Project -> User \cup {None}]
    /\ founder \in [Project -> User \cup {None}]
    /\ role \in [Project -> [User -> Role \cup {None}]]
    /\ task \in [Task -> State]
    /\ parent \in [Task -> Task \cup {None}]
    /\ memberOf \in [Task -> SUBSET Project]
    /\ creator \in [Task -> User \cup {None}]
    /\ assignee \in [Task -> User \cup {None}]
    /\ collaborators \in [Task -> SUBSET User]
    /\ sameStamp \subseteq Task
    /\ deletedWith \in [Task -> Project \cup {None}]
    /\ deletedBy \in [Task -> User \cup {None}]
    /\ origin \in [Task -> Task \cup {None}]
    /\ \A t \in Task : ~Present(task[t]) =>
          parent[t] = None /\ memberOf[t] = {} /\ deletedWith[t] = None
    /\ \A p \in Project : ~Present(project[p]) => \A t \in Task : p \notin memberOf[t]

\* A subtask under a task that is itself a subtask (see OneLevel).
Nested(t) == parent[t] # None /\ parent[parent[t]] # None

\* A subtask has no project of its own: it follows its parent's, so that it is
\* never read by another path (createTask, moveTask, setTaskParent).
SubtasksFollowTheirParent ==
    \A t \in Task : parent[t] # None => memberOf[t] = {} /\ Present(task[parent[t]])

\* A task that went to the trash with a project waits there for one of its
\* projects: all of them are in the trash, that project among them.  So a task
\* is never left behind when one of its projects comes back, and never waits
\* for a project that is gone (deleteProject, restoreProject, purgeProject).
TrashFollowsProjects ==
    \A t \in Task : deletedWith[t] # None =>
        /\ task[t] = "trashed"
        /\ LET r == Root(t) IN
           /\ deletedWith[r] = deletedWith[t]
           /\ deletedWith[t] \in memberOf[r]
           /\ \A p \in memberOf[r] : project[p] = "trashed"

\* An active task of a project has an active project: it is neither visible
\* to nobody nor one purge away from becoming free.
ActiveTaskHasActiveProject ==
    \A t \in Task : task[t] = "active" /\ memberOf[t] # {}
                        => \E p \in memberOf[t] : project[p] = "active"

\* Deleting a task takes its subtasks along: no subtask of a main task stays
\* active while its parent is in the trash.
FamilyTrashedTogether ==
    \A t \in Task : task[t] = "active" /\ parent[t] # None /\ ~Nested(t)
                        => task[parent[t]] = "active"

\* "Subtasks are one level deep" (docs/tasks.md): no active subtask hangs
\* under a subtask.
OneLevel == \A t \in Task : task[t] = "active" => ~Nested(t)

-----------------------------------------------------------------------------
(* Action properties.                                                      *)

\* A main task of projects that this step leaves with none.
Freed(t) ==
    /\ memberOf[t] # {} /\ memberOf'[t] = {}
    /\ Present(task'[t]) /\ parent'[t] = None

FreedOnPurpose ==
    \A t \in Task : Freed(t) => task[t] = "active" /\ Readers(t)' \subseteq Readers(t)

\* A main task of a project becomes free only by being removed from it, and
\* then nobody sees it who did not see it before: no trash, restore or purge
\* of a project makes a task free.
NeverFreedByAccident == [][FreedOnPurpose]_vars

\* Nobody's rights change in this step: members, owners, assignees.
SameRights ==
    /\ \A p \in Project : Present(project[p]) /\ Present(project'[p]) =>
          role'[p] = role[p] /\ owner'[p] = owner[p]
    /\ \A t \in Task : Present(task[t]) /\ Present(task'[t]) => Involved(t)' = Involved(t)

\* Adding the task to a project is the one structural change meant to show
\* it to more people.
Joins(t) == parent'[t] = parent[t] /\ ~(memberOf'[t] \subseteq memberOf[t])

\* Two steps that do change who reads a task: turning the subtask of a free task into
\* a task, which its own assignee then reads instead of the parent's; and becoming the
\* subtask of a task that is also in a project of the trash, where a later restore shows
\* it to the members of that project.
LeavesFreeParent(t) == parent[t] # None /\ parent'[t] = None /\ memberOf'[t] = {}
EntersHalfTrashedParent(t) ==
    /\ task[t] = "active" /\ parent'[t] \notin {None, parent[t]}
    /\ memberOf[parent'[t]] # LiveProjects(parent'[t])

StaysNarrow ==
    SameRights =>
       \A t \in Task :
          /\ Present(task[t]) /\ Present(task'[t])
          /\ ~Joins(Root(t)) /\ ~LeavesFreeParent(t) /\ ~EntersHalfTrashedParent(t)
          /\ ~Nested(t) /\ ~Nested(t)'
          => MayRead(t)' \subseteq MayRead(t)

\* Trashing, restoring, purging, removing and reparenting never show a task
\* to new people: as long as nobody's rights change, the people who read it,
\* or would if it came back, can only become fewer.
NoWidening == [][StaysNarrow]_vars

GoneNow(t)         == task[t] # "erased" /\ task'[t] = "erased"
ProjectPurgedNow(p) == project[p] = "trashed" /\ project'[p] = "erased"

ErasedFromTrash ==
    \A t \in Task : GoneNow(t) =>
        /\ \/ task[t] = "trashed" \/ Nested(t)
           \/ /\ memberOf[Root(t)] # {}
              /\ \A p \in memberOf[Root(t)] : project[p] = "trashed"
        /\ \A p \in Project : ProjectPurgedNow(p) => memberOf[t] \subseteq {p}

\* What a purge erases was in the trash, itself or every project it was in: nothing
\* that people still work on disappears (deleteTask trashes the whole family, purges
\* start from there; an earlier version left tasks active in a project of the trash),
\* and the purge of a project spares what another project, active or not, still holds.
OnlyTrashIsErased == [][ErasedFromTrash]_vars

ErasedAsPreviewed ==
    (\A t \in Task : ~Nested(t)) =>
        \A p \in Project : ProjectPurgedNow(p) => {t \in Task : GoneNow(t)} = preview[p].erased

\* The purge of a project erases exactly the tasks of the preview its owner
\* confirmed, whatever happened in between.
ErasedAsAnnounced == [][ErasedAsPreviewed]_vars
=============================================================================
