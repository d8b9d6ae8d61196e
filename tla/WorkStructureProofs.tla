------------------------- MODULE WorkStructureProofs -------------------------
(***************************************************************************)
(* Proofs about WorkStructure, for any number of people, projects and      *)
(* tasks, and about the Order of the tasks and sections of a project, for  *)
(* any places: how far apart they are, whether a list was numbered again,  *)
(* and whatever is created, moved and deleted between two reads.           *)
(***************************************************************************)
EXTENDS WorkStructure, Order, FiniteSetTheorems, TLAPS

-----------------------------------------------------------------------------
(* Erasing by cascade.                                                     *)

\* Cascade(S) holds S and the subtasks of its members, and nothing else: a
\* member is in S or is the subtask of a member (tasks.parent_id, ON DELETE
\* CASCADE).
LEMMA CascadeFacts ==
    ASSUME NEW S \in SUBSET Task
    PROVE  /\ S \subseteq Cascade(S)
           /\ Cascade(S) \subseteq Task
           /\ \A c \in Task : parent[c] \in Cascade(S) => c \in Cascade(S)
           /\ \A t \in Cascade(S) : t \in S \/ parent[t] \in Cascade(S)
<1>1. S \subseteq Cascade(S) /\ Cascade(S) \subseteq Task
  BY DEF Cascade
<1>2. ASSUME NEW c \in Task, parent[c] \in Cascade(S)
      PROVE  c \in Cascade(S)
  BY <1>2 DEF Cascade
<1>3. ASSUME NEW t \in Cascade(S), t \notin S, parent[t] \notin Cascade(S)
      PROVE  FALSE
  <2> DEFINE C == Cascade(S) \ {t}
  <2>1. S \subseteq C /\ C \in SUBSET Task
    BY <1>1, <1>3
  <2>2. \A c \in Task : parent[c] \in C => c \in C
    BY <1>2, <1>3
  <2>3. t \in C
    BY <2>1, <2>2, <1>1 DEF Cascade
  <2> QED BY <2>3
<1> QED BY <1>1, <1>2, <1>3

-----------------------------------------------------------------------------
(* Types.                                                                  *)

USE DEF State, Role, Present

LEMMA InitType == Init => TypeOK
BY DEF Init, TypeOK

LEMMA ProjectType ==
    ASSUME TypeOK, NEW u \in User, NEW p \in Project,
           \/ \E o \in User, members \in SUBSET User : CreateProject(u, p, o, members)
           \/ \E v \in User, r \in Role \cup {None} : SetProjectMember(u, p, v, r)
           \/ \E v \in User \cup {None} : SetProjectOwner(u, p, v)
           \/ SetProjectArchived(u, p)
    PROVE  TypeOK'
<1>1. ASSUME NEW o \in User, NEW members \in SUBSET User, CreateProject(u, p, o, members)
      PROVE  TypeOK'
  BY <1>1 DEF CreateProject, TypeOK, peopleVars, rightVars, trashVars
<1>2. ASSUME NEW v \in User, NEW r \in Role \cup {None}, SetProjectMember(u, p, v, r)
      PROVE  TypeOK'
  BY <1>2 DEF SetProjectMember, TypeOK, peopleVars, rightVars, trashVars
<1>3. ASSUME NEW v \in User \cup {None}, SetProjectOwner(u, p, v)
      PROVE  TypeOK'
  BY <1>3 DEF SetProjectOwner, TypeOK, peopleVars, rightVars, trashVars
<1>4. ASSUME SetProjectArchived(u, p)
      PROVE  TypeOK'
  BY <1>4 DEF SetProjectArchived, TypeOK, peopleVars, rightVars, trashVars
<1> QED BY <1>1, <1>2, <1>3, <1>4

\* A copy is a row that was not there, and the rest of the rows stay.
LEMMA CopyType ==
    ASSUME TypeOK, NEW t \in Task, task[t] = "active", NEW withKids \in BOOLEAN,
           NEW f \in Copies(t, withKids), NEW ps \in SUBSET memberOf[t],
           NEW by \in [Task -> User \cup {None}], NEW cs \in SUBSET User,
           InsertCopies(t, f, ps, by, cs),
           origin' \in [Task -> Task \cup {None}]
    PROVE  TypeOK'
<1> DEFINE new == {f[x] : x \in DOMAIN f}
           src(n) == CHOOSE x \in DOMAIN f : f[x] = n
<1>1. /\ DOMAIN f \subseteq Task /\ t \in DOMAIN f
      /\ new \subseteq Task /\ f[t] \in Task /\ f[t] \in new
      /\ \A x \in new : task[x] = "unborn"
  BY DEF Copies, Family, ActiveChildren, Children, Unborn
<1>2. \A x \in new : src(x) \in Task
  BY <1>1
<1>3. /\ parent' \in [Task -> Task \cup {None}]
      /\ creator' \in [Task -> User \cup {None}]
      /\ assignee' \in [Task -> User \cup {None}]
  BY <1>1, <1>2 DEF InsertCopies, TypeOK
<1>4. /\ task' \in [Task -> State]
      /\ memberOf' \in [Task -> SUBSET Project]
      /\ collaborators' \in [Task -> SUBSET User]
      /\ UNCHANGED <<project, peopleVars, trashVars, preview>>
  BY <1>1 DEF InsertCopies, TypeOK
<1>5. \A x \in Task : ~Present(task'[x]) =>
          parent'[x] = None /\ memberOf'[x] = {} /\ deletedWith'[x] = None
  BY <1>1, <1>4 DEF InsertCopies, TypeOK, trashVars
<1>6. \A p \in Project : ~Present(project'[p]) => \A x \in Task : p \notin memberOf'[x]
  BY <1>1, <1>4 DEF InsertCopies, TypeOK
<1> QED BY <1>3, <1>4, <1>5, <1>6 DEF TypeOK, peopleVars, trashVars

LEMMA CreateTaskType ==
    ASSUME TypeOK, NEW u \in User, NEW t \in Task, NEW par \in Task \cup {None},
           NEW p \in Project \cup {None}, NEW a \in User \cup {None},
           NEW kids \in SUBSET Unborn, CreateTask(u, t, par, p, a, kids)
    PROVE  TypeOK'
<1>1. /\ task[t] = "unborn" /\ \A x \in kids : x \in Task /\ task[x] = "unborn"
      /\ p # None => project[p] = "active"
  BY DEF CreateTask, CanEditProjectContent, Unborn
<1>2. /\ task' \in [Task -> State]
      /\ parent' \in [Task -> Task \cup {None}]
      /\ memberOf' \in [Task -> SUBSET Project]
      /\ creator' \in [Task -> User \cup {None}]
      /\ assignee' \in [Task -> User \cup {None}]
  BY <1>1 DEF CreateTask, TypeOK
<1>3. \A x \in Task : ~Present(task'[x]) =>
          parent'[x] = None /\ memberOf'[x] = {} /\ deletedWith'[x] = None
  BY <1>1 DEF CreateTask, TypeOK, trashVars
<1>4. \A q \in Project : ~Present(project'[q]) => \A x \in Task : q \notin memberOf'[x]
  BY <1>1 DEF CreateTask, TypeOK
<1> QED BY <1>2, <1>3, <1>4 DEF CreateTask, TypeOK, peopleVars, trashVars

LEMMA MoveType ==
    ASSUME TypeOK, NEW u \in User, NEW t \in Task,
           \/ \E v \in User \cup {None} : AssignTask(u, t, v)
           \/ \E v \in User, on \in BOOLEAN : SetCollaborator(u, t, v, on)
           \/ \E p \in Project : MoveTask(u, t, p)
           \/ \E p \in Project : RemoveTaskFromProject(u, t, p)
           \/ \E q \in Task : MakeSubtask(u, t, q)
           \/ MakeTask(u, t)
    PROVE  TypeOK'
<1> USE DEF peopleVars, trashVars, rightVars, CanManage, CanRead
<1>1. CASE \E v \in User \cup {None} : AssignTask(u, t, v)
  BY <1>1 DEF AssignTask, TypeOK
<1>2. CASE \E v \in User, on \in BOOLEAN : SetCollaborator(u, t, v, on)
  BY <1>2 DEF SetCollaborator, TypeOK
<1>3. CASE \E p \in Project : MoveTask(u, t, p)
  BY <1>3 DEF MoveTask, TypeOK, CanEditProjectContent
<1>4. CASE \E p \in Project : RemoveTaskFromProject(u, t, p)
  BY <1>4 DEF RemoveTaskFromProject, TypeOK
<1>5. CASE \E q \in Task : MakeSubtask(u, t, q)
  BY <1>5 DEF MakeSubtask, TypeOK
<1>6. CASE MakeTask(u, t)
  <2>1. task[t] = "active" /\ parent[t] \in Task
    BY <1>6 DEF MakeTask, TypeOK
  <2> QED BY <1>6, <2>1 DEF MakeTask, TypeOK, LiveProjects
<1> QED BY <1>1, <1>2, <1>3, <1>4, <1>5, <1>6

\* Going to the trash and coming back change no row that is not there.
LEMMA TrashType ==
    ASSUME TypeOK, NEW S \in SUBSET Task, \A t \in S : Present(task[t]),
           \/ \E u \in User, p \in Project \cup {None} : ToTrash(S, u, p)
           \/ OutOfTrash(S),
           project' \in [Project -> State],
           \A p \in Project : Present(project[p]) => Present(project'[p]),
           UNCHANGED <<peopleVars, parent, memberOf, rightVars, origin>>
    PROVE  TypeOK'
<1>1. /\ task' \in [Task -> State]
      /\ sameStamp' \subseteq Task
      /\ deletedWith' \in [Task -> Project \cup {None}]
      /\ deletedBy' \in [Task -> User \cup {None}]
      /\ \A t \in Task : ~Present(task'[t]) =>
            /\ ~Present(task[t])
            /\ deletedWith'[t] = None
  <2>1. CASE \E u \in User, p \in Project \cup {None} : ToTrash(S, u, p)
    BY <2>1 DEF ToTrash, TypeOK
  <2>2. CASE OutOfTrash(S)
    BY <2>2 DEF OutOfTrash, TypeOK
  <2> QED BY <2>1, <2>2
<1> QED BY <1>1 DEF TypeOK, peopleVars, rightVars

\* Erasing S by cascade leaves no reference to a row that is gone.
LEMMA EraseType ==
    ASSUME TypeOK, NEW S \in SUBSET Task, Erase(S)
    PROVE  /\ parent' \in [Task -> Task \cup {None}]
           /\ creator' \in [Task -> User \cup {None}]
           /\ assignee' \in [Task -> User \cup {None}]
           /\ collaborators' \in [Task -> SUBSET User]
           /\ origin' \in [Task -> Task \cup {None}]
           /\ \A t \in Cascade(S) : parent'[t] = None
           /\ \A t \in Task \ Cascade(S) : parent'[t] = parent[t]
BY CascadeFacts DEF Erase, Without, TypeOK

LEMMA PurgeTaskType ==
    ASSUME TypeOK, NEW u \in User, NEW t \in Task, PurgeTask(u, t)
    PROVE  TypeOK'
<1>1. {t} \in SUBSET Task /\ Erase({t})
  BY DEF PurgeTask
<1>2. Cascade({t}) \subseteq Task
  BY <1>1, CascadeFacts
<1> QED BY <1>1, <1>2, EraseType DEF PurgeTask, Without, TypeOK, peopleVars

-----------------------------------------------------------------------------
(* The purge of a project, seen from one task.                             *)

\* A task that follows another project has one to follow, and a task that is
\* moved along with it finds it through its parent.
LEMMA FollowsFacts ==
    ASSUME TypeOK, NEW p \in Project
    PROVE  /\ Purged(p) \subseteq Task /\ Follows(p) \subseteq Task
           /\ Purged(p) \cap Follows(p) = {}
           /\ \A t \in Purged(p) \cup Follows(p) : parent[t] = None
           /\ \A t \in Follows(p) : /\ First(Others(t, p)) \in Project \ {p}
                                    /\ First(Others(t, p)) \in memberOf[t]
<1>1. \A t \in Follows(p) : Others(t, p) # {}
  BY DEF Follows, Purged
<1>2. \A t \in Follows(p) : First(Others(t, p)) \in Others(t, p)
  BY <1>1 DEF First
<1> QED BY <1>2 DEF Follows, Purged, Concerned, Roots, Others, TypeOK

LEMMA PurgeProjectType ==
    ASSUME TypeOK, NEW u \in User, NEW p \in Project, PurgeProject(u, p)
    PROVE  TypeOK'
<1> DEFINE gone  == Cascade(Purged(p))
           back  == {t \in Task : \E r \in Restored(p) : With(t, r, p)}
           moved == {t \in Task : \E r \in Follows(p) :
                       IF task[r] = "active" THEN task[t] = "active" /\ r \in {t, parent[t]}
                                             ELSE With(t, r, p)}
           home(t) == First(Others(IF t \in Follows(p) THEN t ELSE parent[t], p))
<1>1. /\ Erase(Purged(p)) /\ Purged(p) \in SUBSET Task /\ gone \subseteq Task
      /\ project' = [project EXCEPT ![p] = "erased"]
      /\ task' = [t \in Task |-> IF t \in gone THEN "erased"
                                 ELSE IF t \in back THEN "active"
                                 ELSE IF t \in moved THEN "trashed" ELSE task[t]]
      /\ memberOf' = [t \in Task |-> IF t \in gone THEN {} ELSE memberOf[t] \ {p}]
      /\ deletedWith' = [t \in Task |-> IF t \in moved \ gone THEN home(t)
                                      ELSE IF t \in gone \cup back \/ deletedWith[t] = p
                                      THEN None ELSE deletedWith[t]]
  BY CascadeFacts, FollowsFacts DEF PurgeProject
<1>2. /\ deletedBy' \in [Task -> User \cup {None}]
      /\ sameStamp' \subseteq Task
      /\ archived' \subseteq Project
      /\ owner' \in [Project -> User \cup {None}]
      /\ founder' \in [Project -> User \cup {None}]
      /\ role' \in [Project -> [User -> Role \cup {None}]]
  BY <1>1 DEF PurgeProject, TypeOK
<1>3. \A t \in moved : home(t) \in Project
  BY FollowsFacts DEF With
<1>4. /\ task' \in [Task -> State]
      /\ memberOf' \in [Task -> SUBSET Project]
      /\ project' \in [Project -> State]
  BY <1>1 DEF TypeOK
<1>5. deletedWith' \in [Task -> Project \cup {None}]
  BY <1>1, <1>3 DEF TypeOK
<1>6. ASSUME NEW t \in Task, ~Present(task'[t])
      PROVE  parent'[t] = None /\ memberOf'[t] = {} /\ deletedWith'[t] = None
  <2>1. CASE t \in gone
    BY <1>1, <2>1, EraseType
  <2>2. CASE t \notin gone
    <3>1. t \notin back /\ t \notin moved /\ ~Present(task[t])
      BY <1>1, <1>6, <2>2
    <3> QED BY <1>1, <2>2, <3>1, EraseType DEF TypeOK
  <2> QED BY <2>1, <2>2
<1>7. \A q \in Project : ~Present(project'[q]) => \A t \in Task : q \notin memberOf'[t]
  BY <1>1 DEF TypeOK
<1> QED BY <1>1, <1>2, <1>4, <1>5, <1>6, <1>7, EraseType DEF TypeOK

-----------------------------------------------------------------------------
LEMMA ProjectTrashType ==
    ASSUME TypeOK, NEW u \in User, NEW p \in Project,
           \/ DeleteProject(u, p)
           \/ RestoreProject(u, p)
           \/ PreviewProjectPurge(u, p)
           \/ PurgeProjectRefused(u, p)
    PROVE  TypeOK'
<1>1. CASE DeleteProject(u, p)
  <2> DEFINE S == {t \in Task : task[t] = "active" /\ {t, parent[t]} \cap Exclusive(p) # {}}
  <2>1. S \in SUBSET Task /\ \A t \in S : Present(task[t])
    OBVIOUS
  <2>2. ToTrash(S, u, p) /\ project' = [project EXCEPT ![p] = "trashed"]
    BY <1>1 DEF DeleteProject
  <2>3. UNCHANGED <<peopleVars, parent, memberOf, rightVars, origin>>
    BY <1>1 DEF DeleteProject
  <2> HIDE DEF S
  <2> QED BY <2>1, <2>2, <2>3, TrashType DEF TypeOK
<1>2. CASE RestoreProject(u, p)
  <2> DEFINE roots == ComesBack(p)
             back  == roots \cup {t \in Task : /\ parent[t] \in roots
                                               /\ deletedWith[t] = deletedWith[parent[t]]}
  <2>1. back \in SUBSET Task /\ \A t \in back : deletedWith[t] # None
    BY NoneAssumption DEF ComesBack, Roots
  <2>2. \A t \in back : Present(task[t])
    BY <2>1 DEF TypeOK
  <2>3. OutOfTrash(back) /\ project' = [project EXCEPT ![p] = "active"]
    BY <1>2 DEF RestoreProject
  <2>4. UNCHANGED <<peopleVars, parent, memberOf, rightVars, origin>>
    BY <1>2 DEF RestoreProject
  <2> HIDE DEF back
  <2> QED BY <2>1, <2>2, <2>3, <2>4, TrashType DEF TypeOK
<1>3. CASE PreviewProjectPurge(u, p) \/ PurgeProjectRefused(u, p)
  BY <1>3 DEF PreviewProjectPurge, PurgeProjectRefused, TypeOK, peopleVars, rightVars, trashVars
<1> QED BY <1>1, <1>2, <1>3

LEMMA TaskTrashType ==
    ASSUME TypeOK, NEW u \in User, NEW t \in Task,
           DeleteTask(u, t) \/ RestoreTask(u, t)
    PROVE  TypeOK'
<1>1. /\ Family(t) \in SUBSET Task
      /\ task[t] = "active" => \A x \in Family(t) : Present(task[x])
  BY DEF Family, ActiveChildren, Children
<1>2. CASE DeleteTask(u, t)
  BY <1>1, <1>2, TrashType DEF DeleteTask, CanManage, CanRead, TypeOK
<1>3. CASE RestoreTask(u, t)
  <2>1. \A x \in Children(t) : x \in Task /\ parent[x] \in Task
    BY DEF Children
  <2>2. \A x \in {t} \cup (Children(t) \cap sameStamp) : Present(task[x])
    BY <1>3, <2>1, NoneAssumption DEF RestoreTask, TypeOK
  <2>3. {t} \cup (Children(t) \cap sameStamp) \in SUBSET Task
    BY <2>1
  <2> QED BY <1>3, <2>2, <2>3, TrashType DEF RestoreTask, TypeOK
<1> QED BY <1>2, <1>3

LEMMA NextType == TypeOK /\ [Next]_vars => TypeOK'
<1> SUFFICES ASSUME TypeOK, [Next]_vars
             PROVE  TypeOK'
  OBVIOUS
<1>1. ASSUME NEW u \in User, ProjectStep(u)
      PROVE  TypeOK'
  BY <1>1, ProjectType, ProjectTrashType, PurgeProjectType DEF ProjectStep
<1>2. ASSUME NEW u \in User, TaskStep(u)
      PROVE  TypeOK'
  <2> PICK t \in Task : TaskStep(u)!(t)
    BY <1>2 DEF TaskStep
  <2>1. CASE \E par \in Task \cup {None}, p \in Project \cup {None}, a \in User \cup {None},
                kids \in SUBSET Unborn : CreateTask(u, t, par, p, a, kids)
    BY <2>1, CreateTaskType
  <2>2. ASSUME NEW withKids \in BOOLEAN, NEW f \in Copies(t, withKids), DuplicateTask(u, t, f)
        PROVE  TypeOK'
    BY <2>2, CopyType DEF DuplicateTask, CanManage, CanRead, TypeOK
  <2>3. ASSUME NEW f \in Copies(t, TRUE), SpawnNextOccurrence(u, t, f)
        PROVE  TypeOK'
    <3>1. f[t] \in Task /\ task[t] = "active"
      BY <2>3 DEF Copies, Family, Unborn, SpawnNextOccurrence, CanEdit, CanRead
    <3>2. origin' \in [Task -> Task \cup {None}]
      BY <2>3, <3>1 DEF SpawnNextOccurrence, TypeOK
    <3> QED BY <2>3, <3>1, <3>2, CopyType DEF SpawnNextOccurrence, TypeOK
  <2> QED BY <2>1, <2>2, <2>3, MoveType, TaskTrashType, PurgeTaskType
<1>3. ASSUME UNCHANGED vars
      PROVE  TypeOK'
  BY <1>3 DEF vars, TypeOK
<1> QED BY <1>1, <1>2, <1>3 DEF Next

\* The tables keep their types, and rows that are gone keep nothing, whatever
\* the users do.
THEOREM TypeCorrect == Spec => []TypeOK
BY InitType, NextType, PTL DEF Spec

-----------------------------------------------------------------------------
(* The trash.  No single property of it is inductive: where a project sends *)
(* its tasks depends on the projects that hold their parents, on the tasks  *)
(* that wait for them, and on who is in the trash with whom.  Together they *)
(* are.                                                                    *)

TrashInv ==
    /\ TypeOK
    /\ SubtasksFollowTheirParent
    /\ TrashFollowsProjects
    /\ ActiveTaskHasActiveProject
    /\ FamilyTrashedTogether

\* A task that waits for a project is in the trash with its parent, which is a
\* main task of that project.
LEMMA WaitingFacts ==
    ASSUME TrashInv, NEW t \in Task, deletedWith[t] # None
    PROVE  /\ task[t] = "trashed"
           /\ Root(t) \in Task /\ parent[Root(t)] = None
           /\ task[Root(t)] = "trashed" /\ deletedWith[Root(t)] = deletedWith[t]
           /\ deletedWith[t] \in memberOf[Root(t)]
           /\ \A p \in memberOf[Root(t)] : project[p] = "trashed"
<1>1. Root(t) \in Task
  BY DEF TrashInv, TypeOK, Root
<1>2. /\ task[t] = "trashed" /\ deletedWith[Root(t)] = deletedWith[t]
      /\ deletedWith[t] \in memberOf[Root(t)]
      /\ \A p \in memberOf[Root(t)] : project[p] = "trashed"
  BY DEF TrashInv, TrashFollowsProjects
<1>3. parent[Root(t)] = None
  BY <1>1, <1>2 DEF TrashInv, SubtasksFollowTheirParent
<1>4. task[Root(t)] = "trashed"
  BY <1>1, <1>2 DEF TrashInv, TrashFollowsProjects
<1> QED BY <1>1, <1>2, <1>3, <1>4

\* An active task, and the subtasks of an active task, wait for no project.
LEMMA ActiveFacts ==
    ASSUME TrashInv, NEW t \in Task, task[t] = "active"
    PROVE  /\ deletedWith[t] = None
           /\ \A c \in Task : parent[c] = t => deletedWith[c] = None
BY WaitingFacts, NoneAssumption DEF Root

\* A step that moves no task and leaves the trash alone keeps the invariant
\* when the projects in the trash stay there and active ones stay active.
LEMMA StillInv ==
    ASSUME TrashInv, TypeOK', UNCHANGED <<task, parent, memberOf, deletedWith>>,
           \A p \in Project : project[p] \in {"active", "trashed"} => project'[p] = project[p]
    PROVE  TrashInv'
<1>1. SubtasksFollowTheirParent'
  BY DEF TrashInv, SubtasksFollowTheirParent
<1>2. TrashFollowsProjects'
  BY DEF TrashInv, TrashFollowsProjects, TypeOK, Root
<1>3. ActiveTaskHasActiveProject'
  BY DEF TrashInv, ActiveTaskHasActiveProject, TypeOK
<1>4. FamilyTrashedTogether'
  BY DEF TrashInv, FamilyTrashedTogether, Nested
<1> QED BY <1>1, <1>2, <1>3, <1>4 DEF TrashInv

LEMMA CopyInv ==
    ASSUME TrashInv, TypeOK', NEW t \in Task, task[t] = "active", task[Root(t)] = "active",
           NEW withKids \in BOOLEAN, NEW f \in Copies(t, withKids), NEW ps \in SUBSET memberOf[t],
           memberOf[t] # {} => \E p \in ps : project[p] = "active",
           NEW by, NEW cs, InsertCopies(t, f, ps, by, cs)
    PROVE  TrashInv'
<1> DEFINE new == {f[x] : x \in DOMAIN f}
<1>1. /\ f[t] \in Task /\ f[t] \in new /\ new \subseteq Task
      /\ \A x \in new : task[x] = "unborn" /\ memberOf[x] = {} /\ deletedWith[x] = None
  <2>1. /\ f[t] \in Task /\ f[t] \in new /\ new \subseteq Task
        /\ \A x \in new : task[x] = "unborn"
    BY DEF Copies, Family, ActiveChildren, Children, Unborn
  <2> HIDE DEF new
  <2> QED BY <2>1 DEF TrashInv, TypeOK
<1>2. /\ project' = project /\ deletedWith' = deletedWith
      /\ task' = [x \in Task |-> IF x \in new THEN "active" ELSE task[x]]
      /\ parent' = [x \in Task |-> IF x = f[t] THEN parent[t]
                                   ELSE IF x \in new THEN f[t] ELSE parent[x]]
      /\ memberOf' = [memberOf EXCEPT ![f[t]] = ps]
  BY DEF InsertCopies, trashVars
<1> HIDE DEF new
<1>3. /\ parent[t] # None => memberOf[t] = {} /\ task[parent[t]] = "active"
      /\ \A x \in Task : parent[x] \in Task \cup {None}
      /\ \A x \in Task : parent[x] # None => parent[x] \notin new
  BY <1>1 DEF Root, TrashInv, TypeOK, SubtasksFollowTheirParent
<1>4. SubtasksFollowTheirParent'
  BY <1>1, <1>2, <1>3 DEF TrashInv, TypeOK, SubtasksFollowTheirParent
<1>5. TrashFollowsProjects'
  <2> SUFFICES ASSUME NEW x \in Task, deletedWith'[x] # None
               PROVE  /\ task'[x] = "trashed"
                      /\ deletedWith'[Root(x)'] = deletedWith'[x]
                      /\ deletedWith'[x] \in memberOf'[Root(x)']
                      /\ \A p \in memberOf'[Root(x)'] : project'[p] = "trashed"
    BY DEF TrashFollowsProjects
  <2>1. x \notin new /\ Root(x) \notin new
    BY <1>1, <1>2, WaitingFacts
  <2>2. Root(x)' = Root(x)
    BY <2>1, <1>1, <1>2 DEF Root
  <2> QED BY <1>1, <1>2, <2>1, <2>2, WaitingFacts DEF TrashInv, TypeOK
<1>6. ActiveTaskHasActiveProject'
  <2> SUFFICES ASSUME NEW x \in Task, task'[x] = "active", memberOf'[x] # {}
               PROVE  \E p \in memberOf'[x] : project'[p] = "active"
    BY DEF ActiveTaskHasActiveProject
  <2>1. CASE x = f[t]
    BY <1>1, <1>2, <2>1 DEF TrashInv, TypeOK
  <2>2. CASE x # f[t]
    <3>1. memberOf'[x] = memberOf[x] /\ task[x] = "active"
      BY <1>1, <1>2, <2>2 DEF TrashInv, TypeOK
    <3> QED BY <1>2, <3>1 DEF TrashInv, ActiveTaskHasActiveProject
  <2> QED BY <2>1, <2>2
<1>7. FamilyTrashedTogether'
  BY <1>1, <1>2, <1>3 DEF TrashInv, TypeOK, FamilyTrashedTogether, Nested
<1> QED BY <1>4, <1>5, <1>6, <1>7 DEF TrashInv

LEMMA CreateTaskInv ==
    ASSUME TrashInv, TypeOK', NEW u \in User, NEW t \in Task, NEW par \in Task \cup {None},
           NEW p \in Project \cup {None}, NEW a \in User \cup {None},
           NEW kids \in SUBSET Unborn, CreateTask(u, t, par, p, a, kids)
    PROVE  TrashInv'
<1> DEFINE new == {t} \cup kids
<1>1. /\ new \subseteq Task /\ t \notin kids
      /\ \A x \in new : /\ task[x] = "unborn" /\ memberOf[x] = {} /\ deletedWith[x] = None
      /\ p # None => project[p] = "active"
      /\ par # None => task[par] = "active" /\ p = None /\ kids = {} /\ parent[par] = None
  BY DEF CreateTask, CanEditProjectContent, Unborn, TrashInv, TypeOK, CanEdit, CanRead
<1>2. /\ project' = project /\ deletedWith' = deletedWith
      /\ task' = [x \in Task |-> IF x \in new THEN "active" ELSE task[x]]
      /\ parent' = [x \in Task |-> IF x = t THEN par ELSE IF x \in kids THEN t ELSE parent[x]]
      /\ memberOf' = [memberOf EXCEPT ![t] = {p} \ {None}]
  BY DEF CreateTask, trashVars
<1>3. \A x \in Task : parent[x] # None => parent[x] \in Task /\ parent[x] \notin new
  <2> HIDE DEF new
  <2>1. \A x \in Task : parent[x] # None => parent[x] \in Task /\ Present(task[parent[x]])
    BY DEF TrashInv, TypeOK, SubtasksFollowTheirParent
  <2> QED BY <1>1, <2>1
<1>4. SubtasksFollowTheirParent'
  BY <1>1, <1>2, <1>3, NoneAssumption DEF TrashInv, TypeOK, SubtasksFollowTheirParent
<1>5. TrashFollowsProjects'
  <2> SUFFICES ASSUME NEW x \in Task, deletedWith'[x] # None
               PROVE  /\ task'[x] = "trashed"
                      /\ deletedWith'[Root(x)'] = deletedWith'[x]
                      /\ deletedWith'[x] \in memberOf'[Root(x)']
                      /\ \A q \in memberOf'[Root(x)'] : project'[q] = "trashed"
    BY DEF TrashFollowsProjects
  <2>1. x \notin new /\ Root(x) \notin new
    BY <1>1, <1>2, WaitingFacts
  <2>2. Root(x)' = Root(x)
    BY <2>1, <1>1, <1>2 DEF Root
  <2> QED BY <1>1, <1>2, <2>1, <2>2, WaitingFacts DEF TrashInv, TypeOK
<1>6. ActiveTaskHasActiveProject'
  <2> SUFFICES ASSUME NEW x \in Task, task'[x] = "active", memberOf'[x] # {}
               PROVE  \E q \in memberOf'[x] : project'[q] = "active"
    BY DEF ActiveTaskHasActiveProject
  <2>1. CASE x = t
    BY <1>1, <1>2, <2>1 DEF TrashInv, TypeOK
  <2>2. CASE x # t
    <3>1. memberOf'[x] = memberOf[x] /\ task[x] = "active"
      BY <1>1, <1>2, <2>2 DEF TrashInv, TypeOK
    <3> QED BY <1>2, <3>1 DEF TrashInv, ActiveTaskHasActiveProject
  <2> QED BY <2>1, <2>2
<1>7. FamilyTrashedTogether'
  BY <1>1, <1>2, <1>3, NoneAssumption DEF TrashInv, TypeOK, FamilyTrashedTogether, Nested
<1> QED BY <1>4, <1>5, <1>6, <1>7 DEF TrashInv

\* A step that moves an active task t, alone, keeps the invariant when t keeps
\* an active project and goes, if anywhere, under an active task.
LEMMA MovedInv ==
    ASSUME TrashInv, TypeOK', NEW t \in Task, task[t] = "active",
           UNCHANGED <<project, task, deletedWith>>,
           \A x \in Task \ {t} : parent'[x] = parent[x] /\ memberOf'[x] = memberOf[x],
           parent'[t] # None => /\ memberOf'[t] = {} /\ parent'[t] # t
                                /\ Present(task[parent'[t]])
                                /\ parent'[t] = parent[t] \/ task[parent'[t]] = "active",
           memberOf'[t] # {} => \E p \in memberOf'[t] : project[p] = "active"
    PROVE  TrashInv'
<1>1. SubtasksFollowTheirParent'
  BY DEF TrashInv, SubtasksFollowTheirParent
<1>2. TrashFollowsProjects'
  <2> SUFFICES ASSUME NEW x \in Task, deletedWith'[x] # None
               PROVE  /\ task'[x] = "trashed"
                      /\ deletedWith'[Root(x)'] = deletedWith'[x]
                      /\ deletedWith'[x] \in memberOf'[Root(x)']
                      /\ \A q \in memberOf'[Root(x)'] : project'[q] = "trashed"
    BY DEF TrashFollowsProjects
  <2>1. x # t /\ Root(x) # t /\ Root(x) \in Task
    BY ActiveFacts, WaitingFacts
  <2>2. Root(x)' = Root(x)
    BY <2>1 DEF Root
  <2> QED BY <2>1, <2>2, WaitingFacts
<1>3. ActiveTaskHasActiveProject'
  BY DEF TrashInv, ActiveTaskHasActiveProject
<1>4. FamilyTrashedTogether'
  <2> SUFFICES ASSUME NEW x \in Task, task[x] = "active", parent'[x] # None, ~Nested(x)'
               PROVE  task[parent'[x]] = "active"
    BY DEF FamilyTrashedTogether
  <2>1. CASE x = t /\ parent'[t] = parent[t]
    <3>1. parent'[parent[t]] = parent[parent[t]]
      BY <2>1, TypeOK DEF TrashInv, TypeOK
    <3> QED BY <2>1, <3>1 DEF TrashInv, FamilyTrashedTogether, Nested
  <2>2. CASE x = t /\ parent'[t] # parent[t]
    BY <2>2
  <2>3. CASE x # t /\ parent[x] = t
    BY <2>3
  <2>4. CASE x # t /\ parent[x] # t
    BY <2>4 DEF TrashInv, TypeOK, FamilyTrashedTogether, Nested
  <2> QED BY <2>1, <2>2, <2>3, <2>4
<1> QED BY <1>1, <1>2, <1>3, <1>4 DEF TrashInv

LEMMA MoveInv ==
    ASSUME TrashInv, TypeOK', NEW u \in User, NEW t \in Task,
           \/ \E p \in Project : MoveTask(u, t, p)
           \/ \E p \in Project : RemoveTaskFromProject(u, t, p)
           \/ \E q \in Task : MakeSubtask(u, t, q)
           \/ MakeTask(u, t)
    PROVE  TrashInv'
<1>1. task[t] = "active" /\ UNCHANGED <<project, task, deletedWith>>
  BY DEF MoveTask, RemoveTaskFromProject, MakeSubtask, MakeTask, CanManage, CanRead, trashVars
<1>2. parent \in [Task -> Task \cup {None}] /\ memberOf \in [Task -> SUBSET Project]
  BY DEF TrashInv, TypeOK
<1>3. \A x \in Task \ {t} : parent'[x] = parent[x] /\ memberOf'[x] = memberOf[x]
  BY <1>2 DEF MoveTask, RemoveTaskFromProject, MakeSubtask, MakeTask
<1>4. /\ parent[t] # None => memberOf[t] = {} /\ Present(task[parent[t]])
      /\ memberOf[t] # {} => \E p \in memberOf[t] : project[p] = "active"
  BY <1>1 DEF TrashInv, SubtasksFollowTheirParent, ActiveTaskHasActiveProject
<1>5. CASE \E p \in Project : MoveTask(u, t, p)
  <2>1. PICK p \in Project : MoveTask(u, t, p)
    BY <1>5
  <2>2. parent' = parent /\ memberOf'[t] = memberOf[t] \cup {p} /\ project[p] = "active"
        /\ parent[t] = None
    BY <2>1, <1>2 DEF MoveTask, CanEditProjectContent
  <2> QED BY <1>1, <1>3, <2>2, MovedInv
<1>6. CASE \E p \in Project : RemoveTaskFromProject(u, t, p)
  <2>1. PICK p \in Project : RemoveTaskFromProject(u, t, p)
    BY <1>6
  <2>2. parent' = parent /\ memberOf'[t] = memberOf[t] \ {p} /\ parent[t] = None
    BY <2>1, <1>2, <1>4 DEF RemoveTaskFromProject
  <2>3. memberOf'[t] # {} => \E q \in memberOf'[t] : project[q] = "active"
    BY <2>1, <2>2 DEF RemoveTaskFromProject, MayKeepOnly, LiveProjects
  <2> QED BY <1>1, <1>3, <2>2, <2>3, MovedInv
<1>7. CASE \E q \in Task : MakeSubtask(u, t, q)
  <2>1. PICK q \in Task : MakeSubtask(u, t, q)
    BY <1>7
  <2>2. parent'[t] = q /\ memberOf'[t] = {} /\ q # t /\ task[q] = "active"
    BY <2>1, <1>2 DEF MakeSubtask, CanManage, CanRead
  <2> QED BY <1>1, <1>3, <2>2, MovedInv
<1>8. CASE MakeTask(u, t)
  <2>1. parent'[t] = None /\ memberOf'[t] = LiveProjects(parent[t])
    BY <1>8, <1>2, <1>4 DEF MakeTask
  <2> QED BY <1>1, <1>3, <2>1, MovedInv DEF LiveProjects
<1> QED BY <1>5, <1>6, <1>7, <1>8

LEMMA TaskTrashInv ==
    ASSUME TrashInv, TypeOK', NEW u \in User, NEW t \in Task,
           DeleteTask(u, t) \/ RestoreTask(u, t)
    PROVE  TrashInv'
<1>1. UNCHANGED <<project, parent, memberOf>>
  BY DEF DeleteTask, RestoreTask
<1>2. CASE DeleteTask(u, t)
  <2>1. /\ task[t] = "active" /\ t \in Family(t) /\ Family(t) \subseteq Task
        /\ \A x \in Family(t) : task[x] = "active" /\ deletedWith[x] = None
        /\ \A x \in Task : task[x] = "active" /\ parent[x] = t => x \in Family(t)
        /\ \A x \in Family(t) : x = t \/ parent[x] = t
    BY <1>2, ActiveFacts DEF DeleteTask, CanManage, CanRead, Family, ActiveChildren, Children
  <2>2. /\ task' = [x \in Task |-> IF x \in Family(t) THEN "trashed" ELSE task[x]]
        /\ deletedWith' = [x \in Task |-> IF x \in Family(t) THEN None ELSE deletedWith[x]]
    BY <1>2 DEF DeleteTask, ToTrash
  <2>3. SubtasksFollowTheirParent'
    BY <1>1, <2>1, <2>2 DEF TrashInv, TypeOK, SubtasksFollowTheirParent
  <2>4. TrashFollowsProjects'
    BY <1>1, <2>1, <2>2, WaitingFacts DEF TrashInv, TrashFollowsProjects, Root
  <2>5. ActiveTaskHasActiveProject'
    BY <1>1, <2>2 DEF TrashInv, ActiveTaskHasActiveProject
  <2>6. FamilyTrashedTogether'
    <3> SUFFICES ASSUME NEW x \in Task, task'[x] = "active", parent[x] # None, ~Nested(x)
                 PROVE  task'[parent[x]] = "active"
      BY <1>1 DEF FamilyTrashedTogether, Nested
    <3>1. x \notin Family(t) /\ task[x] = "active"
      BY <2>2
    <3>2. parent[x] \in Task /\ parent[parent[x]] = None /\ task[parent[x]] = "active"
      BY <3>1 DEF TrashInv, TypeOK, FamilyTrashedTogether, Nested
    <3>3. parent[x] \notin Family(t)
      BY <2>1, <3>1, <3>2, NoneAssumption
    <3> QED BY <2>2, <3>2, <3>3
  <2> QED BY <2>3, <2>4, <2>5, <2>6 DEF TrashInv
<1>3. CASE RestoreTask(u, t)
  <2> DEFINE S == {t} \cup (Children(t) \cap sameStamp)
  <2>1. /\ task[t] = "trashed" /\ t \in S /\ S \subseteq Task
        /\ \A x \in S : x = t \/ parent[x] = t
        /\ parent[t] # None => task[parent[t]] = "active"
        /\ memberOf[t] # {} => \E p \in memberOf[t] : project[p] = "active"
    BY <1>3 DEF RestoreTask, CanRestore, Children, Root, LiveProjects,
                TrashInv, SubtasksFollowTheirParent
  <2>2. deletedWith[t] = None /\ \A x \in Task : parent[x] = t => deletedWith[x] = None
    BY <1>3, WaitingFacts, NoneAssumption DEF RestoreTask, CanRestore, Root
  <2>3. /\ task' = [x \in Task |-> IF x \in S THEN "active" ELSE task[x]]
        /\ deletedWith' = [x \in Task |-> IF x \in S THEN None ELSE deletedWith[x]]
    BY <1>3 DEF RestoreTask, OutOfTrash
  <2> HIDE DEF S
  <2>4. SubtasksFollowTheirParent'
    BY <1>1, <2>1, <2>3 DEF TrashInv, TypeOK, SubtasksFollowTheirParent
  <2>5. TrashFollowsProjects'
    BY <1>1, <2>1, <2>2, <2>3, WaitingFacts DEF TrashInv, TrashFollowsProjects, Root
  <2>6. ActiveTaskHasActiveProject'
    BY <1>1, <2>1, <2>3, NoneAssumption DEF TrashInv, ActiveTaskHasActiveProject, SubtasksFollowTheirParent
  <2>7. FamilyTrashedTogether'
    BY <1>1, <2>1, <2>3 DEF TrashInv, TypeOK, FamilyTrashedTogether, Nested
  <2> QED BY <2>4, <2>5, <2>6, <2>7 DEF TrashInv
<1> QED BY <1>2, <1>3

LEMMA PurgeTaskInv ==
    ASSUME TrashInv, TypeOK', NEW u \in User, NEW t \in Task, PurgeTask(u, t)
    PROVE  TrashInv'
<1> DEFINE gone == Cascade({t})
<1>1. /\ gone \subseteq Task
      /\ \A x \in Task : parent[x] \in gone => x \in gone
  BY CascadeFacts
<1>2. /\ project' = project
      /\ task' = Without(task, gone, "erased")
      /\ memberOf' = Without(memberOf, gone, {})
      /\ deletedWith' = Without(deletedWith, gone, None)
      /\ parent' = Without(parent, gone, None)
  BY DEF PurgeTask, Erase
<1> HIDE DEF gone
<1>3. SubtasksFollowTheirParent'
  BY <1>1, <1>2 DEF TrashInv, TypeOK, SubtasksFollowTheirParent, Without
<1>4. TrashFollowsProjects'
  <2> SUFFICES ASSUME NEW x \in Task, deletedWith'[x] # None
               PROVE  /\ task'[x] = "trashed"
                      /\ deletedWith'[Root(x)'] = deletedWith'[x]
                      /\ deletedWith'[x] \in memberOf'[Root(x)']
                      /\ \A q \in memberOf'[Root(x)'] : project'[q] = "trashed"
    BY DEF TrashFollowsProjects
  <2>1. x \notin gone /\ Root(x) \notin gone /\ Root(x)' = Root(x)
    BY <1>1, <1>2 DEF Root, Without
  <2> QED BY <1>2, <2>1, WaitingFacts DEF Without
<1>5. ActiveTaskHasActiveProject'
  BY <1>1, <1>2 DEF TrashInv, ActiveTaskHasActiveProject, Without
<1>6. FamilyTrashedTogether'
  BY <1>1, <1>2 DEF TrashInv, TypeOK, FamilyTrashedTogether, Nested, Without
<1> QED BY <1>3, <1>4, <1>5, <1>6 DEF TrashInv

LEMMA CreateProjectInv ==
    ASSUME TrashInv, TypeOK', NEW u \in User, NEW p \in Project, NEW o, NEW members,
           CreateProject(u, p, o, members)
    PROVE  TrashInv'
<1>1. /\ UNCHANGED <<task, parent, memberOf, deletedWith>>
      /\ project[p] = "unborn" /\ project' = [project EXCEPT ![p] = "active"]
  BY DEF CreateProject, trashVars
<1> QED BY <1>1, StillInv DEF TrashInv, TypeOK

LEMMA DeleteProjectInv ==
    ASSUME TrashInv, TypeOK', NEW u \in User, NEW p \in Project, DeleteProject(u, p)
    PROVE  TrashInv'
<1> DEFINE S == {t \in Task : task[t] = "active" /\ {t, parent[t]} \cap Exclusive(p) # {}}
<1>1. /\ UNCHANGED <<parent, memberOf>>
      /\ project[p] = "active" /\ project' = [project EXCEPT ![p] = "trashed"]
      /\ task' = [t \in Task |-> IF t \in S THEN "trashed" ELSE task[t]]
      /\ deletedWith' = [t \in Task |-> IF t \in S THEN p ELSE deletedWith[t]]
  BY DEF DeleteProject, ToTrash, CanManageProject
<1>2. \A q \in Project : project'[q] = IF q = p THEN "trashed" ELSE project[q]
  BY <1>1 DEF TrashInv, TypeOK
\* Exclusive tasks have no other project than p and those already in the trash.
<1>3. \A t \in Exclusive(p) :
          /\ t \in S /\ parent[t] = None /\ p \in memberOf[t]
          /\ \A q \in memberOf[t] : project'[q] = "trashed"
  BY <1>2 DEF Exclusive, Roots, LiveProjects, TrashInv, TypeOK
<1>4. /\ S \subseteq Task
      /\ \A t \in S : /\ task[t] = "active"
                      /\ Root(t) \in Exclusive(p)
      /\ \A t \in Task : task[t] = "active" /\ t \notin S
                            => t \notin Exclusive(p) /\ parent[t] \notin Exclusive(p)
  BY <1>3, NoneAssumption DEF Root, Exclusive, Roots
<1> HIDE DEF S
<1>5. SubtasksFollowTheirParent'
  BY <1>1, <1>4 DEF TrashInv, TypeOK, SubtasksFollowTheirParent
<1>6. TrashFollowsProjects'
  <2> SUFFICES ASSUME NEW x \in Task, deletedWith'[x] # None
               PROVE  /\ task'[x] = "trashed"
                      /\ deletedWith'[Root(x)] = deletedWith'[x]
                      /\ deletedWith'[x] \in memberOf[Root(x)]
                      /\ \A q \in memberOf[Root(x)] : project'[q] = "trashed"
    BY <1>1 DEF TrashFollowsProjects, Root
  <2>1. CASE x \in S
    BY <1>1, <1>3, <1>4, <2>1
  <2>2. CASE x \notin S
    <3>1. deletedWith[x] # None /\ Root(x) \notin S
      BY <1>1, <1>4, <2>2, WaitingFacts
    <3> QED BY <1>1, <1>2, <2>2, <3>1, WaitingFacts DEF TrashInv, TypeOK
  <2> QED BY <2>1, <2>2
<1>7. ActiveTaskHasActiveProject'
  <2> SUFFICES ASSUME NEW x \in Task, task'[x] = "active", memberOf[x] # {}
               PROVE  \E q \in memberOf[x] : project'[q] = "active"
    BY <1>1 DEF ActiveTaskHasActiveProject
  <2>1. task[x] = "active" /\ x \notin Exclusive(p) /\ parent[x] = None
    BY <1>1, <1>4 DEF TrashInv, SubtasksFollowTheirParent
  <2>2. CASE p \in memberOf[x]
    <3>1. LiveProjects(x) \ {p} # {}
      BY <2>1, <2>2 DEF Exclusive, Roots
    <3>2. \E q \in memberOf[x] : project[q] = "active" /\ q # p
      BY <3>1 DEF LiveProjects
    <3>3. memberOf[x] \subseteq Project
      BY DEF TrashInv, TypeOK
    <3> QED BY <1>2, <3>2, <3>3
  <2>3. CASE p \notin memberOf[x]
    <3>1. \E q \in memberOf[x] : project[q] = "active" /\ q # p
      BY <2>1, <2>3 DEF TrashInv, ActiveTaskHasActiveProject
    <3>2. memberOf[x] \subseteq Project
      BY DEF TrashInv, TypeOK
    <3> QED BY <1>2, <3>1, <3>2
  <2> QED BY <2>2, <2>3
<1>8. FamilyTrashedTogether'
  <2> SUFFICES ASSUME NEW x \in Task, task'[x] = "active", parent[x] # None, ~Nested(x)
               PROVE  task'[parent[x]] = "active"
    BY <1>1 DEF FamilyTrashedTogether, Nested
  <2>1. task[x] = "active" /\ parent[x] \notin Exclusive(p)
    BY <1>1, <1>4
  <2>2. parent[x] \in Task /\ parent[parent[x]] = None /\ task[parent[x]] = "active"
    BY <2>1 DEF TrashInv, TypeOK, FamilyTrashedTogether, Nested
  <2>3. parent[x] \notin S
    BY <1>4, <2>1, <2>2 DEF Root
  <2> QED BY <1>1, <2>2, <2>3
<1> QED BY <1>5, <1>6, <1>7, <1>8 DEF TrashInv

LEMMA RestoreProjectInv ==
    ASSUME TrashInv, TypeOK', NEW u \in User, NEW p \in Project, RestoreProject(u, p)
    PROVE  TrashInv'
<1> DEFINE roots == ComesBack(p)
           back  == roots \cup {t \in Task : /\ parent[t] \in roots
                                             /\ deletedWith[t] = deletedWith[parent[t]]}
<1>1. /\ UNCHANGED <<parent, memberOf>>
      /\ project[p] = "trashed" /\ project' = [project EXCEPT ![p] = "active"]
      /\ task' = [t \in Task |-> IF t \in back THEN "active" ELSE task[t]]
      /\ deletedWith' = [t \in Task |-> IF t \in back THEN None ELSE deletedWith[t]]
  BY DEF RestoreProject, OutOfTrash
<1>2. \A q \in Project : project'[q] = IF q = p THEN "active" ELSE project[q]
  BY <1>1 DEF TrashInv, TypeOK
<1>3. /\ roots \subseteq Task /\ back \subseteq Task /\ roots \subseteq back
      /\ \A t \in roots : parent[t] = None /\ deletedWith[t] # None
      /\ \A t \in back : t \in roots \/ parent[t] \in roots
  BY NoneAssumption DEF ComesBack, Roots
\* Whatever comes back is a task of p: those deleted with p are tasks of p.
<1>4. \A t \in roots : p \in memberOf[t]
  BY <1>3, WaitingFacts DEF ComesBack, Roots, Root
\* Whatever stays behind is no task of p.
<1>5. ASSUME NEW x \in Task, x \notin back, deletedWith[x] # None
      PROVE  Root(x) \notin back /\ p \notin memberOf[Root(x)]
  <2>1. Root(x) \in back => Root(x) \in roots
    BY <1>3, <1>5, WaitingFacts, NoneAssumption
  <2>2. Root(x) \notin roots
    <3>1. x = Root(x) \/ parent[x] = Root(x)
      BY DEF Root
    <3>2. deletedWith[x] = deletedWith[Root(x)]
      BY <1>5, WaitingFacts
    <3> QED BY <1>3, <1>5, <3>1, <3>2
  <2>3. p \in memberOf[Root(x)] => Root(x) \in roots
    BY <1>5, WaitingFacts DEF ComesBack, Roots
  <2> QED BY <2>1, <2>2, <2>3
<1> HIDE DEF roots, back
<1>6. SubtasksFollowTheirParent'
  BY <1>1 DEF TrashInv, TypeOK, SubtasksFollowTheirParent
<1>7. TrashFollowsProjects'
  <2> SUFFICES ASSUME NEW x \in Task, deletedWith'[x] # None
               PROVE  /\ task'[x] = "trashed"
                      /\ deletedWith'[Root(x)] = deletedWith'[x]
                      /\ deletedWith'[x] \in memberOf[Root(x)]
                      /\ \A q \in memberOf[Root(x)] : project'[q] = "trashed"
    BY <1>1 DEF TrashFollowsProjects, Root
  <2>1. x \notin back /\ deletedWith[x] # None
    BY <1>1
  <2> QED BY <1>1, <1>2, <1>5, <2>1, WaitingFacts DEF TrashInv, TypeOK
<1>8. ActiveTaskHasActiveProject'
  <2> SUFFICES ASSUME NEW x \in Task, task'[x] = "active", memberOf[x] # {}
               PROVE  \E q \in memberOf[x] : project'[q] = "active"
    BY <1>1 DEF ActiveTaskHasActiveProject
  <2>1. CASE x \in back
    <3>1. x \in roots
      BY <1>3, <2>1, NoneAssumption DEF TrashInv, SubtasksFollowTheirParent
    <3> QED BY <1>2, <1>4, <3>1
  <2>2. CASE x \notin back
    BY <1>1, <1>2, <2>2 DEF TrashInv, TypeOK, ActiveTaskHasActiveProject
  <2> QED BY <2>1, <2>2
<1>9. FamilyTrashedTogether'
  <2> SUFFICES ASSUME NEW x \in Task, task'[x] = "active", parent[x] # None, ~Nested(x)
               PROVE  task'[parent[x]] = "active"
    BY <1>1 DEF FamilyTrashedTogether, Nested
  <2>1. CASE x \in back
    BY <1>1, <1>3, <2>1
  <2>2. CASE x \notin back
    BY <1>1, <2>2 DEF TrashInv, TypeOK, FamilyTrashedTogether
  <2> QED BY <2>1, <2>2
<1> QED BY <1>6, <1>7, <1>8, <1>9 DEF TrashInv

\* Under the invariant, a purge of p frees and brings back nothing: a task of p
\* that is not erased has an active project already, or waits for p and now
\* waits for another project of the trash.
LEMMA PurgeFacts ==
    ASSUME TrashInv, NEW p \in Project, project[p] = "trashed"
    PROVE  /\ Restored(p) = {}
           /\ \A t \in Follows(p) : deletedWith[t] = p /\ task[t] = "trashed"
<1>1. ASSUME NEW t \in Task, parent[t] = None, deletedWith[t] = p
      PROVE  LiveProjects(t) = {}
  BY <1>1, NoneAssumption, WaitingFacts DEF Root, LiveProjects
<1>2. Restored(p) = {}
  BY <1>1 DEF Restored, Concerned, Roots, Others
<1>3. ASSUME NEW t \in Follows(p)
      PROVE  deletedWith[t] = p
  <2>1. t \in Task /\ (deletedWith[t] = p \/ (task[t] = "active" /\ memberOf[t] # {}))
    BY DEF Follows, Concerned, Roots, Purged, Others
  <2>2. \A q \in memberOf[t] : project[q] = "active" => q = p
    BY <2>1 DEF Follows, Others, LiveProjects
  <2> QED BY <2>1, <2>2 DEF TrashInv, ActiveTaskHasActiveProject
<1>4. \A t \in Follows(p) : task[t] = "trashed"
  BY <1>3, NoneAssumption, WaitingFacts DEF Follows, Concerned, Roots
<1> QED BY <1>2, <1>3, <1>4

LEMMA PurgeProjectInv ==
    ASSUME TrashInv, TypeOK', NEW u \in User, NEW p \in Project, PurgeProject(u, p)
    PROVE  TrashInv'
<1> DEFINE gone  == Cascade(Purged(p))
           moved == {t \in Task : \E r \in Follows(p) : With(t, r, p)}
           home(t) == First(Others(IF t \in Follows(p) THEN t ELSE parent[t], p))
<1>1. /\ project[p] = "trashed" /\ project' = [project EXCEPT ![p] = "erased"]
      /\ Erase(Purged(p))
      /\ memberOf' = [t \in Task |-> IF t \in gone THEN {} ELSE memberOf[t] \ {p}]
  BY DEF PurgeProject
<1>2. /\ Restored(p) = {}
      /\ \A t \in Follows(p) : /\ deletedWith[t] = p /\ task[t] = "trashed"
                               /\ t \in Task /\ parent[t] = None
                               /\ First(Others(t, p)) \in memberOf[t] \ {p}
                               /\ First(Others(t, p)) \in Project
  BY <1>1, PurgeFacts, FollowsFacts DEF TrashInv
<1>3. /\ task' = [t \in Task |-> IF t \in gone THEN "erased"
                                 ELSE IF t \in moved THEN "trashed" ELSE task[t]]
      /\ deletedWith' = [t \in Task |-> IF t \in moved \ gone THEN home(t)
                                        ELSE IF t \in gone \/ deletedWith[t] = p
                                        THEN None ELSE deletedWith[t]]
  BY <1>2 DEF PurgeProject
<1>4. /\ gone \subseteq Task
      /\ \A x \in Task : parent[x] \in gone => x \in gone
      /\ \A x \in gone : x \in Purged(p) \/ parent[x] \in gone
      /\ parent' = Without(parent, gone, None)
  BY <1>1, CascadeFacts, FollowsFacts DEF Erase, TrashInv
<1>5. \A t \in moved : deletedWith[t] = p /\ task[t] = "trashed" /\ Root(t) \in Follows(p)
  BY <1>2, WaitingFacts, NoneAssumption DEF With, Root
<1>6. \A r \in Follows(p) : r \notin gone
  BY <1>2, <1>4, FollowsFacts, NoneAssumption DEF TrashInv
<1>7. \A q \in Project : project'[q] = IF q = p THEN "erased" ELSE project[q]
  BY <1>1 DEF TrashInv, TypeOK
<1>8. \A x \in Task \ gone : x \notin moved => task'[x] = task[x]
  BY <1>3
<1>9. \A x \in Task : task'[x] = "active" => x \notin gone /\ task[x] = "active"
  BY <1>3
<1>10. \A x \in Task \ gone : Root(x)' = Root(x) /\ Root(x) \notin gone /\ Root(x) \in Task
  BY <1>4 DEF Root, Without, TrashInv, TypeOK
<1> HIDE DEF gone, moved
<1>11. SubtasksFollowTheirParent'
  <2> SUFFICES ASSUME NEW x \in Task, parent'[x] # None
               PROVE  memberOf'[x] = {} /\ Present(task'[parent'[x]])
    BY DEF SubtasksFollowTheirParent
  <2>1. x \notin gone /\ parent'[x] = parent[x] /\ parent[x] \notin gone /\ parent[x] \in Task
    BY <1>4 DEF Without, TrashInv, TypeOK
  <2>2. memberOf[x] = {} /\ Present(task[parent[x]])
    BY <2>1 DEF TrashInv, SubtasksFollowTheirParent
  <2> QED BY <1>1, <1>3, <2>1, <2>2
<1>12. TrashFollowsProjects'
  <2> SUFFICES ASSUME NEW x \in Task, deletedWith'[x] # None
               PROVE  /\ task'[x] = "trashed"
                      /\ deletedWith'[Root(x)'] = deletedWith'[x]
                      /\ deletedWith'[x] \in memberOf'[Root(x)']
                      /\ \A q \in memberOf'[Root(x)'] : project'[q] = "trashed"
    BY DEF TrashFollowsProjects
  <2>1. x \notin gone /\ Root(x)' = Root(x) /\ Root(x) \notin gone /\ Root(x) \in Task
    BY <1>3, <1>10
  <2>2. memberOf'[Root(x)] = memberOf[Root(x)] \ {p}
    BY <1>1, <2>1
  <2>3. deletedWith[x] # None
    BY <1>3, <1>5, <2>1, NoneAssumption
  <2>4. task'[x] = "trashed" /\ \A q \in memberOf'[Root(x)] : project'[q] = "trashed"
    BY <1>3, <1>7, <2>1, <2>2, <2>3, WaitingFacts DEF TrashInv, TypeOK
  <2>5. CASE x \in moved
    <3>1. Root(x) \in Follows(p) /\ home(x) = First(Others(Root(x), p))
      BY <1>2, <1>5, <2>5 DEF Root
    <3>2. Root(x) \in moved /\ home(Root(x)) = home(x)
      BY <1>2, <3>1 DEF moved, With
    <3> QED BY <1>2, <1>3, <2>1, <2>2, <2>4, <2>5, <3>1, <3>2
  <2>6. CASE x \notin moved
    <3>1. deletedWith'[x] = deletedWith[x] /\ deletedWith[x] # p
      BY <1>3, <2>1, <2>6
    <3>2. Root(x) \notin moved /\ deletedWith'[Root(x)] = deletedWith[x]
      BY <1>3, <1>5, <2>1, <2>3, <3>1, WaitingFacts
    <3> QED BY <2>1, <2>2, <2>3, <2>4, <3>1, <3>2, WaitingFacts
  <2> QED BY <2>5, <2>6
<1>13. ActiveTaskHasActiveProject'
  <2> SUFFICES ASSUME NEW x \in Task, task'[x] = "active", memberOf'[x] # {}
               PROVE  \E q \in memberOf'[x] : project'[q] = "active"
    BY DEF ActiveTaskHasActiveProject
  <2>1. PICK q \in memberOf[x] : project[q] = "active"
    BY <1>1, <1>9 DEF TrashInv, ActiveTaskHasActiveProject
  <2> QED BY <1>1, <1>7, <1>9, <2>1 DEF TrashInv, TypeOK
<1>14. FamilyTrashedTogether'
  <2> SUFFICES ASSUME NEW x \in Task, task'[x] = "active", parent'[x] # None, ~Nested(x)'
               PROVE  task'[parent'[x]] = "active"
    BY DEF FamilyTrashedTogether
  <2>1. x \notin gone /\ task[x] = "active" /\ parent'[x] = parent[x] /\ parent[x] \in Task
        /\ parent[x] \notin gone
    BY <1>4, <1>9 DEF Without, TrashInv, TypeOK
  <2>2. parent'[parent[x]] = parent[parent[x]]
    BY <1>4, <2>1 DEF Without
  <2>3. task[parent[x]] = "active"
    BY <2>1, <2>2 DEF TrashInv, FamilyTrashedTogether, Nested
  <2> QED BY <1>5, <1>8, <2>1, <2>3
<1> QED BY <1>11, <1>12, <1>13, <1>14 DEF TrashInv

LEMMA NextInv == TrashInv /\ [Next]_vars => TrashInv'
<1> SUFFICES ASSUME TrashInv, [Next]_vars
             PROVE  TrashInv'
  OBVIOUS
<1>1. TypeOK'
  BY NextType DEF TrashInv
<1>2. ASSUME NEW u \in User, ProjectStep(u)
      PROVE  TrashInv'
  <2> PICK p \in Project : ProjectStep(u)!(p)
    BY <1>2 DEF ProjectStep
  <2>1. CASE \/ \E v \in User, r \in Role \cup {None} : SetProjectMember(u, p, v, r)
             \/ \E v \in User \cup {None} : SetProjectOwner(u, p, v)
             \/ SetProjectArchived(u, p)
             \/ PreviewProjectPurge(u, p)
             \/ PurgeProjectRefused(u, p)
    <3>1. UNCHANGED <<project, task, parent, memberOf, deletedWith>>
      BY <2>1 DEF SetProjectMember, SetProjectOwner, SetProjectArchived,
                  PreviewProjectPurge, PurgeProjectRefused, trashVars
    <3> QED BY <1>1, <3>1, StillInv
  <2> QED BY <1>1, <2>1, CreateProjectInv, DeleteProjectInv, RestoreProjectInv, PurgeProjectInv
<1>3. ASSUME NEW u \in User, TaskStep(u)
      PROVE  TrashInv'
  <2> PICK t \in Task : TaskStep(u)!(t)
    BY <1>3 DEF TaskStep
  <2>1. CASE \E par \in Task \cup {None}, p \in Project \cup {None}, a \in User \cup {None},
                kids \in SUBSET Unborn : CreateTask(u, t, par, p, a, kids)
    BY <1>1, <2>1, CreateTaskInv
  <2>2. ASSUME NEW withKids \in BOOLEAN, NEW f \in Copies(t, withKids), DuplicateTask(u, t, f)
        PROVE  TrashInv'
    <3> DEFINE kept == {p \in memberOf[t] : CanEditProjectContent(u, p)}
    <3>1. task[t] = "active" /\ task[Root(t)] = "active"
          /\ InsertCopies(t, f, kept, [x \in Task |-> u], {})
      BY <2>2 DEF DuplicateTask, CanManage, CanRead
    <3>2. memberOf[t] # {} => \E p \in kept : project[p] = "active"
      BY <2>2 DEF DuplicateTask, CanEditProjectContent
    <3> QED BY <1>1, <3>1, <3>2, CopyInv
  <2>3. ASSUME NEW f \in Copies(t, TRUE), SpawnNextOccurrence(u, t, f)
        PROVE  TrashInv'
    <3>1. task[t] = "active" /\ task[Root(t)] = "active"
          /\ InsertCopies(t, f, memberOf[t], creator, collaborators[t])
      BY <2>3 DEF SpawnNextOccurrence, CanEdit, CanRead
    <3>2. memberOf[t] # {} => \E p \in memberOf[t] : project[p] = "active"
      BY <3>1 DEF TrashInv, ActiveTaskHasActiveProject
    <3> QED BY <1>1, <3>1, <3>2, CopyInv
  <2>4. CASE \/ \E v \in User \cup {None} : AssignTask(u, t, v)
             \/ \E v \in User, on \in BOOLEAN : SetCollaborator(u, t, v, on)
    <3>1. UNCHANGED <<project, task, parent, memberOf, deletedWith>>
      BY <2>4 DEF AssignTask, SetCollaborator, trashVars
    <3> QED BY <1>1, <3>1, StillInv
  <2> QED BY <1>1, <2>1, <2>2, <2>3, <2>4, MoveInv, TaskTrashInv, PurgeTaskInv
<1>4. ASSUME UNCHANGED vars
      PROVE  TrashInv'
  BY <1>1, <1>4, StillInv DEF vars
<1> QED BY <1>2, <1>3, <1>4 DEF Next

\* The invariant of the two trashes holds in every reachable state.
THEOREM TrashInvariant == Spec => []TrashInv
<1>1. Init => TrashInv
  BY InitType DEF Init, TrashInv, SubtasksFollowTheirParent, TrashFollowsProjects,
                  ActiveTaskHasActiveProject, FamilyTrashedTogether
<1> QED BY <1>1, NextInv, PTL DEF Spec

\* A task that went to the trash with a project waits there for one of its
\* projects, all of them in the trash: it is stranded by no order of deletes,
\* restores and purges.
THEOREM TrashFollows == Spec => []TrashFollowsProjects
BY TrashInvariant, PTL DEF TrashInv

\* A subtask never has a project of its own, nor a parent that is gone.
THEOREM SubtasksFollow == Spec => []SubtasksFollowTheirParent
BY TrashInvariant, PTL DEF TrashInv

\* No sequence of operations leaves an active task with projects that are all
\* in the trash.
THEOREM ActiveTasksAreSeen == Spec => []ActiveTaskHasActiveProject
BY TrashInvariant, PTL DEF TrashInv

\* No subtask of a main task stays active under a parent of the trash.
THEOREM FamiliesTogether == Spec => []FamilyTrashedTogether
BY TrashInvariant, PTL DEF TrashInv

-----------------------------------------------------------------------------
(* What a step may erase and free.  TrashInv says of the state before what  *)
(* a purge relies on; the rest is what each operation writes.               *)

\* Only purges erase: any other step leaves a row that is not erased so, and
\* erases no project.
Spares ==
    /\ \A t \in Task : ~GoneNow(t)
    /\ \A p \in Project : ~ProjectPurgedNow(p)

LEMMA SparesFacts ==
    Spares => ErasedFromTrash /\ ErasedAsPreviewed
BY DEF Spares, ErasedFromTrash, ErasedAsPreviewed

\* Going to the trash and coming back erase no row.
LEMMA TrashSpares ==
    ASSUME TypeOK, NEW S, (\E u, p : ToTrash(S, u, p)) \/ OutOfTrash(S)
    PROVE  \A t \in Task : ~GoneNow(t)
BY DEF ToTrash, OutOfTrash, GoneNow, TypeOK

LEMMA ProjectSpares ==
    ASSUME TrashInv, NEW u \in User, NEW p \in Project, ProjectStep(u)!(p)
    PROVE  Spares \/ PurgeProject(u, p)
<1> USE DEF GoneNow, ProjectPurgedNow, Spares
<1>1. ASSUME NEW o \in User, NEW members \in SUBSET User, CreateProject(u, p, o, members)
      PROVE  Spares
  BY <1>1 DEF CreateProject, TrashInv, TypeOK
<1>2. CASE \/ \E v \in User, r \in Role \cup {None} : SetProjectMember(u, p, v, r)
           \/ \E v \in User \cup {None} : SetProjectOwner(u, p, v)
           \/ SetProjectArchived(u, p)
           \/ PreviewProjectPurge(u, p)
           \/ PurgeProjectRefused(u, p)
  <2>1. UNCHANGED <<project, task>>
    BY <1>2 DEF SetProjectMember, SetProjectOwner, SetProjectArchived,
                PreviewProjectPurge, PurgeProjectRefused
  <2> QED BY <2>1
<1>3. CASE DeleteProject(u, p)
  <2>1. project' = [project EXCEPT ![p] = "trashed"]
        /\ \E S : ToTrash(S, u, p)
    BY <1>3 DEF DeleteProject
  <2> QED BY <2>1, TrashSpares DEF TrashInv, TypeOK
<1>4. CASE RestoreProject(u, p)
  <2>1. project' = [project EXCEPT ![p] = "active"]
        /\ \E S : OutOfTrash(S)
    BY <1>4 DEF RestoreProject
  <2> QED BY <2>1, TrashSpares DEF TrashInv, TypeOK
<1> QED BY <1>1, <1>2, <1>3, <1>4

LEMMA TaskSpares ==
    ASSUME TrashInv, NEW u \in User, NEW t \in Task, TaskStep(u)!(t)
    PROVE  Spares \/ PurgeTask(u, t)
<1> USE DEF GoneNow, ProjectPurgedNow, Spares
<1>1. ASSUME NEW par, NEW p, NEW a, NEW kids, CreateTask(u, t, par, p, a, kids)
      PROVE  Spares
  <2>1. UNCHANGED project /\ \A x \in Task : task'[x] \in {"active", task[x]}
    BY <1>1 DEF CreateTask
  <2> QED BY <2>1
<1>2. ASSUME NEW f, NEW ps, NEW by, NEW cs, InsertCopies(t, f, ps, by, cs)
      PROVE  Spares
  <2>1. UNCHANGED project /\ \A x \in Task : task'[x] \in {"active", task[x]}
    BY <1>2 DEF InsertCopies
  <2> QED BY <2>1
<1>3. CASE \/ \E v \in User \cup {None} : AssignTask(u, t, v)
           \/ \E v \in User, on \in BOOLEAN : SetCollaborator(u, t, v, on)
           \/ \E p \in Project : MoveTask(u, t, p)
           \/ \E p \in Project : RemoveTaskFromProject(u, t, p)
           \/ \E q \in Task : MakeSubtask(u, t, q)
           \/ MakeTask(u, t)
  <2>1. UNCHANGED <<project, task>>
    BY <1>3 DEF AssignTask, SetCollaborator, MoveTask, RemoveTaskFromProject, MakeSubtask, MakeTask
  <2> QED BY <2>1
<1>4. CASE DeleteTask(u, t) \/ RestoreTask(u, t)
  <2>1. UNCHANGED project /\ \E S : ToTrash(S, u, None) \/ OutOfTrash(S)
    BY <1>4 DEF DeleteTask, RestoreTask
  <2> QED BY <2>1, TrashSpares DEF TrashInv
<1>5. CASE \/ \E withKids \in BOOLEAN : \E f \in Copies(t, withKids) : DuplicateTask(u, t, f)
           \/ \E f \in Copies(t, TRUE) : SpawnNextOccurrence(u, t, f)
  BY <1>2, <1>5 DEF DuplicateTask, SpawnNextOccurrence
<1> QED BY <1>1, <1>3, <1>4, <1>5

\* A task purged alone was in the trash, and the subtasks that go with it too.
LEMMA PurgeTaskErases ==
    ASSUME TrashInv, NEW u \in User, NEW t \in Task, PurgeTask(u, t)
    PROVE  ErasedFromTrash /\ ErasedAsPreviewed
<1>1. /\ task[t] = "trashed" /\ project' = project
      /\ task' = Without(task, Cascade({t}), "erased")
  BY DEF PurgeTask
<1>2. \A p \in Project : ~ProjectPurgedNow(p)
  BY <1>1 DEF ProjectPurgedNow
<1>3. ASSUME NEW x \in Task, GoneNow(x)
      PROVE  task[x] = "trashed" \/ Nested(x)
  <2>1. x \in Cascade({t})
    BY <1>1, <1>3 DEF Without, GoneNow
  <2>2. x = t \/ parent[x] \in Cascade({t})
    BY <2>1, CascadeFacts
  <2>3. CASE x = t
    BY <1>1, <2>3
  <2>4. CASE parent[x] = t /\ parent[t] = None
    <3>1. task[x] # "active"
      BY <1>1, <2>4, NoneAssumption DEF TrashInv, FamilyTrashedTogether, Nested
    <3>2. Present(task[x])
      BY <2>4, NoneAssumption DEF TrashInv, TypeOK
    <3> QED BY <3>1, <3>2
  <2>5. CASE parent[x] \in Cascade({t}) /\ (parent[x] # t \/ parent[t] # None)
    <3>1. parent[x] \in Task
      BY <2>5, CascadeFacts
    <3>2. parent[x] = t \/ parent[parent[x]] \in Cascade({t})
      BY <2>5, CascadeFacts
    <3>3. Cascade({t}) \subseteq Task
      BY CascadeFacts
    <3> QED BY <2>5, <3>1, <3>2, <3>3, NoneAssumption DEF Nested
  <2> QED BY <2>2, <2>3, <2>4, <2>5
<1> QED BY <1>2, <1>3 DEF ErasedFromTrash, ErasedAsPreviewed

\* What a purge of p decides to erase: main tasks with no other project, all
\* of them waiting for p or in the trash with it.
LEMMA PurgedFacts ==
    ASSUME TrashInv, NEW p \in Project, project[p] = "trashed", NEW x \in Purged(p)
    PROVE  /\ x \in Task /\ parent[x] = None
           /\ Present(task[x])
           /\ memberOf[x] = {p}
<1>1. x \in Task /\ parent[x] = None /\ memberOf[x] \subseteq {p}
      /\ \/ p \in memberOf[x] /\ Present(task[x])
         \/ deletedWith[x] = p
  BY DEF Purged, Concerned, Roots, Others
<1>2. CASE p \in memberOf[x] /\ Present(task[x])
  BY <1>1, <1>2
<1>3. CASE deletedWith[x] = p
  <2>1. deletedWith[x] # None
    BY <1>3, NoneAssumption
  <2>2. task[x] = "trashed" /\ deletedWith[x] \in memberOf[Root(x)]
    BY <1>1, <2>1, WaitingFacts
  <2> QED BY <1>1, <1>3, <2>2 DEF Root
<1> QED BY <1>1, <1>2, <1>3

LEMMA PurgeProjectErases ==
    ASSUME TrashInv, NEW u \in User, NEW p \in Project, PurgeProject(u, p)
    PROVE  ErasedFromTrash /\ ErasedAsPreviewed
<1> DEFINE gone == Cascade(Purged(p))
<1>1. /\ project[p] = "trashed" /\ project' = [project EXCEPT ![p] = "erased"]
      /\ preview[p] = PurgeScope(p)
      /\ \A x \in Task : task'[x] = "erased" <=> x \in gone \/ task[x] = "erased"
  <2>1. /\ project[p] = "trashed" /\ project' = [project EXCEPT ![p] = "erased"]
        /\ preview[p] = PurgeScope(p)
    BY DEF PurgeProject
  <2>2. /\ Restored(p) = {}
        /\ \A r \in Follows(p) : deletedWith[r] = p /\ task[r] = "trashed"
    BY <2>1, PurgeFacts
  <2> DEFINE moved == {t \in Task : \E r \in Follows(p) : With(t, r, p)}
  <2>3. task' = [t \in Task |-> IF t \in gone THEN "erased"
                                ELSE IF t \in moved THEN "trashed" ELSE task[t]]
    BY <2>2 DEF PurgeProject
  <2>4. \A x \in moved : task[x] = "trashed"
    BY <2>2, WaitingFacts, NoneAssumption DEF With
  <2> HIDE DEF moved, gone
  <2> QED BY <2>1, <2>3, <2>4
<1>2. \A q \in Project : ProjectPurgedNow(q) <=> q = p
  BY <1>1 DEF ProjectPurgedNow, TrashInv, TypeOK
<1>3. /\ Purged(p) \subseteq gone /\ gone \subseteq Task
      /\ \A c \in Task : parent[c] \in gone => c \in gone
      /\ \A x \in gone : x \in Purged(p) \/ parent[x] \in gone
  BY CascadeFacts, FollowsFacts DEF TrashInv
<1>4. \A x \in Purged(p) : /\ x \in Task /\ parent[x] = None
                           /\ Present(task[x]) /\ memberOf[x] = {p}
  BY <1>1, PurgedFacts
<1>5. ASSUME NEW x \in gone
      PROVE  x \in Purged(p) \/ parent[x] \in Purged(p) \/ Nested(x)
  BY <1>3, <1>5, NoneAssumption DEF Nested
<1>6. \A x \in gone : Present(task[x])
  BY <1>3, <1>4, NoneAssumption DEF TrashInv, TypeOK
<1>7. \A x \in Task : GoneNow(x) <=> x \in gone
  BY <1>1, <1>6 DEF GoneNow
<1>8. ASSUME NEW x \in gone
      PROVE  /\ \/ Nested(x)
                \/ /\ memberOf[Root(x)] # {}
                   /\ \A q \in memberOf[Root(x)] : project[q] = "trashed"
             /\ memberOf[x] \subseteq {p}
  <2>1. x \in Task
    BY <1>3
  <2>2. CASE x \in Purged(p)
    <3>1. memberOf[x] = {p} /\ Root(x) = x
      BY <1>4, <2>2 DEF Root
    <3> QED BY <1>1, <3>1
  <2>3. CASE parent[x] \in Purged(p)
    <3>1. memberOf[parent[x]] = {p} /\ Root(x) = parent[x] /\ parent[x] # None
      BY <1>4, <2>3, NoneAssumption DEF Root
    <3>2. memberOf[x] = {}
      BY <2>1, <3>1 DEF TrashInv, SubtasksFollowTheirParent
    <3> QED BY <1>1, <3>1, <3>2
  <2>4. CASE Nested(x)
    <3>1. memberOf[x] = {}
      BY <2>1, <2>4 DEF Nested, TrashInv, SubtasksFollowTheirParent
    <3> QED BY <2>4, <3>1
  <2> QED BY <1>5, <2>2, <2>3, <2>4
<1>9. (\A x \in Task : ~Nested(x)) => gone = Announced(p)
  BY <1>3, <1>5, <1>4 DEF Announced
<1>10. ErasedFromTrash
  BY <1>2, <1>7, <1>8 DEF ErasedFromTrash
<1>11. ErasedAsPreviewed
  <2>1. {x \in Task : GoneNow(x)} = gone
    BY <1>3, <1>7
  <2>2. preview[p].erased = Announced(p)
    BY <1>1 DEF PurgeScope
  <2> QED BY <1>2, <1>9, <2>1, <2>2 DEF ErasedAsPreviewed
<1> QED BY <1>10, <1>11

LEMMA NextErases ==
    TrashInv /\ [Next]_vars => ErasedFromTrash /\ ErasedAsPreviewed
<1> SUFFICES ASSUME TrashInv, [Next]_vars
             PROVE  ErasedFromTrash /\ ErasedAsPreviewed
  OBVIOUS
<1>1. ASSUME NEW u \in User, ProjectStep(u)
      PROVE  ErasedFromTrash /\ ErasedAsPreviewed
  <2> PICK p \in Project : ProjectStep(u)!(p)
    BY <1>1 DEF ProjectStep
  <2>1. Spares \/ PurgeProject(u, p)
    BY ProjectSpares
  <2> QED BY <2>1, SparesFacts, PurgeProjectErases
<1>2. ASSUME NEW u \in User, TaskStep(u)
      PROVE  ErasedFromTrash /\ ErasedAsPreviewed
  <2> PICK t \in Task : TaskStep(u)!(t)
    BY <1>2 DEF TaskStep
  <2>1. Spares \/ PurgeTask(u, t)
    BY TaskSpares
  <2> QED BY <2>1, SparesFacts, PurgeTaskErases
<1>3. ASSUME UNCHANGED vars
      PROVE  ErasedFromTrash /\ ErasedAsPreviewed
  BY <1>3, SparesFacts DEF vars, Spares, GoneNow, ProjectPurgedNow
<1> QED BY <1>1, <1>2, <1>3 DEF Next

\* Whatever the order of deletions, restores and purges, a row that a purge
\* erases was in the trash, or had every project in the trash; and a purge of a
\* project takes no task that another project holds.
THEOREM OnlyTrashErased == Spec => OnlyTrashIsErased
<1>1. TrashInv /\ [Next]_vars => [ErasedFromTrash]_vars
  BY NextErases
<1> QED BY <1>1, TrashInvariant, PTL DEF Spec, OnlyTrashIsErased

\* As long as no subtask hangs under a subtask, what the purge of a project
\* erases is the set of tasks its owner was shown.
THEOREM ErasedAnnounced == Spec => ErasedAsAnnounced
<1>1. TrashInv /\ [Next]_vars => [ErasedAsPreviewed]_vars
  BY NextErases
<1> QED BY <1>1, TrashInvariant, PTL DEF Spec, ErasedAsAnnounced

-----------------------------------------------------------------------------
(* What a step may do to the people who read a task.                       *)

\* Steps that leave every task of before in its place: same main task, same
\* projects.
KeepsPlaces ==
    \A t \in Task : Present(task[t]) /\ Present(task'[t]) =>
        Root(t)' = Root(t) /\ memberOf'[Root(t)] = memberOf[Root(t)]

\* The founder of a project never changes while the project is there.
KeepsFounders ==
    \A p \in Project : Present(project[p]) /\ Present(project'[p]) => founder'[p] = founder[p]

\* The people a main task s shows to when ps are its projects, by today's rights.
WouldRead(ps, s) ==
    {u \in User : \/ \E p \in ps : role[p][u] # None \/ IsProjectOwner(u, p)
                  \/ ps = {} /\ u \in Involved(s)}

\* A main task that is there has a place: itself or its parent, which is there.
LEMMA RootFacts ==
    ASSUME TrashInv, NEW t \in Task
    PROVE  /\ Root(t) \in Task
           /\ Present(task[t]) => Present(task[Root(t)])
           /\ \A p \in memberOf[Root(t)] : p \in Project /\ Present(project[p])
BY DEF TrashInv, TypeOK, SubtasksFollowTheirParent, Root

LEMMA ReadersFacts ==
    ASSUME NEW t \in Task
    PROVE  /\ MayRead(t) = WouldRead(memberOf[Root(t)], Root(t))
           /\ Readers(t) \subseteq MayRead(t)
BY DEF MayRead, WouldRead, Readers, CanRead, ReadsRoot, CanReadProject

\* When nobody's rights change, who reads a task after the step is told by its
\* place after the step and the rights of before.
LEMMA ReadersAfter ==
    ASSUME TrashInv, TrashInv', SameRights, KeepsFounders, NEW t \in Task, NEW s \in Task,
           Present(task'[t]), Root(t)' = s, Present(task[s]),
           \A p \in memberOf'[s] : Present(project[p])
    PROVE  MayRead(t)' = WouldRead(memberOf'[s], s)
<1>1. /\ Present(task'[s])
      /\ \A p \in memberOf'[s] : p \in Project /\ Present(project'[p])
  BY DEF TrashInv, TypeOK, SubtasksFollowTheirParent, Root
<1>2. Involved(s)' = Involved(s)
  BY <1>1 DEF SameRights
<1>3. \A p \in memberOf'[s] : /\ p \in Project
                              /\ role'[p] = role[p] /\ owner'[p] = owner[p]
                              /\ founder'[p] = founder[p]
  BY <1>1 DEF SameRights, KeepsFounders
<1>4. \A u \in User, p \in memberOf'[s] : IsProjectOwner(u, p)' <=> IsProjectOwner(u, p)
  BY <1>3 DEF IsProjectOwner
<1> QED BY <1>2, <1>3, <1>4 DEF MayRead, WouldRead

\* A task that keeps its place keeps its readers.
LEMMA PlaceKept ==
    ASSUME TrashInv, TrashInv', SameRights, KeepsFounders, NEW t \in Task,
           Present(task[t]), Present(task'[t]),
           Root(t)' = Root(t), memberOf'[Root(t)] = memberOf[Root(t)]
    PROVE  MayRead(t)' = MayRead(t)
<1>1. MayRead(t)' = WouldRead(memberOf'[Root(t)], Root(t))
  BY RootFacts, ReadersAfter
<1> QED BY <1>1, ReadersFacts

\* A task that keeps its main task, and loses projects without becoming free,
\* shows to nobody new.
LEMMA ProjectsLost ==
    ASSUME TrashInv, TrashInv', SameRights, KeepsFounders, NEW t \in Task,
           Present(task[t]), Present(task'[t]), Root(t)' = Root(t),
           memberOf'[Root(t)] \subseteq memberOf[Root(t)],
           \/ memberOf'[Root(t)] # {}
           \/ memberOf[Root(t)] = {}
           \/ Involved(Root(t)) \subseteq Readers(Root(t)) /\ parent[Root(t)] = None
    PROVE  MayRead(t)' \subseteq MayRead(t)
<1> DEFINE r == Root(t)
<1>1. MayRead(t)' = WouldRead(memberOf'[r], r) /\ MayRead(t) = WouldRead(memberOf[r], r)
  BY RootFacts, ReadersAfter, ReadersFacts
<1>2. CASE memberOf'[r] # {} \/ memberOf[r] = {}
  BY <1>1, <1>2 DEF WouldRead
<1>3. CASE memberOf'[r] = {} /\ Involved(r) \subseteq Readers(r) /\ parent[r] = None
  <2>1. WouldRead(memberOf'[r], r) \subseteq Involved(r)
    BY <1>3 DEF WouldRead
  <2>2. r \in Task /\ Root(r) = r
    BY <1>3, RootFacts DEF Root
  <2>3. Readers(r) \subseteq MayRead(r) /\ MayRead(r) = MayRead(t)
    BY <1>1, <2>2, ReadersFacts
  <2> QED BY <1>1, <1>3, <2>1, <2>3
<1> QED BY <1>2, <1>3

LEMMA PlacesFacts ==
    ASSUME TrashInv, TrashInv', KeepsPlaces, KeepsFounders
    PROVE  FreedOnPurpose /\ StaysNarrow
<1>1. FreedOnPurpose
  <2> SUFFICES ASSUME NEW t \in Task, Freed(t)
               PROVE  FALSE
    BY DEF FreedOnPurpose
  <2>1. Present(task[t]) /\ Present(task'[t]) /\ Root(t) = t
    BY DEF Freed, TrashInv, TypeOK, SubtasksFollowTheirParent, Root
  <2> QED BY <2>1 DEF Freed, KeepsPlaces
<1>2. StaysNarrow
  BY PlaceKept DEF StaysNarrow, KeepsPlaces
<1> QED BY <1>1, <1>2

-----------------------------------------------------------------------------
LEMMA ProjectPlaces ==
    ASSUME TrashInv, NEW u \in User, NEW p \in Project, ProjectStep(u)!(p)
    PROVE  KeepsPlaces \/ PurgeProject(u, p)
<1>1. ASSUME UNCHANGED <<parent, memberOf>>
      PROVE  KeepsPlaces
  BY <1>1 DEF KeepsPlaces, Root
<1>2. ASSUME NEW o \in User, NEW members \in SUBSET User, CreateProject(u, p, o, members)
      PROVE  KeepsPlaces
  BY <1>1, <1>2 DEF CreateProject
<1>3. CASE \/ \E v \in User, r \in Role \cup {None} : SetProjectMember(u, p, v, r)
           \/ \E v \in User \cup {None} : SetProjectOwner(u, p, v)
           \/ SetProjectArchived(u, p)
           \/ PreviewProjectPurge(u, p)
           \/ PurgeProjectRefused(u, p)
           \/ DeleteProject(u, p)
           \/ RestoreProject(u, p)
  BY <1>1, <1>3 DEF SetProjectMember, SetProjectOwner, SetProjectArchived, DeleteProject,
                    RestoreProject, PreviewProjectPurge, PurgeProjectRefused
<1> QED BY <1>2, <1>3

LEMMA ProjectFounders ==
    ASSUME TrashInv, NEW u \in User, NEW p \in Project, ProjectStep(u)!(p)
    PROVE  KeepsFounders
<1>1. ASSUME UNCHANGED founder
      PROVE  KeepsFounders
  BY <1>1 DEF KeepsFounders
<1>2. ASSUME NEW o \in User, NEW members \in SUBSET User, CreateProject(u, p, o, members)
      PROVE  KeepsFounders
  BY <1>2 DEF CreateProject, KeepsFounders, TrashInv, TypeOK
<1>3. CASE PurgeProject(u, p)
  <2>1. project' = [project EXCEPT ![p] = "erased"] /\ founder' = [founder EXCEPT ![p] = None]
    BY <1>3 DEF PurgeProject
  <2> QED BY <2>1 DEF KeepsFounders, TrashInv, TypeOK
<1>4. CASE \/ \E v \in User, r \in Role \cup {None} : SetProjectMember(u, p, v, r)
           \/ \E v \in User \cup {None} : SetProjectOwner(u, p, v)
           \/ SetProjectArchived(u, p)
           \/ PreviewProjectPurge(u, p)
           \/ PurgeProjectRefused(u, p)
           \/ DeleteProject(u, p)
           \/ RestoreProject(u, p)
  BY <1>1, <1>4 DEF SetProjectMember, SetProjectOwner, SetProjectArchived, DeleteProject,
                    RestoreProject, PreviewProjectPurge, PurgeProjectRefused, peopleVars
<1> QED BY <1>2, <1>3, <1>4

\* No step on a task touches the founders.
LEMMA TaskFounders ==
    ASSUME NEW u \in User, NEW t \in Task, TaskStep(u)!(t)
    PROVE  KeepsFounders
<1>1. ASSUME UNCHANGED founder
      PROVE  KeepsFounders
  BY <1>1 DEF KeepsFounders
<1>2. ASSUME NEW par, NEW p, NEW a, NEW kids, CreateTask(u, t, par, p, a, kids)
      PROVE  KeepsFounders
  BY <1>1, <1>2 DEF CreateTask, peopleVars
<1>3. CASE \/ \E withKids \in BOOLEAN : \E f \in Copies(t, withKids) : DuplicateTask(u, t, f)
           \/ \E f \in Copies(t, TRUE) : SpawnNextOccurrence(u, t, f)
  BY <1>1, <1>3 DEF DuplicateTask, SpawnNextOccurrence, InsertCopies, peopleVars
<1>4. CASE \/ \E v \in User \cup {None} : AssignTask(u, t, v)
           \/ \E v \in User, on \in BOOLEAN : SetCollaborator(u, t, v, on)
           \/ \E p \in Project : MoveTask(u, t, p)
           \/ \E p \in Project : RemoveTaskFromProject(u, t, p)
           \/ \E q \in Task : MakeSubtask(u, t, q)
           \/ MakeTask(u, t)
  BY <1>1, <1>4 DEF AssignTask, SetCollaborator, MoveTask, RemoveTaskFromProject, MakeSubtask,
                    MakeTask, peopleVars
<1>5. CASE DeleteTask(u, t) \/ RestoreTask(u, t) \/ PurgeTask(u, t)
  BY <1>1, <1>5 DEF DeleteTask, RestoreTask, PurgeTask, peopleVars
<1> QED BY <1>2, <1>3, <1>4, <1>5

\* Rows inserted by a step leave those of before where they are.
LEMMA InsertPlaces ==
    ASSUME TrashInv, NEW new \in SUBSET Task, \A x \in new : task[x] = "unborn",
           \A x \in Task \ new : parent'[x] = parent[x] /\ memberOf'[x] = memberOf[x]
    PROVE  KeepsPlaces
<1> SUFFICES ASSUME NEW t \in Task, Present(task[t])
             PROVE  Root(t)' = Root(t) /\ memberOf'[Root(t)] = memberOf[Root(t)]
  BY DEF KeepsPlaces
<1>1. t \notin new /\ Root(t) \in Task \ new
  BY RootFacts
<1> QED BY <1>1 DEF Root

LEMMA TaskPlaces ==
    ASSUME TrashInv, NEW u \in User, NEW t \in Task, TaskStep(u)!(t)
    PROVE  \/ KeepsPlaces
           \/ \E p \in Project : MoveTask(u, t, p)
           \/ \E p \in Project : RemoveTaskFromProject(u, t, p)
           \/ \E q \in Task : MakeSubtask(u, t, q)
           \/ MakeTask(u, t)
<1>1. ASSUME UNCHANGED <<parent, memberOf>>
      PROVE  KeepsPlaces
  BY <1>1 DEF KeepsPlaces, Root
<1>2. ASSUME NEW par \in Task \cup {None}, NEW p \in Project \cup {None},
             NEW a \in User \cup {None}, NEW kids \in SUBSET Unborn,
             CreateTask(u, t, par, p, a, kids)
      PROVE  KeepsPlaces
  <2> DEFINE new == {t} \cup kids
  <2>1. new \in SUBSET Task /\ \A x \in new : task[x] = "unborn"
    BY <1>2 DEF CreateTask, Unborn
  <2>2. \A x \in Task \ new : parent'[x] = parent[x] /\ memberOf'[x] = memberOf[x]
    BY <1>2 DEF CreateTask, TrashInv, TypeOK
  <2> HIDE DEF new
  <2> QED BY <2>1, <2>2, InsertPlaces
<1>3. ASSUME NEW withKids \in BOOLEAN, NEW f \in Copies(t, withKids), NEW ps, NEW by, NEW cs,
             InsertCopies(t, f, ps, by, cs)
      PROVE  KeepsPlaces
  <2> DEFINE new == {f[x] : x \in DOMAIN f}
  <2>1. new \in SUBSET Task /\ f[t] \in new /\ \A x \in new : task[x] = "unborn"
    BY DEF Copies, Family, ActiveChildren, Children, Unborn
  <2>2. \A x \in Task \ new : parent'[x] = parent[x] /\ memberOf'[x] = memberOf[x]
    BY <1>3, <2>1 DEF InsertCopies, TrashInv, TypeOK
  <2> HIDE DEF new
  <2> QED BY <2>1, <2>2, InsertPlaces
<1>4. CASE \/ \E withKids \in BOOLEAN : \E f \in Copies(t, withKids) : DuplicateTask(u, t, f)
           \/ \E f \in Copies(t, TRUE) : SpawnNextOccurrence(u, t, f)
  BY <1>3, <1>4 DEF DuplicateTask, SpawnNextOccurrence
<1>5. CASE \/ \E v \in User \cup {None} : AssignTask(u, t, v)
           \/ \E v \in User, on \in BOOLEAN : SetCollaborator(u, t, v, on)
           \/ DeleteTask(u, t)
           \/ RestoreTask(u, t)
  BY <1>1, <1>5 DEF AssignTask, SetCollaborator, DeleteTask, RestoreTask
<1>6. CASE PurgeTask(u, t)
  <2> DEFINE gone == Cascade({t})
  <2>1. /\ gone \subseteq Task
        /\ \A x \in Task : parent[x] \in gone => x \in gone
    BY CascadeFacts
  <2>2. /\ task' = Without(task, gone, "erased")
        /\ memberOf' = Without(memberOf, gone, {})
        /\ parent' = Without(parent, gone, None)
    BY <1>6 DEF PurgeTask, Erase
  <2> HIDE DEF gone
  <2> SUFFICES ASSUME NEW x \in Task, Present(task'[x])
               PROVE  Root(x)' = Root(x) /\ memberOf'[Root(x)] = memberOf[Root(x)]
    BY DEF KeepsPlaces
  <2>3. x \notin gone /\ Root(x) \in Task \ gone
    BY <2>1, <2>2, RootFacts DEF Without, Root
  <2> QED BY <2>2, <2>3 DEF Root, Without
<1> QED BY <1>2, <1>4, <1>5, <1>6

-----------------------------------------------------------------------------
(* The steps that do move a task.                                          *)

\* When one main task loses or gains projects and no parent changes, the other
\* tasks keep their places.
LEMMA OneMoves ==
    ASSUME TrashInv, TrashInv', SameRights, KeepsFounders, NEW x \in Task, NEW t \in Task,
           UNCHANGED parent, \A y \in Task \ {x} : memberOf'[y] = memberOf[y],
           Root(t) # x, Present(task[t]), Present(task'[t])
    PROVE  MayRead(t)' \subseteq MayRead(t)
<1>1. Root(t)' = Root(t) /\ memberOf'[Root(t)] = memberOf[Root(t)]
  BY RootFacts DEF Root
<1> QED BY <1>1, PlaceKept

LEMMA MoveTaskReaders ==
    ASSUME TrashInv, TrashInv', KeepsFounders, NEW u \in User, NEW x \in Task,
           NEW p \in Project, MoveTask(u, x, p)
    PROVE  FreedOnPurpose /\ StaysNarrow
<1>1. /\ memberOf' = [memberOf EXCEPT ![x] = @ \cup {p}] /\ UNCHANGED parent
      /\ p \notin memberOf[x]
      /\ memberOf \in [Task -> SUBSET Project]
  BY DEF MoveTask, TrashInv, TypeOK
<1>2. FreedOnPurpose
  BY <1>1 DEF FreedOnPurpose, Freed
<1>3. ASSUME SameRights, NEW t \in Task, Present(task[t]), Present(task'[t]), ~Joins(Root(t))
      PROVE  MayRead(t)' \subseteq MayRead(t)
  <2>1. Root(t) # x
    BY <1>1, <1>3 DEF Joins
  <2> QED BY <1>1, <1>3, <2>1, OneMoves
<1> QED BY <1>2, <1>3 DEF StaysNarrow

LEMMA RemoveTaskReaders ==
    ASSUME TrashInv, TrashInv', KeepsFounders, NEW u \in User, NEW x \in Task,
           NEW p \in Project, RemoveTaskFromProject(u, x, p)
    PROVE  FreedOnPurpose /\ StaysNarrow
<1>1. /\ memberOf' = [memberOf EXCEPT ![x] = @ \ {p}]
      /\ UNCHANGED <<parent, task, rightVars>>
      /\ p \in memberOf[x] /\ task[x] = "active"
      /\ MayKeepOnly(x, memberOf[x] \ {p})
      /\ memberOf \in [Task -> SUBSET Project]
  BY DEF RemoveTaskFromProject, CanManage, CanRead, TrashInv, TypeOK
<1>2. parent[x] = None
  BY <1>1 DEF TrashInv, SubtasksFollowTheirParent
<1>3. memberOf'[x] = {} => Involved(x) \subseteq Readers(x)
  BY <1>1 DEF MayKeepOnly
<1>4. FreedOnPurpose
  <2> SUFFICES ASSUME NEW t \in Task, Freed(t)
               PROVE  task[t] = "active" /\ Readers(t)' \subseteq Readers(t)
    BY DEF FreedOnPurpose
  <2>1. t = x /\ memberOf'[x] = {}
    BY <1>1 DEF Freed
  <2>2. Readers(x)' \subseteq Involved(x)
    <3>1. Root(x)' = x
      BY <1>1, <1>2 DEF Root
    <3>2. Involved(x)' = Involved(x)
      BY <1>1 DEF Involved, rightVars
    <3> QED BY <2>1, <3>1, <3>2 DEF Readers, CanRead, ReadsRoot
  <2> QED BY <1>1, <1>3, <2>1, <2>2
<1>5. ASSUME SameRights, NEW t \in Task, Present(task[t]), Present(task'[t])
      PROVE  MayRead(t)' \subseteq MayRead(t)
  <2>1. CASE Root(t) # x
    BY <1>1, <1>5, <2>1, OneMoves
  <2>2. CASE Root(t) = x
    <3>1. Root(t)' = x /\ memberOf'[x] \subseteq memberOf[x]
      BY <1>1, <2>2 DEF Root
    <3> QED BY <1>2, <1>3, <1>5, <2>2, <3>1, ProjectsLost
  <2> QED BY <2>1, <2>2
<1> QED BY <1>4, <1>5 DEF StaysNarrow

\* What assertParentKeepsVisibility computes covers the readers that the
\* projects and the people of q would give.
LEMMA FutureFacts ==
    ASSUME NEW q \in Task, memberOf[q] = LiveProjects(q)
    PROVE  WouldRead(memberOf[q], q) \subseteq FutureReaders(q)
<1>1. \A v \in User, p \in memberOf[q] :
          role[p][v] # None \/ IsProjectOwner(v, p) =>
              role[p][v] # None \/ v = IF owner[p] = None THEN founder[p] ELSE owner[p]
  BY NoneAssumption DEF IsProjectOwner, Role
<1> QED BY <1>1 DEF WouldRead, FutureReaders

LEMMA MakeSubtaskReaders ==
    ASSUME TrashInv, TrashInv', KeepsFounders, NEW u \in User, NEW x \in Task,
           NEW q \in Task, MakeSubtask(u, x, q)
    PROVE  FreedOnPurpose /\ StaysNarrow
<1>1. /\ memberOf' = [memberOf EXCEPT ![x] = {}] /\ parent' = [parent EXCEPT ![x] = q]
      /\ UNCHANGED task
      /\ x # q /\ task[x] = "active" /\ task[q] = "active" /\ parent[q] = None
      /\ memberOf[x] = LiveProjects(x)
      /\ FutureReaders(q) \subseteq Readers(x)
      /\ parent \in [Task -> Task \cup {None}] /\ memberOf \in [Task -> SUBSET Project]
  BY DEF MakeSubtask, CanManage, CanRead, TrashInv, TypeOK
<1>2. /\ parent'[x] = q /\ memberOf'[x] = {} /\ memberOf'[q] = memberOf[q]
      /\ \A y \in Task \ {x} : parent'[y] = parent[y] /\ memberOf'[y] = memberOf[y]
  BY <1>1
<1>3. FreedOnPurpose
  BY <1>2, NoneAssumption DEF FreedOnPurpose, Freed
<1>4. ASSUME SameRights, ~EntersHalfTrashedParent(x)
      PROVE  MayRead(x)' \subseteq MayRead(x)
  <2>1. CASE parent[x] = q
    <3>1. Root(x) = q /\ Root(x)' = q
      BY <1>2, <2>1, NoneAssumption DEF Root
    <3> QED BY <1>1, <1>2, <1>4, <3>1, PlaceKept
  <2>2. CASE parent[x] # q
    <3>1. memberOf[q] = LiveProjects(q)
      BY <1>1, <1>2, <1>4, <2>2, NoneAssumption DEF EntersHalfTrashedParent, LiveProjects
    <3>2. Root(x)' = q
      BY <1>2, NoneAssumption DEF Root
    <3>3. \A p \in memberOf'[q] : Present(project[p])
      BY <1>2, <3>1 DEF LiveProjects
    <3>4. MayRead(x)' = WouldRead(memberOf[q], q)
      BY <1>1, <1>2, <1>4, <3>2, <3>3, ReadersAfter
    <3> QED BY <1>1, <3>1, <3>4, FutureFacts, ReadersFacts
  <2> QED BY <2>1, <2>2
<1>5. ASSUME SameRights, NEW t \in Task, t # x, Present(task[t]), Present(task'[t]), ~Nested(t)'
      PROVE  MayRead(t)' \subseteq MayRead(t)
  <2>1. parent[t] # x
    BY <1>2, <1>5, NoneAssumption DEF Nested
  <2>2. Root(t) \in Task \ {x} /\ Root(t)' = Root(t)
    BY <1>2, <1>5, <2>1, RootFacts DEF Root
  <2> QED BY <1>2, <1>5, <2>2, PlaceKept
<1> QED BY <1>3, <1>4, <1>5 DEF StaysNarrow

LEMMA MakeTaskReaders ==
    ASSUME TrashInv, TrashInv', KeepsFounders, NEW u \in User, NEW x \in Task, MakeTask(u, x)
    PROVE  FreedOnPurpose /\ StaysNarrow
<1>1. /\ memberOf' = [memberOf EXCEPT ![x] = @ \cup LiveProjects(parent[x])]
      /\ parent' = [parent EXCEPT ![x] = None]
      /\ UNCHANGED task /\ parent[x] # None
      /\ parent \in [Task -> Task \cup {None}] /\ memberOf \in [Task -> SUBSET Project]
  BY DEF MakeTask, TrashInv, TypeOK
<1>2. memberOf[x] = {} /\ parent[x] \in Task
  BY <1>1 DEF TrashInv, SubtasksFollowTheirParent
<1>3. /\ parent'[x] = None /\ memberOf'[x] = LiveProjects(parent[x])
      /\ \A y \in Task \ {x} : parent'[y] = parent[y] /\ memberOf'[y] = memberOf[y]
  BY <1>1, <1>2
<1>4. FreedOnPurpose
  BY <1>2, <1>3 DEF FreedOnPurpose, Freed
<1>5. ASSUME SameRights, Present(task[x]), ~LeavesFreeParent(x)
      PROVE  MayRead(x)' \subseteq MayRead(x)
  <2>1. Root(x)' = x /\ Root(x) = parent[x] /\ memberOf'[x] # {}
    BY <1>1, <1>3, <1>5 DEF Root, LeavesFreeParent
  <2>2. memberOf'[x] \subseteq memberOf[parent[x]] /\ \A p \in memberOf'[x] : Present(project[p])
    BY <1>3 DEF LiveProjects
  <2>3. MayRead(x)' = WouldRead(memberOf'[x], x)
    BY <1>1, <1>5, <2>1, <2>2, ReadersAfter
  <2>4. MayRead(x) = WouldRead(memberOf[parent[x]], parent[x])
    BY <2>1, ReadersFacts
  <2> QED BY <2>1, <2>2, <2>3, <2>4 DEF WouldRead
<1>6. ASSUME SameRights, NEW t \in Task, t # x, Present(task[t]), Present(task'[t]), ~Nested(t)
      PROVE  MayRead(t)' \subseteq MayRead(t)
  <2>1. parent[t] # x
    BY <1>1, <1>6, NoneAssumption DEF Nested
  <2>2. Root(t) \in Task \ {x} /\ Root(t)' = Root(t)
    BY <1>3, <1>6, <2>1, RootFacts DEF Root
  <2> QED BY <1>3, <1>6, <2>2, PlaceKept
<1> QED BY <1>4, <1>5, <1>6 DEF StaysNarrow

LEMMA PurgeProjectReaders ==
    ASSUME TrashInv, TrashInv', KeepsFounders, NEW u \in User, NEW p \in Project,
           PurgeProject(u, p)
    PROVE  FreedOnPurpose /\ StaysNarrow
<1> DEFINE gone == Cascade(Purged(p))
<1>1. /\ \A x \in Task \ gone : memberOf'[x] = memberOf[x] \ {p} /\ parent'[x] = parent[x]
      /\ \A x \in gone : task'[x] = "erased"
  <2>1. gone \subseteq Task /\ Erase(Purged(p))
    BY CascadeFacts, FollowsFacts DEF PurgeProject, TrashInv
  <2> QED BY <2>1 DEF PurgeProject, Erase, Without
<1>2. /\ gone \subseteq Task /\ Purged(p) \subseteq gone
      /\ \A x \in Task : parent[x] \in gone => x \in gone
  BY CascadeFacts, FollowsFacts DEF TrashInv
<1> HIDE DEF gone
\* A main task that stays keeps another project, if it had any.
<1>3. ASSUME NEW r \in Task \ gone, parent[r] = None, Present(task[r]), memberOf[r] \ {p} = {}
      PROVE  memberOf[r] = {}
  BY <1>2, <1>3 DEF Purged, Concerned, Roots, Others
<1>4. ASSUME NEW t \in Task, Present(task[t]), Present(task'[t])
      PROVE  /\ Root(t) \in Task \ gone /\ Root(t)' = Root(t)
             /\ memberOf'[Root(t)] = memberOf[Root(t)] \ {p}
  <2>1. t \notin gone
    BY <1>1, <1>4
  <2> QED BY <1>1, <1>2, <2>1, RootFacts DEF Root
<1>5. FreedOnPurpose
  <2> SUFFICES ASSUME NEW t \in Task, Freed(t)
               PROVE  FALSE
    BY DEF FreedOnPurpose
  <2>1. Present(task[t]) /\ parent[t] = None
    BY DEF Freed, TrashInv, TypeOK, SubtasksFollowTheirParent
  <2>2. Present(task'[t]) /\ Root(t) = t
    BY <2>1 DEF Freed, Root
  <2> QED BY <1>3, <1>4, <2>1, <2>2 DEF Freed
<1>6. ASSUME SameRights, NEW t \in Task, Present(task[t]), Present(task'[t])
      PROVE  MayRead(t)' \subseteq MayRead(t)
  <2>1. Present(task[Root(t)])
    BY <1>6, RootFacts
  <2>2. memberOf'[Root(t)] = {} => memberOf[Root(t)] = {}
    <3>1. CASE parent[Root(t)] = None
      BY <1>3, <1>4, <1>6, <2>1, <3>1
    <3>2. CASE parent[Root(t)] # None
      BY <1>4, <1>6, <3>2 DEF TrashInv, SubtasksFollowTheirParent
    <3> QED BY <3>1, <3>2
  <2> QED BY <1>4, <1>6, <2>2, ProjectsLost
<1> QED BY <1>5, <1>6 DEF StaysNarrow

LEMMA NextReaders ==
    TrashInv /\ TrashInv' /\ [Next]_vars => FreedOnPurpose /\ StaysNarrow
<1> SUFFICES ASSUME TrashInv, TrashInv', [Next]_vars
             PROVE  FreedOnPurpose /\ StaysNarrow
  OBVIOUS
<1>1. ASSUME NEW u \in User, ProjectStep(u)
      PROVE  FreedOnPurpose /\ StaysNarrow
  <2> PICK p \in Project : ProjectStep(u)!(p)
    BY <1>1 DEF ProjectStep
  <2>1. KeepsFounders /\ (KeepsPlaces \/ PurgeProject(u, p))
    BY ProjectFounders, ProjectPlaces
  <2> QED BY <2>1, PlacesFacts, PurgeProjectReaders
<1>2. ASSUME NEW u \in User, TaskStep(u)
      PROVE  FreedOnPurpose /\ StaysNarrow
  <2> PICK t \in Task : TaskStep(u)!(t)
    BY <1>2 DEF TaskStep
  <2>1. KeepsFounders
    BY TaskFounders
  <2>2. \/ KeepsPlaces
        \/ \E p \in Project : MoveTask(u, t, p)
        \/ \E p \in Project : RemoveTaskFromProject(u, t, p)
        \/ \E q \in Task : MakeSubtask(u, t, q)
        \/ MakeTask(u, t)
    BY TaskPlaces
  <2> QED BY <2>1, <2>2, PlacesFacts, MoveTaskReaders, RemoveTaskReaders,
             MakeSubtaskReaders, MakeTaskReaders
<1>3. ASSUME UNCHANGED vars
      PROVE  FreedOnPurpose /\ StaysNarrow
  <2>1. UNCHANGED <<parent, memberOf, founder>>
    BY <1>3 DEF vars
  <2>2. KeepsPlaces /\ KeepsFounders
    BY <2>1 DEF KeepsPlaces, KeepsFounders, Root
  <2> QED BY <2>2, PlacesFacts
<1> QED BY <1>1, <1>2, <1>3 DEF Next

\* A task of a project becomes free only when it is removed from its last
\* project, and then nobody reads it who did not before.
THEOREM NeverFreed == Spec => NeverFreedByAccident
<1>1. TrashInv /\ TrashInv' /\ [Next]_vars => [FreedOnPurpose]_vars
  BY NextReaders
<1> QED BY <1>1, TrashInvariant, PTL DEF Spec, NeverFreedByAccident

\* Outside the two steps that are meant to, and the steps that give rights, no
\* operation shows a task to somebody new, now or once it is out of the trash.
THEOREM NobodyNew == Spec => NoWidening
<1>1. TrashInv /\ TrashInv' /\ [Next]_vars => [StaysNarrow]_vars
  BY NextReaders
<1> QED BY <1>1, TrashInvariant, PTL DEF Spec, NoWidening

-----------------------------------------------------------------------------
(* Order: places.                                                          *)

\* A finite set of places that is not empty has a least element, and a greatest one.
LEMMA LeastPlace ==
    ASSUME NEW S, S \subseteq Int, IsFiniteSet(S), S # {}
    PROVE  \E x \in S : \A y \in S : x <= y
<1> DEFINE below(x) == {t \in S : t < x}
           T == {below(x) : x \in S}
<1>1. T \subseteq FiniteSubsetsOf(S)
  <2>1. \A x \in S : below(x) \in SUBSET S
    OBVIOUS
  <2> QED BY <2>1, FS_FiniteSubsetsOfFinite
<1>2. T # {}
  OBVIOUS
<1>3. PICK X \in T : \A Y \in T : ~ (<<Y, X>> \in StrictSubsetOrdering(S))
  <2> HIDE DEF T
  <2> QED BY <1>1, <1>2, FS_StrictSubsetOrderingWellFounded, WFMin
<1>4. PICK x \in S : X = below(x)
  BY <1>3
<1>5. ASSUME NEW y \in S, ~(x <= y) PROVE FALSE
  <2>1. y \in Int /\ x \in Int /\ y < x
    BY <1>5
  <2>2. below(y) \subseteq below(x) /\ y \in below(x) /\ y \notin below(y)
    <3>1. \A t \in S : t < y => t < x
      <4>1. \A t \in Int : t < y => t < x
        BY <2>1
      <4> QED BY <4>1
    <3>2. ~(y < y)
      BY <2>1
    <3> QED BY <2>1, <3>1, <3>2
  <2>3. below(y) \in T /\ below(y) \in SUBSET S /\ below(x) \in SUBSET S
    OBVIOUS
  <2> HIDE DEF below, T
  <2> QED BY <1>3, <1>4, <2>2, <2>3 DEF StrictSubsetOrdering
<1> QED BY <1>5

LEMMA GreatestPlace ==
    ASSUME NEW S, S \subseteq Int, IsFiniteSet(S), S # {}
    PROVE  \E x \in S : \A y \in S : y <= x
<1> DEFINE above(x) == {t \in S : x < t}
           T == {above(x) : x \in S}
<1>1. T \subseteq FiniteSubsetsOf(S)
  <2>1. \A x \in S : above(x) \in SUBSET S
    OBVIOUS
  <2> QED BY <2>1, FS_FiniteSubsetsOfFinite
<1>2. T # {}
  OBVIOUS
<1>3. PICK X \in T : \A Y \in T : ~ (<<Y, X>> \in StrictSubsetOrdering(S))
  <2> HIDE DEF T
  <2> QED BY <1>1, <1>2, FS_StrictSubsetOrderingWellFounded, WFMin
<1>4. PICK x \in S : X = above(x)
  BY <1>3
<1>5. ASSUME NEW y \in S, ~(y <= x) PROVE FALSE
  <2>1. y \in Int /\ x \in Int /\ x < y
    BY <1>5
  <2>2. above(y) \subseteq above(x) /\ y \in above(x) /\ y \notin above(y)
    <3>1. \A t \in S : y < t => x < t
      <4>1. \A t \in Int : y < t => x < t
        BY <2>1
      <4> QED BY <4>1
    <3>2. ~(y < y)
      BY <2>1
    <3> QED BY <2>1, <3>1, <3>2
  <2>3. above(y) \in T /\ above(y) \in SUBSET S /\ above(x) \in SUBSET S
    OBVIOUS
  <2> HIDE DEF above, T
  <2> QED BY <1>3, <1>4, <2>2, <2>3 DEF StrictSubsetOrdering
<1> QED BY <1>5

\* What is read of the tables and kept between two steps.
Reading(d) ==
    /\ d.section \in Section /\ d.target \in Section \cup {Nil}
    /\ \E n \in Nat : /\ d.tasks \in [1..n -> Item]
                      /\ \A i, j \in 1..n : i < j => d.tasks[i] # d.tasks[j]

OrderTypes ==
    /\ section \in [Item -> Section \cup {Nil, Out}] /\ pos \in [Item -> Int]
    /\ place \in [Section -> Int \cup {Out}]
    /\ creating \subseteq [task : Item, section : Section \cup {Nil}, pos : Int]
    /\ deleting # Nil => Reading(deleting)

LEMMA Extremes ==
    ASSUME NEW S, S \subseteq Int, IsFiniteSet(S), S # {}
    PROVE  /\ Largest(S) \in S /\ \A y \in S : y <= Largest(S)
           /\ Smallest(S) \in S /\ \A y \in S : Smallest(S) <= y
BY LeastPlace, GreatestPlace DEF Largest, Smallest

\* The values of a function on a finite set are finitely many.
LEMMA ValuesFinite ==
    ASSUME NEW S, IsFiniteSet(S), NEW f
    PROVE  IsFiniteSet({f[x] : x \in S})
<1> DEFINE T == {f[x] : x \in S}
           g == [x \in S |-> f[x]]
<1>1. g \in Surjection(S, T)
  BY DEF Surjection
<1>2. IsFiniteSet(T)
  <2> HIDE DEF g, T
  <2> QED BY <1>1, FS_Surjection
<1> QED BY <1>2

LEMMA PlacesFinite ==
    ASSUME OrderTypes, NEW s
    PROVE  IsFiniteSet(Places(s)) /\ Places(s) \subseteq Int /\ (In(s) # {} => Places(s) # {})
<1>1. In(s) \in SUBSET Item
  BY DEF In
<1>2. IsFiniteSet(In(s))
  BY <1>1, OrderAssumption, FS_Subset
<1>3. IsFiniteSet(Places(s))
  BY <1>2, ValuesFinite DEF Places
<1> QED BY <1>1, <1>3 DEF Places, OrderTypes

LEMMA SectionPlacesFinite ==
    ASSUME OrderTypes
    PROVE  IsFiniteSet(SectionPlaces) /\ SectionPlaces \subseteq Int /\ (Sections # {} => SectionPlaces # {})
<1>1. Sections \in SUBSET Section
  BY DEF Sections
<1>2. IsFiniteSet(Sections)
  BY <1>1, OrderAssumption, FS_Subset
<1>3. IsFiniteSet(SectionPlaces)
  BY <1>2, ValuesFinite DEF SectionPlaces
<1>4. \A s \in Sections : place[s] \in Int
  BY DEF Sections, OrderTypes
<1> QED BY <1>3, <1>4 DEF SectionPlaces

\* Between two neighbours there is a place strictly between them, or none at all.
LEMMA BetweenFacts ==
    ASSUME NEW before \in Int \cup {Nil}, NEW after \in Int \cup {Nil}, NEW p, p = PositionBetween(before, after)
    PROVE  /\ p \in Int \cup {Nil}
           /\ p # Nil => (before # Nil /\ after = Nil => before < p) /\ (before = Nil /\ after # Nil => p < after)
                         /\ (before # Nil /\ after # Nil => before < p /\ p < after)
           /\ p = Nil => before # Nil /\ after # Nil /\ after - before <= 1
<1>1. CASE before = Nil \/ after = Nil
  BY <1>1, OrderAssumption DEF PositionBetween
<1>2. CASE before # Nil /\ after # Nil
  <2>1. before \in Int /\ after \in Int
    BY <1>2
  <2>2. p = IF after - before > 1 THEN before + (after - before) \div 2 ELSE Nil
    BY <1>2 DEF PositionBetween
  <2>3. ASSUME after - before > 1
        PROVE  /\ before + (after - before) \div 2 \in Int
               /\ before < before + (after - before) \div 2 /\ before + (after - before) \div 2 < after
    BY <2>1, <2>3
  <2> QED BY <1>2, <2>1, <2>2, <2>3, OrderAssumption
<1> QED BY <1>1, <1>2

LEMMA NextPlaceType ==
    ASSUME NEW x, NEW P, P \subseteq Int, IsFiniteSet(P)
    PROVE  NextPlace(x, P) \in Int \cup {Nil}
<1>1. CASE \E y \in P : y > x
  <2>1. {y \in P : y > x} \in SUBSET P
    OBVIOUS
  <2>2. IsFiniteSet({y \in P : y > x})
    BY <2>1, FS_Subset
  <2>3. PICK Q : Q = {y \in P : y > x}
    OBVIOUS
  <2>4. Q \subseteq Int /\ IsFiniteSet(Q) /\ Q # {}
    BY <1>1, <2>2, <2>3
  <2>5. Smallest(Q) \in Q
    BY <2>4, Extremes
  <2> QED BY <1>1, <2>3, <2>4, <2>5 DEF NextPlace
<1>2. CASE ~\E y \in P : y > x
  BY <1>2 DEF NextPlace
<1> QED BY <1>1, <1>2

\* Two places of a list numbered again are the same or a step apart.
LEMMA StepApart ==
    ASSUME NEW i \in Int, NEW j \in Int, PositionStep * i < PositionStep * j
    PROVE  PositionStep * j - PositionStep * i > 1
<1>1. PositionStep \in Int /\ PositionStep > 1
  BY OrderAssumption
<1>2. i < j
  <2>1. SUFFICES ASSUME j <= i PROVE FALSE
    OBVIOUS
  <2>2. PICK k \in Nat : i = j + k
    <3>1. i - j \in Nat /\ i = j + (i - j)
      BY <2>1
    <3> QED BY <3>1
  <2>3. PositionStep * i = PositionStep * j + PositionStep * k
    BY <1>1, <2>2
  <2>4. PositionStep * k >= 0
    BY <1>1
  <2> QED BY <1>1, <2>3, <2>4
<1>3. PICK k \in Nat : j = i + k /\ k >= 1
  <2>1. j - i \in Nat /\ j = i + (j - i) /\ j - i >= 1
    BY <1>2
  <2> QED BY <2>1
<1>4. PositionStep * j = PositionStep * i + PositionStep * k
  BY <1>1, <1>3
<1>5. PositionStep * k >= PositionStep
  BY <1>1, <1>3
<1> QED BY <1>1, <1>4, <1>5

\* A list numbered again: places of the list, in the order there was, far enough apart.
LEMMA RenumberingFacts ==
    ASSUME NEW S, IsFiniteSet(S), NEW old, NEW f \in Renumberings(S, old)
    PROVE  /\ DOMAIN f = S /\ \A x \in S : f[x] \in Int
           /\ \A x, y \in S : x # y /\ old[x] < old[y] => f[x] < f[y] /\ f[y] - f[x] > 1
<1>1. Cardinality(S) \in Nat
  BY FS_CardinalityType
<1>2. PICK c \in Nat : c = Cardinality(S)
  BY <1>1
<1>3. f \in [S -> {PositionStep * i : i \in 1..c}] /\ \A x, y \in S : x # y => (old[x] < old[y] => f[x] < f[y])
  BY <1>2 DEF Renumberings
<1>4. \A x \in S : \E i \in Int : f[x] = PositionStep * i
  BY <1>2, <1>3
<1>5. \A x \in S : f[x] \in Int
  BY <1>4, OrderAssumption
<1>6. ASSUME NEW x \in S, NEW y \in S, old[x] < old[y], x # y PROVE f[x] < f[y] /\ f[y] - f[x] > 1
  <2>1. PICK i \in Int, j \in Int : f[x] = PositionStep * i /\ f[y] = PositionStep * j
    BY <1>4
  <2>2. f[x] < f[y]
    BY <1>3, <1>6
  <2>3. PositionStep * i < PositionStep * j
    BY <2>1, <2>2
  <2>4. PositionStep * j - PositionStep * i > 1
    BY <2>3, StepApart
  <2> QED BY <2>1, <2>2, <2>4
<1>7. DOMAIN f = S
  BY <1>3
<1> QED BY <1>5, <1>6, <1>7

-----------------------------------------------------------------------------
(* The type invariant, one action at a time.                               *)

LEMMA BottomTop ==
    ASSUME OrderTypes, NEW s
    PROVE  Bottom(s) \in Int /\ Top(s) \in Int
<1>1. PositionStep \in Int
  BY OrderAssumption
<1>2. CASE In(s) = {}
  BY <1>1, <1>2 DEF Bottom, Top
<1>3. CASE In(s) # {}
  <2>1. IsFiniteSet(Places(s)) /\ Places(s) \subseteq Int /\ Places(s) # {}
    BY <1>3, PlacesFinite
  <2>2. Largest(Places(s)) \in Int /\ Smallest(Places(s)) \in Int
    BY <2>1, Extremes
  <2> QED BY <1>1, <1>3, <2>2 DEF Bottom, Top
<1> QED BY <1>2, <1>3

\* The place just after an item, among finitely many.
LEMMA AfterType ==
    ASSUME NEW x \in Int, NEW P, P \subseteq Int, IsFiniteSet(P)
    PROVE  PositionBetween(x, NextPlace(x, P)) \in Int \cup {Nil}
<1>1. PICK n \in Int \cup {Nil} : n = NextPlace(x, P)
  BY NextPlaceType
<1>2. PICK p : p = PositionBetween(x, n)
  OBVIOUS
<1>3. p \in Int \cup {Nil}
  BY <1>2, BetweenFacts
<1> QED BY <1>1, <1>2, <1>3

LEMMA ReadPlaceTypes ==
    ASSUME OrderTypes, NEW t \in Item, NEW s \in Section \cup {Nil}, NEW where, NEW anchor \in Item,
           ReadPlace(t, s, where, anchor)
    PROVE  OrderTypes'
<1> DEFINE between == PositionBetween(pos[anchor], NextPlace(pos[anchor], Places(section[anchor])))
           p == CASE where = "top" -> Top(s)
                  [] where = "after" /\ section[anchor] # Out -> IF between = Nil THEN pos[anchor] + Nudge ELSE between
                  [] OTHER -> Bottom(s)
<1>1. pos[anchor] \in Int
  BY DEF OrderTypes
<1>2. between \in Int \cup {Nil}
  BY <1>1, PlacesFinite, AfterType
<1>3. p \in Int
  <2>1. Top(s) \in Int /\ Bottom(s) \in Int
    BY BottomTop
  <2>2. (IF between = Nil THEN pos[anchor] + Nudge ELSE between) \in Int
    <3> HIDE DEF between
    <3> QED BY <1>1, <1>2, OrderAssumption
  <2> HIDE DEF between
  <2> QED BY <2>1, <2>2
<1>4. creating' = creating \cup {[task |-> t, section |-> s, pos |-> p]}
  BY DEF ReadPlace
<1>5. UNCHANGED <<section, pos, place, deleting>>
  BY DEF ReadPlace
<1> HIDE DEF p
<1>6. [task |-> t, section |-> s, pos |-> p] \in [task : Item, section : Section \cup {Nil}, pos : Int]
  BY <1>3
<1> QED BY <1>4, <1>5, <1>6 DEF OrderTypes

LEMMA CreateTaskRowTypes ==
    ASSUME OrderTypes, NEW c \in creating, CreateTaskRow(c)
    PROVE  OrderTypes'
<1>1. c.task \in Item /\ c.section \in Section \cup {Nil} /\ c.pos \in Int
  BY DEF OrderTypes
<1>2. CASE c.section = Nil \/ c.section \in Sections
  <2>1. section' \in [Item -> Section \cup {Nil, Out}] /\ pos' \in [Item -> Int]
    BY <1>1, <1>2 DEF OrderTypes, CreateTaskRow
  <2> QED BY <2>1 DEF OrderTypes, CreateTaskRow
<1>3. CASE ~(c.section = Nil \/ c.section \in Sections)
  BY <1>3 DEF OrderTypes, CreateTaskRow
<1> QED BY <1>2, <1>3

LEMMA SpawnTypes ==
    ASSUME OrderTypes, NEW t \in Item, NEW n \in Item, SpawnOccurrence(t, n)
    PROVE  OrderTypes'
<1>1. pos[t] + SpawnOffset \in Int /\ section[t] \in Section \cup {Nil, Out}
  BY OrderAssumption DEF OrderTypes
<1>2. section' \in [Item -> Section \cup {Nil, Out}] /\ pos' \in [Item -> Int]
  BY <1>1 DEF OrderTypes, SpawnOccurrence
<1> QED BY <1>2 DEF OrderTypes, SpawnOccurrence

LEMMA DuplicateTypes ==
    ASSUME OrderTypes, NEW t \in Item, NEW n \in Item, Duplicate(t, n)
    PROVE  OrderTypes'
<1> DEFINE between == PositionBetween(pos[t], NextPlace(pos[t], Places(section[t])))
           p == IF between = Nil THEN pos[t] + Nudge ELSE between
<1>1. pos[t] \in Int /\ section[t] \in Section \cup {Nil, Out}
  BY DEF OrderTypes
<1>2. between \in Int \cup {Nil}
  BY <1>1, PlacesFinite, AfterType
<1>3. p \in Int
  <2> HIDE DEF between
  <2> QED BY <1>1, <1>2, OrderAssumption
<1>4. pos' = [pos EXCEPT ![n] = p] /\ section' = [section EXCEPT ![n] = section[t]]
  BY DEF Duplicate
<1>5. section' \in [Item -> Section \cup {Nil, Out}] /\ pos' \in [Item -> Int]
  <2> HIDE DEF p
  <2> QED BY <1>1, <1>3, <1>4 DEF OrderTypes
<1> QED BY <1>5 DEF OrderTypes, Duplicate

LEMMA LeaveTypes ==
    ASSUME OrderTypes, NEW t \in Item, LeaveProject(t)
    PROVE  OrderTypes'
BY DEF OrderTypes, LeaveProject

LEMMA CreateSectionTypes ==
    ASSUME OrderTypes, NEW s \in Section, NEW anchor \in Section \cup {Nil}, CreateSection(s, anchor)
    PROVE  OrderTypes'
<1> DEFINE between == PositionBetween(place[anchor], NextPlace(place[anchor], SectionPlaces))
           p == CASE anchor # Nil /\ anchor \notin Sections -> PositionStep
                  [] anchor \in Sections -> IF between = Nil THEN place[anchor] + Nudge ELSE between
                  [] anchor = Nil /\ Sections = {} -> PositionStep
                  [] OTHER -> Largest(SectionPlaces) + PositionStep
<1>1. IsFiniteSet(SectionPlaces) /\ SectionPlaces \subseteq Int /\ (Sections # {} => SectionPlaces # {})
  BY SectionPlacesFinite
<1>2. p \in Int
  <2>1. CASE anchor \in Sections
    <3>1. place[anchor] \in Int
      BY <2>1 DEF Sections, OrderTypes
    <3>2. between \in Int \cup {Nil}
      BY <1>1, <3>1, AfterType
    <3> HIDE DEF between
    <3>3. anchor # Nil /\ Sections # {}
      BY <2>1, OrderAssumption DEF Sections
    <3> QED BY <2>1, <3>1, <3>2, <3>3, OrderAssumption
  <2>2. CASE anchor = Nil /\ Sections # {}
    <3>1. Largest(SectionPlaces) \in Int
      BY <1>1, <2>2, Extremes
    <3>2. anchor \notin Sections
      BY <2>2, OrderAssumption DEF Sections
    <3>3. p = Largest(SectionPlaces) + PositionStep
      <4> HIDE DEF between
      <4> QED BY <2>2, <3>2
    <3> HIDE DEF p
    <3> QED BY <3>1, <3>3, OrderAssumption
  <2>3. CASE anchor # Nil /\ anchor \notin Sections
    <3>1. p = PositionStep
      <4> HIDE DEF between
      <4> QED BY <2>3
    <3> QED BY <3>1, OrderAssumption
  <2>4. CASE anchor = Nil /\ Sections = {}
    <3>1. p = PositionStep
      <4> HIDE DEF between
      <4>1. anchor \notin Sections
        BY <2>4, OrderAssumption DEF Sections
      <4> QED BY <2>4, <4>1
    <3> QED BY <3>1, OrderAssumption
  <2> HIDE DEF p
  <2> QED BY <2>1, <2>2, <2>3, <2>4
<1>3. place' = [place EXCEPT ![s] = p]
  BY DEF CreateSection
<1>4. UNCHANGED <<section, pos, creating, deleting>>
  BY DEF CreateSection
<1> HIDE DEF p
<1> QED BY <1>2, <1>3, <1>4 DEF OrderTypes

LEMMA ReadSectionTypes ==
    ASSUME OrderTypes, NEW s \in Section, NEW target \in Section \cup {Nil}, ReadSection(s, target)
    PROVE  OrderTypes'
<1>1. PICK l \in Listings(s) : deleting' = [section |-> s, target |-> target, tasks |-> l]
  BY DEF ReadSection
<1>2. In(s) \in SUBSET Item
  BY DEF In
<1>3. IsFiniteSet(In(s))
  BY <1>2, OrderAssumption, FS_Subset
<1>4. PICK n \in Nat : n = Cardinality(In(s))
  BY <1>3, FS_CardinalityType
<1>5. l \in [1..n -> Item] /\ \A i, j \in 1..n : i < j => l[i] # l[j]
  BY <1>2, <1>4 DEF Listings
<1>6. Reading(deleting')
  BY <1>1, <1>5 DEF Reading
<1> QED BY <1>6 DEF OrderTypes, ReadSection

-----------------------------------------------------------------------------
(* Moves.                                                                  *)

\* After a renumbering there is a place between two items that were in order.
LEMMA RoomBetween ==
    ASSUME NEW S, IsFiniteSet(S), NEW old, NEW f \in Renumberings(S, old), NEW x \in S, NEW y \in S, x # y,
           NEW q, q = PositionBetween(f[x], f[y])
    PROVE  /\ q \in Int \cup {Nil}
           /\ old[x] < old[y] => q # Nil /\ f[x] < q /\ q < f[y]
<1>1. f[x] \in Int /\ f[y] \in Int
  BY RenumberingFacts
<1>2. PICK b \in Int, a \in Int : b = f[x] /\ a = f[y]
  BY <1>1
<1>3. b # Nil /\ a # Nil
  BY OrderAssumption
<1>4. q = PositionBetween(b, a)
  BY <1>2
<1>5. /\ q \in Int \cup {Nil}
      /\ q # Nil => b < q /\ q < a
      /\ q = Nil => a - b <= 1
  BY <1>3, <1>4, BetweenFacts
<1>6. ASSUME old[x] < old[y] PROVE a - b > 1
  BY <1>2, <1>6, RenumberingFacts
<1>7. ~(a - b <= 1 /\ a - b > 1)
  OBVIOUS
<1> QED BY <1>2, <1>5, <1>6, <1>7

\* What a move does to the places p of a list S: the others keep their order, and the
\* item moved gets place q, between its neighbours when these were in order.
Placed(S, p, f, q, before, after) ==
    /\ q \in Int /\ \A x \in S : f[x] \in Int
    /\ \A x, y \in S : p[x] < p[y] => f[x] < f[y]
    /\ ~(before \in S /\ after \in S /\ p[before] >= p[after]) =>
          (before \in S => f[before] < q) /\ (after \in S => q < f[after])

\* The place taken without a renumbering.
LEMMA PlacedAtOnce ==
    ASSUME NEW S, NEW p, \A x \in S : p[x] \in Int, NEW before, NEW after,
           NEW b \in Int \cup {Nil}, NEW a \in Int \cup {Nil},
           before \in S => b = p[before], after \in S => a = p[after],
           before \notin S /\ after \in S => b = Nil, before \in S /\ after \notin S => a = Nil,
           NEW q, q = PositionBetween(b, a), q # Nil
    PROVE  Placed(S, p, p, q, before, after)
<1>1. /\ q \in Int
      /\ b # Nil /\ a = Nil => b < q
      /\ b = Nil /\ a # Nil => q < a
      /\ b # Nil /\ a # Nil => b < q /\ q < a
  BY BetweenFacts
<1>2. \A x \in S : p[x] # Nil
  BY OrderAssumption
<1>3. (before \in S => p[before] < q) /\ (after \in S => q < p[after])
  <2>1. CASE before \in S /\ after \in S
    BY <1>1, <1>2, <2>1
  <2>2. CASE before \in S /\ after \notin S
    BY <1>1, <1>2, <2>2
  <2>3. CASE before \notin S /\ after \in S
    BY <1>1, <1>2, <2>3
  <2> QED BY <2>1, <2>2, <2>3
<1> QED BY <1>1, <1>3 DEF Placed

\* The place taken after a renumbering: the two neighbours are there.
LEMMA PlacedAgain ==
    ASSUME NEW S, IsFiniteSet(S), NEW p, \A x \in S : p[x] \in Int, NEW before \in S, NEW after \in S,
           NEW f \in Renumberings(S, p), NEW q, q = PositionBetween(f[before], f[after])
    PROVE  Placed(S, p, f, IF q = Nil THEN PositionStep ELSE q, before, after)
<1>1. \A x \in S : f[x] \in Int
  BY RenumberingFacts
<1>2. ASSUME NEW x \in S, NEW y \in S, p[x] < p[y] PROVE x # y
  <2>1. ~(p[x] < p[x])
    <3>1. PICK i \in Int : i = p[x]
      OBVIOUS
    <3> QED BY <3>1
  <2> QED BY <1>2, <2>1
<1>3. \A x, y \in S : p[x] < p[y] => f[x] < f[y]
  BY <1>2, RenumberingFacts
<1>4. CASE p[before] < p[after]
  <2>1. before # after
    BY <1>2, <1>4
  <2>2. q \in Int \cup {Nil} /\ q # Nil /\ f[before] < q /\ q < f[after]
    BY <1>4, <2>1, RoomBetween
  <2> QED BY <1>1, <1>3, <2>2 DEF Placed
<1>5. CASE ~(p[before] < p[after])
  <2>1. p[before] >= p[after]
    BY <1>5
  <2>2. q \in Int \cup {Nil}
    <3>1. f[before] \in Int /\ f[after] \in Int
      BY <1>1
    <3> QED BY <3>1, BetweenFacts
  <2>3. (IF q = Nil THEN PositionStep ELSE q) \in Int
    BY <2>2, OrderAssumption
  <2> QED BY <1>1, <1>3, <2>1, <2>3 DEF Placed
<1> QED BY <1>4, <1>5

\* moveTask
LEMMA MoveToPlaced ==
    ASSUME OrderTypes, NEW t \in Item, NEW s \in Section \cup {Nil},
           NEW before \in Item \cup {Nil}, NEW after \in Item \cup {Nil}, MoveTo(t, s, before, after)
    PROVE  \E q, f : /\ Placed(In(s), pos, f, q, before, after)
                     /\ pos' = [x \in Item |-> IF x = t THEN q ELSE IF x \in In(s) THEN f[x] ELSE pos[x]]
<1> DEFINE others == {pos[x] : x \in In(s) \ {t}}
           b == IF before = Nil /\ after = Nil /\ In(s) \ {t} # {} THEN Largest(others) ELSE Neighbour(before, s)
           a == Neighbour(after, s)
           p == PositionBetween(b, a)
           known(n, f) == IF n # Nil /\ n \in DOMAIN f THEN f[n] ELSE Nil
           q(f) == PositionBetween(known(before, f), known(after, f))
           again(f) == IF q(f) = Nil THEN PositionStep ELSE q(f)
<1>1. /\ p # Nil => pos' = [pos EXCEPT ![t] = p]
      /\ p = Nil => \E f \in Renumberings(In(s), pos) :
                        pos' = [x \in Item |-> IF x = t THEN again(f) ELSE IF x \in In(s) THEN f[x] ELSE pos[x]]
  BY DEF MoveTo
<1>2. In(s) \in SUBSET Item /\ \A x \in In(s) : pos[x] \in Int
  BY DEF In, OrderTypes
<1>3. IsFiniteSet(In(s))
  BY <1>2, OrderAssumption, FS_Subset
<1>4. Nil \notin Item /\ Nil \notin In(s)
  BY <1>2, OrderAssumption
<1>5. \A n \in Item \cup {Nil} : Neighbour(n, s) = IF n \in In(s) THEN pos[n] ELSE Nil
  BY <1>4 DEF Neighbour, In
<1>6. b \in Int \cup {Nil} /\ a \in Int \cup {Nil}
  <2>1. ASSUME In(s) \ {t} # {} PROVE Largest(others) \in Int
    <3>1. IsFiniteSet(In(s) \ {t})
      BY <1>3, FS_Subset
    <3>2. IsFiniteSet(others)
      BY <3>1, ValuesFinite
    <3>3. others # {} /\ others \subseteq Int
      BY <1>2, <2>1
    <3> HIDE DEF others
    <3> QED BY <3>2, <3>3, Extremes
  <2>2. \A n \in Item \cup {Nil} : Neighbour(n, s) \in Int \cup {Nil}
    BY <1>2, <1>5
  <2> HIDE DEF others
  <2> QED BY <2>1, <2>2
<1>7. /\ before \in In(s) => b = pos[before]
      /\ after \in In(s) => a = pos[after]
      /\ before \notin In(s) /\ after \in In(s) => b = Nil
      /\ before \in In(s) /\ after \notin In(s) => a = Nil
  <2>1. before \in In(s) \/ after \in In(s) => b = Neighbour(before, s)
    BY <1>4
  <2> QED BY <1>5, <2>1
<1>8. CASE p # Nil
  <2>1. Placed(In(s), pos, pos, p, before, after)
    <3> HIDE DEF b, a
    <3>1. PICK r : r = p
      OBVIOUS
    <3>2. Placed(In(s), pos, pos, r, before, after)
      BY <1>2, <1>6, <1>7, <1>8, <3>1, PlacedAtOnce
    <3> QED BY <3>1, <3>2
  <2>2. pos' = [pos EXCEPT ![t] = p]
    BY <1>1, <1>8
  <2>3. pos' = [x \in Item |-> IF x = t THEN p ELSE IF x \in In(s) THEN pos[x] ELSE pos[x]]
    <3> HIDE DEF p
    <3> QED BY <2>2 DEF OrderTypes
  <2> HIDE DEF p
  <2> QED BY <2>1, <2>3
<1>9. CASE p = Nil
  <2>1. PICK f \in Renumberings(In(s), pos) :
            pos' = [x \in Item |-> IF x = t THEN again(f) ELSE IF x \in In(s) THEN f[x] ELSE pos[x]]
    BY <1>1, <1>9
  <2>2. b # Nil /\ a # Nil
    <3> HIDE DEF b, a
    <3> QED BY <1>6, <1>9, BetweenFacts
  <2>3. after \in In(s)
    BY <1>5, <2>2
  <2>4. before \in In(s)
    BY <1>4, <1>7, <2>2, <2>3
  <2>5. DOMAIN f = In(s)
    BY <1>3, RenumberingFacts
  <2>6. known(before, f) = f[before] /\ known(after, f) = f[after]
    BY <1>4, <2>3, <2>4, <2>5
  <2>7. PICK r : r = q(f)
    OBVIOUS
  <2>8. r = PositionBetween(f[before], f[after])
    BY <2>6, <2>7
  <2>9. Placed(In(s), pos, f, IF r = Nil THEN PositionStep ELSE r, before, after)
    BY <1>2, <1>3, <2>3, <2>4, <2>8, PlacedAgain
  <2>10. again(f) = IF r = Nil THEN PositionStep ELSE r
    BY <2>7
  <2> HIDE DEF again
  <2> QED BY <2>1, <2>9, <2>10
<1> HIDE DEF p
<1> QED BY <1>8, <1>9

LEMMA MoveTaskTypes ==
    ASSUME OrderTypes, NEW t \in Item, NEW s \in Section \cup {Nil},
           NEW before \in Item \cup {Nil}, NEW after \in Item \cup {Nil}, MoveTaskTo(t, s, before, after)
    PROVE  OrderTypes'
<1>1. PICK q, f : /\ Placed(In(s), pos, f, q, before, after)
                  /\ pos' = [x \in Item |-> IF x = t THEN q ELSE IF x \in In(s) THEN f[x] ELSE pos[x]]
  <2>1. MoveTo(t, s, before, after)
    BY DEF MoveTaskTo
  <2> QED BY <2>1, MoveToPlaced
<1>2. pos' \in [Item -> Int]
  BY <1>1 DEF Placed, OrderTypes
<1>3. section' \in [Item -> Section \cup {Nil, Out}]
  BY DEF MoveTaskTo, OrderTypes
<1>4. UNCHANGED <<place, creating, deleting>>
  BY DEF MoveTaskTo
<1> QED BY <1>2, <1>3, <1>4 DEF OrderTypes

\* moveSection
LEMMA MoveSectionPlaced ==
    ASSUME OrderTypes, NEW s \in Section, NEW before \in Section \cup {Nil}, NEW after \in Section \cup {Nil},
           MoveSection(s, before, after)
    PROVE  \E q, f : /\ Placed(Sections, place, f, q, before, after)
                     /\ place' = [x \in Section |-> IF x = s THEN q ELSE IF x \in Sections THEN f[x] ELSE place[x]]
<1> DEFINE at(n, f) == IF n \in Sections THEN f[n] ELSE Nil
           b == at(before, place)
           a == at(after, place)
           p == PositionBetween(b, a)
           q(f) == PositionBetween(at(before, f), at(after, f))
           again(f) == IF q(f) = Nil THEN PositionStep ELSE q(f)
<1>1. /\ p # Nil => place' = [place EXCEPT ![s] = p]
      /\ p = Nil => \E f \in Renumberings(Sections, place) :
                        place' = [x \in Section |-> IF x = s THEN again(f) ELSE IF x \in Sections THEN f[x] ELSE place[x]]
  BY DEF MoveSection
<1>2. Sections \in SUBSET Section /\ \A x \in Sections : place[x] \in Int
  BY DEF Sections, OrderTypes
<1>3. IsFiniteSet(Sections)
  BY <1>2, OrderAssumption, FS_Subset
<1>4. \A x \in Sections : place[x] # Nil
  BY <1>2, OrderAssumption
<1>5. b \in Int \cup {Nil} /\ a \in Int \cup {Nil}
  BY <1>2
<1>6. /\ before \in Sections => b = place[before]
      /\ after \in Sections => a = place[after]
      /\ before \notin Sections => b = Nil
      /\ after \notin Sections => a = Nil
  OBVIOUS
<1>7. CASE p # Nil
  <2>1. Placed(Sections, place, place, p, before, after)
    <3> HIDE DEF b, a
    <3>1. PICK r : r = p
      OBVIOUS
    <3>2. Placed(Sections, place, place, r, before, after)
      BY <1>2, <1>5, <1>6, <1>7, <3>1, PlacedAtOnce
    <3> QED BY <3>1, <3>2
  <2>2. place' = [place EXCEPT ![s] = p]
    BY <1>1, <1>7
  <2>3. place' = [x \in Section |-> IF x = s THEN p ELSE IF x \in Sections THEN place[x] ELSE place[x]]
    <3> HIDE DEF p
    <3> QED BY <2>2 DEF OrderTypes
  <2> HIDE DEF p
  <2> QED BY <2>1, <2>3
<1>8. CASE p = Nil
  <2>1. PICK f \in Renumberings(Sections, place) :
            place' = [x \in Section |-> IF x = s THEN again(f) ELSE IF x \in Sections THEN f[x] ELSE place[x]]
    BY <1>1, <1>8
  <2>2. b # Nil /\ a # Nil
    <3> HIDE DEF b, a
    <3> QED BY <1>5, <1>8, BetweenFacts
  <2>3. before \in Sections /\ after \in Sections
    BY <1>6, <2>2
  <2>4. PICK r : r = q(f)
    OBVIOUS
  <2>5. r = PositionBetween(f[before], f[after])
    BY <2>3, <2>4
  <2>6. Placed(Sections, place, f, IF r = Nil THEN PositionStep ELSE r, before, after)
    BY <1>2, <1>3, <2>3, <2>5, PlacedAgain
  <2>7. again(f) = IF r = Nil THEN PositionStep ELSE r
    BY <2>4
  <2> HIDE DEF again
  <2> QED BY <2>1, <2>6, <2>7
<1> HIDE DEF p
<1> QED BY <1>7, <1>8

LEMMA MoveSectionTypes ==
    ASSUME OrderTypes, NEW s \in Section, NEW before \in Section \cup {Nil}, NEW after \in Section \cup {Nil},
           MoveSection(s, before, after)
    PROVE  OrderTypes'
<1>1. PICK q, f : /\ Placed(Sections, place, f, q, before, after)
                  /\ place' = [x \in Section |-> IF x = s THEN q ELSE IF x \in Sections THEN f[x] ELSE place[x]]
  BY MoveSectionPlaced
<1>2. place' \in [Section -> Int \cup {Out}]
  BY <1>1 DEF Placed, OrderTypes
<1>3. UNCHANGED <<section, pos, creating, deleting>>
  BY DEF MoveSection
<1> QED BY <1>2, <1>3 DEF OrderTypes

-----------------------------------------------------------------------------
(* The deletion of a section.                                              *)

LEMMA StepsGrow ==
    ASSUME NEW i \in Int, NEW j \in Int, i < j
    PROVE  PositionStep * i < PositionStep * j
<1>1. PositionStep \in Int /\ PositionStep > 1
  BY OrderAssumption
<1>2. PICK k \in Nat : j = i + k /\ k >= 1
  <2>1. j - i \in Nat /\ j = i + (j - i) /\ j - i >= 1
    OBVIOUS
  <2> QED BY <2>1
<1>3. PositionStep * j = PositionStep * i + PositionStep * k
  BY <1>1, <1>2
<1>4. PositionStep * k >= PositionStep
  BY <1>1, <1>2
<1> QED BY <1>1, <1>3, <1>4

Carried == {deleting.tasks[i] : i \in DOMAIN deleting.tasks}

\* The tasks read arrive one step apart, after those at the destination; the others keep
\* their place; the section goes.
Emptied(last, n) ==
    /\ last \in Int /\ \A x \in In(deleting.target) : pos[x] <= last
    /\ deleting.section \in Sections /\ deleting.target \in Section \cup {Nil}
    /\ deleting.tasks \in [1..n -> Item]
    /\ section' = [t \in Item |-> IF t \in Carried THEN deleting.target
                                  ELSE IF section[t] = deleting.section THEN Nil ELSE section[t]]
    /\ pos' \in [Item -> Int]
    /\ \A i \in 1..n : pos'[deleting.tasks[i]] = last + PositionStep * i
    /\ \A x \in Item \ Carried : pos'[x] = pos[x]
    /\ place' = [place EXCEPT ![deleting.section] = Out]

LEMMA DeletionForms ==
    ASSUME OrderTypes, DeleteSectionRows
    PROVE  (UNCHANGED <<section, pos, place>>) \/ \E last \in Int, n \in Nat : Emptied(last, n)
<1> DEFINE last == IF In(deleting.target) = {} THEN 0 ELSE Largest(Places(deleting.target))
           rank(t) == CHOOSE i \in DOMAIN deleting.tasks : deleting.tasks[i] = t
<1>1. Reading(deleting)
  BY DEF OrderTypes, DeleteSectionRows
<1>2. PICK n \in Nat : /\ deleting.tasks \in [1..n -> Item]
                       /\ \A i, j \in 1..n : i < j => deleting.tasks[i] # deleting.tasks[j]
  BY <1>1 DEF Reading
<1>3. CASE UNCHANGED <<section, pos, place>>
  BY <1>3
<1>4. CASE /\ deleting.section \in Sections
           /\ section' = [t \in Item |-> IF t \in Carried THEN deleting.target
                                        ELSE IF section[t] = deleting.section THEN Nil ELSE section[t]]
           /\ pos' = [t \in Item |-> IF t \in Carried THEN last + PositionStep * rank(t) ELSE pos[t]]
           /\ place' = [place EXCEPT ![deleting.section] = Out]
  <2>1. last \in Int /\ \A x \in In(deleting.target) : pos[x] <= last
    <3>1. CASE In(deleting.target) = {}
      BY <3>1
    <3>2. CASE In(deleting.target) # {}
      <4>1. PICK P : P = Places(deleting.target)
        OBVIOUS
      <4>2. IsFiniteSet(P) /\ P \subseteq Int /\ P # {}
        BY <3>2, <4>1, PlacesFinite
      <4>3. Largest(P) \in Int /\ \A y \in P : y <= Largest(P)
        BY <4>2, Extremes
      <4>4. \A x \in In(deleting.target) : pos[x] \in P
        BY <4>1 DEF Places
      <4> QED BY <3>2, <4>1, <4>3, <4>4
    <3> QED BY <3>1, <3>2
  <2>2. ASSUME NEW i \in 1..n, NEW j \in 1..n, deleting.tasks[i] = deleting.tasks[j] PROVE i = j
    <3>1. ~(i < j) /\ ~(j < i)
      BY <1>2, <2>2
    <3>2. i \in Int /\ j \in Int
      OBVIOUS
    <3> QED BY <3>1, <3>2
  <2>3. DOMAIN deleting.tasks = 1..n
    BY <1>2
  <2>4. ASSUME NEW i \in 1..n PROVE rank(deleting.tasks[i]) = i
    BY <2>2, <2>3
  <2>5. \A i \in 1..n : deleting.tasks[i] \in Carried /\ deleting.tasks[i] \in Item
    BY <1>2, <2>3 DEF Carried
  <2>6. \A i \in 1..n : pos'[deleting.tasks[i]] = last + PositionStep * i
    <3> HIDE DEF last, rank
    <3> QED BY <1>4, <2>4, <2>5
  <2>7. \A x \in Item \ Carried : pos'[x] = pos[x]
    BY <1>4
  <2>8. pos' \in [Item -> Int]
    <3>1. \A x \in Carried : \E i \in 1..n : x = deleting.tasks[i]
      BY <2>3 DEF Carried
    <3>2. \A i \in 1..n : last + PositionStep * i \in Int
      BY <2>1, OrderAssumption
    <3>3. \A x \in Item : pos'[x] \in Int
      BY <2>6, <2>7, <3>1, <3>2 DEF OrderTypes
    <3> HIDE DEF last, rank
    <3> QED BY <1>4, <3>3
  <2>9. PICK m \in Int : m = last
    BY <2>1
  <2> HIDE DEF last, rank
  <2>10. Emptied(m, n)
    <3>1. section' = [t \in Item |-> IF t \in Carried THEN deleting.target
                                    ELSE IF section[t] = deleting.section THEN Nil ELSE section[t]]
      BY <1>4
    <3>2. place' = [place EXCEPT ![deleting.section] = Out]
      BY <1>4
    <3>3. deleting.section \in Sections /\ deleting.target \in Section \cup {Nil}
      BY <1>1, <1>4 DEF Reading
    <3> QED BY <1>2, <2>1, <2>6, <2>7, <2>8, <2>9, <3>1, <3>2, <3>3 DEF Emptied
  <2> QED BY <2>10
<1>5. \/ UNCHANGED <<section, pos, place>>
      \/ /\ deleting.section \in Sections
         /\ section' = [t \in Item |-> IF t \in Carried THEN deleting.target
                                        ELSE IF section[t] = deleting.section THEN Nil ELSE section[t]]
         /\ pos' = [t \in Item |-> IF t \in Carried THEN last + PositionStep * rank(t) ELSE pos[t]]
         /\ place' = [place EXCEPT ![deleting.section] = Out]
  BY DEF DeleteSectionRows, Carried
<1> HIDE DEF last, rank
<1> QED BY <1>3, <1>4, <1>5

LEMMA DeletionTypes ==
    ASSUME OrderTypes, DeleteSectionRows
    PROVE  OrderTypes'
<1>1. creating' = creating /\ deleting' = Nil
  BY DEF DeleteSectionRows
<1>2. CASE UNCHANGED <<section, pos, place>>
  BY <1>1, <1>2 DEF OrderTypes
<1>3. CASE \E last \in Int, n \in Nat : Emptied(last, n)
  <2>1. PICK last \in Int, n \in Nat : Emptied(last, n)
    BY <1>3
  <2>2. section' \in [Item -> Section \cup {Nil, Out}]
    BY <2>1 DEF Emptied, OrderTypes
  <2>3. place' \in [Section -> Int \cup {Out}] /\ pos' \in [Item -> Int]
    BY <2>1 DEF Emptied, OrderTypes
  <2> QED BY <1>1, <2>2, <2>3 DEF OrderTypes
<1> QED BY <1>2, <1>3, DeletionForms

-----------------------------------------------------------------------------
\* A step of OrderNext, its parameters named.
LEMMA OrderSteps ==
    ASSUME OrderNext
    PROVE  \/ \E t, anchor \in Item, s \in Section \cup {Nil}, where \in {"top", "bottom", "after"} :
                 ReadPlace(t, s, where, anchor)
           \/ \E t \in Item, s \in Section \cup {Nil}, before, after \in Item \cup {Nil} :
                 MoveTaskTo(t, s, before, after)
           \/ \E t, n \in Item : SpawnOccurrence(t, n)
           \/ \E t, n \in Item : Duplicate(t, n)
           \/ \E t \in Item : LeaveProject(t)
           \/ \E c \in creating : CreateTaskRow(c)
           \/ \E s \in Section, n \in Section \cup {Nil} : CreateSection(s, n)
           \/ \E s \in Section, n \in Section \cup {Nil} : ReadSection(s, n)
           \/ \E s \in Section, before, after \in Section \cup {Nil} : MoveSection(s, before, after)
           \/ DeleteSectionRows
BY DEF OrderNext

\* The tables hold what their columns hold, whatever is created, moved or deleted.
THEOREM OrderInvariant == OrderSpec => []OrderTypes
<1>1. OrderInit => OrderTypes
  BY OrderAssumption DEF OrderInit, OrderTypes
<1>2. OrderTypes /\ [OrderNext]_orderVars => OrderTypes'
  <2> SUFFICES ASSUME OrderTypes, [OrderNext]_orderVars PROVE OrderTypes'
    OBVIOUS
  <2>1. CASE UNCHANGED orderVars
    BY <2>1 DEF OrderTypes, orderVars
  <2>2. CASE OrderNext
    BY <2>2, OrderSteps, ReadPlaceTypes, MoveTaskTypes, SpawnTypes, DuplicateTypes, LeaveTypes, CreateTaskRowTypes,
       CreateSectionTypes, ReadSectionTypes, MoveSectionTypes, DeletionTypes
  <2> QED BY <2>1, <2>2
<1> QED BY <1>1, <1>2, PTL DEF OrderSpec

-----------------------------------------------------------------------------
(* An item lands where it was dropped.                                     *)

LEMMA TaskLands ==
    ASSUME OrderTypes, NEW t \in Item, NEW s, NEW before \in In(s) \cup {Nil}, NEW after \in In(s) \cup {Nil},
           MoveTaskTo(t, s, before, after)
    PROVE  Dropped(t, before, after, In(s), pos, pos')
<1>1. s \in Section \cup {Nil} /\ MoveTo(t, s, before, after) /\ t # before /\ t # after
  BY DEF MoveTaskTo, Sections
<1>2. In(s) \in SUBSET Item
  BY DEF In
<1>3. PICK q, f : /\ Placed(In(s), pos, f, q, before, after)
                  /\ pos' = [x \in Item |-> IF x = t THEN q ELSE IF x \in In(s) THEN f[x] ELSE pos[x]]
  <2>1. before \in Item \cup {Nil} /\ after \in Item \cup {Nil}
    BY <1>2
  <2> QED BY <1>1, <2>1, MoveToPlaced
<1>4. pos'[t] = q /\ (before \in In(s) => pos'[before] = f[before]) /\ (after \in In(s) => pos'[after] = f[after])
  BY <1>1, <1>2, <1>3
<1> QED BY <1>3, <1>4 DEF Dropped, Placed

LEMMA SectionLands ==
    ASSUME OrderTypes, NEW s \in Sections, NEW before \in Sections \cup {Nil}, NEW after \in Sections \cup {Nil},
           MoveSection(s, before, after)
    PROVE  Dropped(s, before, after, Sections, place, place')
<1>1. s # before /\ s # after
  BY DEF MoveSection
<1>2. Sections \in SUBSET Section
  BY DEF Sections
<1>3. PICK q, f : /\ Placed(Sections, place, f, q, before, after)
                  /\ place' = [x \in Section |-> IF x = s THEN q ELSE IF x \in Sections THEN f[x] ELSE place[x]]
  BY <1>2, MoveSectionPlaced
<1>4. place'[s] = q /\ (before \in Sections => place'[before] = f[before]) /\ (after \in Sections => place'[after] = f[after])
  BY <1>1, <1>2, <1>3
<1> QED BY <1>3, <1>4 DEF Dropped, Placed

LEMMA Lands == OrderTypes => LandsBetween
<1> SUFFICES ASSUME OrderTypes PROVE LandsBetween
  OBVIOUS
<1>1. ASSUME NEW t \in Item, NEW before \in In(section'[t]) \cup {Nil}, NEW after \in In(section'[t]) \cup {Nil},
             MoveTaskTo(t, section'[t], before, after)
      PROVE  Dropped(t, before, after, In(section'[t]), pos, pos')
  <2>1. PICK s : s = section'[t]
    OBVIOUS
  <2>2. before \in In(s) \cup {Nil} /\ after \in In(s) \cup {Nil} /\ MoveTaskTo(t, s, before, after)
    BY <1>1, <2>1
  <2>3. Dropped(t, before, after, In(s), pos, pos')
    BY <2>2, TaskLands
  <2> QED BY <2>1, <2>3
<1>2. ASSUME NEW s \in Sections, NEW before \in Sections \cup {Nil}, NEW after \in Sections \cup {Nil},
             MoveSection(s, before, after)
      PROVE  Dropped(s, before, after, Sections, place, place')
  BY <1>2, SectionLands
<1> QED BY <1>1, <1>2 DEF LandsBetween

-----------------------------------------------------------------------------
(* A step moves one item at most.                                          *)

\* The order of the tasks that stay in their section, but for one.
StayPut(item) ==
    \A s \in Section \cup {Nil} : \A x, y \in {t \in In(s) \ {item} : section'[t] = s} :
        pos[x] < pos[y] => pos'[x] < pos'[y]

\* No task of a section that goes; the sections keep their order, but for one.
MovesATask ==
    /\ \A s \in Sections : place'[s] # Out
    /\ \E item \in Item : StayPut(item)
    /\ \E moved \in Section : \A x, y \in Sections \ {moved} : place[x] < place[y] => place'[x] < place'[y]

LEMMA OneTask == MovesATask => MovesOne
<1> SUFFICES ASSUME MovesATask PROVE MovesOne
  OBVIOUS
<1> DEFINE gone == {s \in Sections : place'[s] = Out}
           carried == IF gone = {} THEN {} ELSE {deleting.tasks[i] : i \in DOMAIN deleting.tasks}
<1>1. gone = {} /\ carried = {}
  BY DEF MovesATask
<1>2. \E moved \in Item : \A s \in Section \cup {Nil} :
        SameOrder({t \in In(s) : section'[t] = s /\ t \notin carried \cup {moved}}, pos, pos')
  <2>1. PICK item \in Item : StayPut(item)
    BY DEF MovesATask
  <2>2. ASSUME NEW s \in Section \cup {Nil}
        PROVE  SameOrder({t \in In(s) : section'[t] = s /\ t \notin carried \cup {item}}, pos, pos')
    <3>1. {t \in In(s) : section'[t] = s /\ t \notin carried \cup {item}} = {t \in In(s) \ {item} : section'[t] = s}
      BY <1>1
    <3>2. SameOrder({t \in In(s) \ {item} : section'[t] = s}, pos, pos')
      BY <2>1 DEF StayPut, SameOrder
    <3> HIDE DEF carried
    <3> QED BY <3>1, <3>2
  <2> HIDE DEF carried
  <2> QED BY <2>1, <2>2
<1>3. \E moved \in Section : SameOrder(Sections \ (gone \cup {moved}), place, place')
  <2>1. PICK moved \in Section : \A x, y \in Sections \ {moved} : place[x] < place[y] => place'[x] < place'[y]
    BY DEF MovesATask
  <2>2. Sections \ (gone \cup {moved}) = Sections \ {moved}
    BY <1>1
  <2>3. SameOrder(Sections \ {moved}, place, place')
    BY <2>1 DEF SameOrder
  <2> HIDE DEF gone
  <2> QED BY <2>2, <2>3
<1>4. gone # {} =>
        /\ \A i, j \in DOMAIN deleting.tasks : i < j => pos'[deleting.tasks[i]] < pos'[deleting.tasks[j]]
        /\ \A t \in In(deleting.target) \ carried, c \in carried : pos'[t] < pos'[c]
  <2> HIDE DEF gone, carried
  <2> QED BY <1>1
<1> QED BY <1>2, <1>3, <1>4 DEF MovesOne

\* Neither places nor sections change, but for the place of one task.
LEMMA PlacesKept ==
    ASSUME OrderTypes, NEW item \in Item, UNCHANGED place,
           \A x \in Item : x # item => pos'[x] = pos[x]
    PROVE  MovesOne
<1>1. StayPut(item)
  BY DEF StayPut, In
<1>2. \A s \in Sections : place'[s] # Out
  BY DEF Sections
<1>3. \E moved \in Section : \A x, y \in Sections \ {moved} : place[x] < place[y] => place'[x] < place'[y]
  BY OrderAssumption
<1> QED BY <1>1, <1>2, <1>3, OneTask DEF MovesATask

LEMMA MoveTaskOne ==
    ASSUME OrderTypes, NEW t \in Item, NEW s \in Section \cup {Nil},
           NEW before \in Item \cup {Nil}, NEW after \in Item \cup {Nil}, MoveTaskTo(t, s, before, after)
    PROVE  MovesOne
<1>1. PICK q, f : /\ Placed(In(s), pos, f, q, before, after)
                  /\ pos' = [x \in Item |-> IF x = t THEN q ELSE IF x \in In(s) THEN f[x] ELSE pos[x]]
  <2>1. MoveTo(t, s, before, after)
    BY DEF MoveTaskTo
  <2> QED BY <2>1, MoveToPlaced
<1>2. StayPut(t)
  <2> SUFFICES ASSUME NEW z \in Section \cup {Nil}, NEW x \in In(z) \ {t}, NEW y \in In(z) \ {t}, pos[x] < pos[y]
               PROVE  pos'[x] < pos'[y]
    BY DEF StayPut
  <2>1. x \in Item /\ y \in Item /\ section[x] = z /\ section[y] = z
    BY DEF In
  <2>2. CASE z = s
    <3>1. x \in In(s) /\ y \in In(s)
      BY <2>2
    <3>2. pos'[x] = f[x] /\ pos'[y] = f[y]
      BY <1>1, <2>1, <3>1
    <3>3. f[x] < f[y]
      BY <1>1, <3>1 DEF Placed
    <3> QED BY <3>2, <3>3
  <2>3. CASE z # s
    <3>1. x \notin In(s) /\ y \notin In(s)
      BY <2>1, <2>3 DEF In
    <3>2. pos'[x] = pos[x] /\ pos'[y] = pos[y]
      BY <1>1, <2>1, <3>1
    <3> QED BY <3>2
  <2> QED BY <2>2, <2>3
<1>3. place' = place
  BY DEF MoveTaskTo
<1>4. \A x \in Sections : place'[x] # Out
  BY <1>3 DEF Sections
<1>5. \E moved \in Section : \A x, y \in Sections \ {moved} : place[x] < place[y] => place'[x] < place'[y]
  BY <1>3, OrderAssumption
<1> QED BY <1>2, <1>4, <1>5, OneTask DEF MovesATask

\* Only sections are created or moved: the tasks keep their places.
LEMMA TasksKept ==
    ASSUME UNCHANGED pos
    PROVE  \E item \in Item : StayPut(item)
BY OrderAssumption DEF StayPut

LEMMA CreateSectionOne ==
    ASSUME OrderTypes, NEW s \in Section, NEW anchor \in Section \cup {Nil}, CreateSection(s, anchor)
    PROVE  MovesOne
<1>1. \A x \in Section : x # s => place'[x] = place[x]
  BY DEF CreateSection, OrderTypes
<1>2. \A x \in Sections : x # s /\ x \in Section /\ place[x] # Out
  BY DEF Sections, CreateSection
<1>3. \A x \in Sections : place'[x] = place[x] /\ place'[x] # Out
  BY <1>1, <1>2
<1>4. \E item \in Item : StayPut(item)
  BY TasksKept DEF CreateSection
<1> QED BY <1>3, <1>4, OneTask DEF MovesATask

LEMMA MoveSectionOne ==
    ASSUME OrderTypes, NEW s \in Section, NEW before \in Section \cup {Nil}, NEW after \in Section \cup {Nil},
           MoveSection(s, before, after)
    PROVE  MovesOne
<1>1. PICK q, f : /\ Placed(Sections, place, f, q, before, after)
                  /\ place' = [x \in Section |-> IF x = s THEN q ELSE IF x \in Sections THEN f[x] ELSE place[x]]
  BY MoveSectionPlaced
<1>2. \A x \in Sections : x \in Section
  BY DEF Sections
<1>3. \A x \in Sections : place'[x] = IF x = s THEN q ELSE f[x]
  BY <1>1, <1>2
<1>4. \A x \in Sections : place'[x] \in Int
  BY <1>1, <1>3 DEF Placed
<1>5. \A x \in Sections : place'[x] # Out
  BY <1>4, OrderAssumption
<1>6. \A x, y \in Sections \ {s} : place[x] < place[y] => place'[x] < place'[y]
  BY <1>1, <1>3 DEF Placed
<1>7. \E item \in Item : StayPut(item)
  BY TasksKept DEF MoveSection
<1> QED BY <1>5, <1>6, <1>7, OneTask DEF MovesATask

\* The tasks carried arrive in the order they were read in, after the others.
LEMMA DeletionOne ==
    ASSUME OrderTypes, NEW last \in Int, NEW n \in Nat, Emptied(last, n)
    PROVE  MovesOne
<1> DEFINE gone == {s \in Sections : place'[s] = Out}
           carried == IF gone = {} THEN {} ELSE {deleting.tasks[i] : i \in DOMAIN deleting.tasks}
<1>1. \A x \in Section : place'[x] = IF x = deleting.section THEN Out ELSE place[x]
  BY DEF Emptied, OrderTypes
<1>2. gone = Sections \cap {deleting.section}
  BY <1>1 DEF Sections
<1>3. DOMAIN deleting.tasks = 1..n /\ \A i \in 1..n : pos'[deleting.tasks[i]] = last + PositionStep * i
  BY DEF Emptied
<1>4. \A i, j \in 1..n : i < j => pos'[deleting.tasks[i]] < pos'[deleting.tasks[j]]
  <2> SUFFICES ASSUME NEW i \in 1..n, NEW j \in 1..n, i < j PROVE pos'[deleting.tasks[i]] < pos'[deleting.tasks[j]]
    OBVIOUS
  <2>1. PositionStep * i < PositionStep * j
    BY StepsGrow
  <2>2. PositionStep * i \in Int /\ PositionStep * j \in Int
    BY OrderAssumption
  <2>3. last + PositionStep * i < last + PositionStep * j
    <3>1. PICK a \in Int, b \in Int : a = PositionStep * i /\ b = PositionStep * j
      BY <2>2
    <3> QED BY <2>1, <3>1
  <2> QED BY <1>3, <2>3
<1>5. ASSUME NEW t \in In(deleting.target) \ Carried, NEW c \in Carried PROVE pos'[t] < pos'[c]
  <2>1. PICK i \in 1..n : c = deleting.tasks[i]
    BY <1>3 DEF Carried
  <2>2. pos'[t] = pos[t] /\ pos[t] <= last /\ pos[t] \in Int
    BY DEF Emptied, In, OrderTypes
  <2>3. PositionStep * i > 0
    BY OrderAssumption
  <2>4. PICK a \in Int : a = PositionStep * i
    BY OrderAssumption
  <2>5. pos'[c] = last + a /\ a > 0
    BY <1>3, <2>1, <2>3, <2>4
  <2> QED BY <2>2, <2>5
<1>6. \E moved \in Section : SameOrder(Sections \ (gone \cup {moved}), place, place')
  <2>1. deleting.section \in Section
    BY DEF Emptied, Sections
  <2>2. \A x \in Sections \ {deleting.section} : place'[x] = place[x]
    BY <1>1 DEF Sections
  <2>3. SameOrder(Sections \ (gone \cup {deleting.section}), place, place')
    <3> HIDE DEF gone
    <3> QED BY <2>2 DEF SameOrder
  <2> HIDE DEF gone
  <2> QED BY <2>1, <2>3
<1>7. gone # {}
  <2>1. deleting.section \in Sections
    BY DEF Emptied
  <2> HIDE DEF gone
  <2> QED BY <1>2, <2>1
<1>8. carried = Carried
  BY <1>7 DEF Carried
<1>9. \E moved \in Item : \A s \in Section \cup {Nil} :
        SameOrder({t \in In(s) : section'[t] = s /\ t \notin carried \cup {moved}}, pos, pos')
  <2> HIDE DEF carried
  <2>1. PICK item : item \in Item
    BY OrderAssumption
  <2>2. ASSUME NEW s \in Section \cup {Nil}
        PROVE  SameOrder({t \in In(s) : section'[t] = s /\ t \notin carried \cup {item}}, pos, pos')
    <3>1. \A x \in In(s) : x \notin carried => pos'[x] = pos[x]
      BY <1>8 DEF Emptied, In
    <3> QED BY <3>1 DEF SameOrder
  <2> QED BY <2>1, <2>2
<1>10. gone # {} =>
        /\ \A i, j \in DOMAIN deleting.tasks : i < j => pos'[deleting.tasks[i]] < pos'[deleting.tasks[j]]
        /\ \A t \in In(deleting.target) \ carried, c \in carried : pos'[t] < pos'[c]
  <2> HIDE DEF gone, carried
  <2> QED BY <1>3, <1>4, <1>5, <1>8
<1> QED BY <1>6, <1>9, <1>10 DEF MovesOne

LEMMA NextMovesOne ==
    ASSUME OrderTypes, OrderNext
    PROVE  MovesOne
<1>1. ASSUME NEW t \in Item, NEW anchor \in Item, NEW s \in Section \cup {Nil}, NEW where, ReadPlace(t, s, where, anchor)
      PROVE  MovesOne
  <2>1. UNCHANGED <<pos, place>>
    BY <1>1 DEF ReadPlace
  <2> QED BY <2>1, PlacesKept
<1>2. ASSUME NEW t \in Item, NEW n \in Item, SpawnOccurrence(t, n) PROVE MovesOne
  <2>1. place' = place /\ \A x \in Item : x # n => pos'[x] = pos[x]
    BY <1>2 DEF SpawnOccurrence, OrderTypes
  <2> QED BY <2>1, PlacesKept
<1>3. ASSUME NEW t \in Item, NEW n \in Item, Duplicate(t, n) PROVE MovesOne
  <2>1. place' = place /\ \A x \in Item : x # n => pos'[x] = pos[x]
    BY <1>3 DEF Duplicate, OrderTypes
  <2> QED BY <2>1, PlacesKept
<1>4. ASSUME NEW t \in Item, LeaveProject(t) PROVE MovesOne
  <2>1. place' = place /\ \A x \in Item : x # t => pos'[x] = pos[x]
    BY <1>4 DEF LeaveProject, OrderTypes
  <2> QED BY <2>1, PlacesKept
<1>5. ASSUME NEW c \in creating, CreateTaskRow(c) PROVE MovesOne
  <2>1. c.task \in Item
    BY DEF OrderTypes
  <2>2. place' = place
    BY <1>5 DEF CreateTaskRow
  <2>3. \A x \in Item : x # c.task => pos'[x] = pos[x]
    BY <1>5 DEF CreateTaskRow, OrderTypes
  <2>4. PICK item \in Item : item = c.task
    BY <2>1
  <2> QED BY <2>2, <2>3, <2>4, PlacesKept
<1>6. ASSUME NEW s \in Section, NEW target \in Section \cup {Nil}, ReadSection(s, target) PROVE MovesOne
  <2>1. UNCHANGED <<pos, place>>
    BY <1>6 DEF ReadSection
  <2>2. PICK item : item \in Item
    BY OrderAssumption
  <2> QED BY <2>1, <2>2, PlacesKept
<1>7. ASSUME DeleteSectionRows PROVE MovesOne
  <2>1. CASE UNCHANGED <<section, pos, place>>
    <3>1. PICK item : item \in Item
      BY OrderAssumption
    <3> QED BY <2>1, <3>1, PlacesKept
  <2>2. CASE \E last \in Int, n \in Nat : Emptied(last, n)
    BY <2>2, DeletionOne
  <2> QED BY <1>7, <2>1, <2>2, DeletionForms
<1> QED BY <1>1, <1>2, <1>3, <1>4, <1>5, <1>6, <1>7, OrderSteps, MoveTaskOne, CreateSectionOne, MoveSectionOne

\* DropsLand: what a person drops, renumbered or not, lands between its neighbours, and
\* whatever is created, copied, moved or deleted the others keep their order.
THEOREM DropsLandHolds == OrderSpec => DropsLand
<1>1. OrderTypes => [LandsBetween]_orderVars
  BY Lands
<1>2. OrderTypes /\ [OrderNext]_orderVars => [MovesOne]_orderVars
  BY NextMovesOne
<1> QED BY <1>1, <1>2, OrderInvariant, PTL DEF OrderSpec, DropsLand, PlacedBetween, OthersKeepTheirOrder
=============================================================================
