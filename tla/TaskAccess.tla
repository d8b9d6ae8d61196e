----------------------------- MODULE TaskAccess -----------------------------
(***************************************************************************)
(* The tables of the work-management module that decide who may see and    *)
(* change a task, and the access rules of src/lib/tasks/access.ts.         *)
(*                                                                         *)
(* One workspace is modelled: every query of the code starts with the      *)
(* workspace of the session, so two workspaces never meet.  A row is       *)
(* "unborn" before its INSERT and "erased" after its DELETE; identifiers   *)
(* are never reused.  Dates are reduced to what the code compares: a       *)
(* trashed task keeps whether it carries the same deleted_at as its parent *)
(* (sameStamp) and the project it went to the trash with.                  *)
(***************************************************************************)
EXTENDS FiniteSets

CONSTANTS
    User,       \* people of the workspace
    Project,    \* identifiers of project rows
    Task,       \* identifiers of task rows
    None        \* the SQL NULL

Role  == {"OWNER", "EDITOR", "COMMENTER"}
State == {"unborn", "active", "trashed", "erased"}

ASSUME NoneAssumption == None \notin User \cup Project \cup Task \cup Role

VARIABLES
    \* table projects, and project_members
    project,        \* "unborn", "active", "trashed" (deleted_at) or "erased"
    archived,       \* projects with archived_at set
    owner,          \* owner_id
    founder,        \* created_by_id of a project
    role,           \* role[p][u]: role of the member u of p, or None
    \* table tasks, task_projects and task_followers
    task,           \* "unborn", "active", "trashed" (deleted_at) or "erased"
    parent,         \* parent_id
    memberOf,       \* projects of the task (rows of task_projects)
    creator,        \* created_by_id of a task
    assignee,       \* assignee_id
    collaborators,  \* followers of kind COLLABORATOR
    sameStamp,      \* trashed subtasks whose deleted_at is their parent's
    deletedWith,    \* deleted_with_project_id
    deletedBy       \* deleted_by_id of a task

peopleVars == <<archived, owner, founder, role>>
trashVars  == <<sameStamp, deletedWith, deletedBy>>
rightVars  == <<creator, assignee, collaborators>>

-----------------------------------------------------------------------------
(* Projects.                                                               *)

\* Owner of the project, be it active or in the trash.
IsProjectOwner(u, p) ==
    \/ role[p][u] = "OWNER"
    \/ owner[p] = u
    \/ owner[p] = None /\ founder[p] = u

CanReadProject(u, p) ==
    /\ project[p] = "active"
    /\ role[p][u] # None \/ IsProjectOwner(u, p)

\* A COMMENTER never edits, not even when owner_id names them.
CanEditProjectContent(u, p) ==
    /\ project[p] = "active"
    /\ p \notin archived
    /\ \/ role[p][u] \in {"OWNER", "EDITOR"}
       \/ role[p][u] = None /\ IsProjectOwner(u, p)

CanManageProject(u, p) == project[p] = "active" /\ IsProjectOwner(u, p)

\* The people u may name as assignee or collaborator.
InDirectory(u, v) ==
    \/ v = u
    \/ \E p \in Project : /\ CanReadProject(u, p)
                          /\ role[p][v] # None \/ owner[p] = v

-----------------------------------------------------------------------------
(* Tasks.  The rights on a subtask are those on its parent: the code looks *)
(* one level up and no further.                                            *)

Root(t)           == IF parent[t] = None THEN t ELSE parent[t]
Children(t)       == {c \in Task : parent[c] = t}
ActiveChildren(t) == {c \in Children(t) : task[c] = "active"}
LiveProjects(t)   == {p \in memberOf[t] : project[p] = "active"}
Involved(t)       == ({assignee[t], creator[t]} \ {None}) \cup collaborators[t]

\* Read by the root only: a readable project, or a free task one is part of.
\* A task whose projects are all in the trash is not free: nobody reads it.
ReadsRoot(u, r) ==
    \/ \E p \in memberOf[r] : CanReadProject(u, p)
    \/ memberOf[r] = {} /\ u \in Involved(r)

CanRead(u, t) ==
    /\ task[t] = "active"
    /\ task[Root(t)] = "active"
    /\ ReadsRoot(u, Root(t))

EditableRoot(u, r) ==
    memberOf[r] = {} \/ \E p \in memberOf[r] : CanEditProjectContent(u, p)

CanEdit(u, t) ==
    /\ CanRead(u, t)
    /\ EditableRoot(u, Root(t)) \/ u \in Involved(t) \cup Involved(Root(t))

\* Delete, duplicate, attach, reparent, reassign, share.
CanManage(u, t) == CanRead(u, t) /\ EditableRoot(u, Root(t))

\* Rights on a task of the trash.  Trashed with a project: it comes back with
\* that project.  All its projects in the trash: it waits for one of them.
CanRestore(u, t) ==
    LET r == Root(t) IN
    /\ deletedWith[t] = None
    /\ \/ memberOf[r] = {} /\ (u \in Involved(r) \/ deletedBy[t] = u)
       \/ \E p \in LiveProjects(r) : CanEditProjectContent(u, p)

CanPurge(u, t) ==
    LET r == Root(t) IN
    /\ deletedWith[t] = None
    /\ \/ memberOf[r] = {} /\ u \in {creator[t], deletedBy[t]}
       \/ /\ LiveProjects(r) # {}
          /\ \A p \in memberOf[r] : IsProjectOwner(u, p)

-----------------------------------------------------------------------------
(* The people behind a right, used to compare a task before and after.     *)

Readers(t) == {u \in User : CanRead(u, t)}

\* Everybody who reads the task, or would once it and its projects are out
\* of the trash.
MayRead(t) ==
    LET r == Root(t) IN
    {u \in User :
        \/ \E p \in memberOf[r] : role[p][u] # None \/ IsProjectOwner(u, p)
        \/ memberOf[r] = {} /\ u \in Involved(r)}
=============================================================================
