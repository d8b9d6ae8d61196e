----------------------------- MODULE TaskUpdate -----------------------------
(***************************************************************************)
(* Edits of the fields of one task by concurrent requests                  *)
(* (updateTaskFields in src/lib/tasks/service.ts): the field conflicts,    *)
(* the compare-and-set on version, the approval circuit and the next       *)
(* occurrence of a recurring task.                                         *)
(*                                                                         *)
(* The other fields (title, dates, priority...) follow the same path as    *)
(* the five of the model and are left out.  The rights are fixed: everyone *)
(* in Person may edit the task, a Manager may reassign it as well.         *)
(***************************************************************************)
EXTENDS Integers

CONSTANTS
    Request,        \* requests a server may be handling at the same time
    Person,
    Manager,        \* project editors (canManage)
    Active,         \* the statuses other than DONE
    InProgress,     \* where a request without last active status is reopened
    Patch,          \* what people may ask for: for each field, a value or Keep
    MaxVersion,     \* bound on the writes of the task
    Keep,
    None

Field  == {"status", "isApproval", "approval", "assignee", "recurring"}
Status == Active \cup {"DONE"}
Approval == {"PENDING", "APPROVED", "CHANGES_REQUESTED"}

Patches ==
    [status     : Status \cup {Keep},
     isApproval : BOOLEAN \cup {Keep},
     approval   : Approval \cup {None, Keep},
     assignee   : Person \cup {None, Keep},
     recurring  : BOOLEAN \cup {Keep}]

Row ==
    [status     : Status,
     isApproval : BOOLEAN,
     approval   : Approval \cup {None},
     assignee   : Person \cup {None},
     recurring  : BOOLEAN,
     lastActive : Active \cup {None},
     trashed    : BOOLEAN,
     version    : Nat]

ASSUME TaskUpdateAssumption ==
    /\ Manager \subseteq Person
    /\ InProgress \in Active /\ "DONE" \notin Active
    /\ Patch \subseteq Patches
    /\ MaxVersion \in Nat
    /\ None \notin Person \cup Active \cup Approval
    /\ Keep \notin Person \cup Status \cup Approval \cup {None}
    /\ Keep \notin BOOLEAN

VARIABLES
    task,           \* the row of the task
    occurrences,    \* tasks whose recurrence_origin_id is the task
    \* the requests
    pc,
    who,
    patch,
    base,           \* the values the client saw in the fields it changes, or None
    seen            \* the row read, when everything was checked on it

requests == <<pc, who, patch, base, seen>>
vars     == <<task, occurrences, requests>>

\* A task before these edits.  Created, with the status asked for, it is pending if
\* it is a request; or it was completed and reopened since, and then its last
\* active status is known and its next occurrence may exist.
Init ==
    /\ \E request, recurring \in BOOLEAN, a \in Person \cup {None}, s \in Status,
          last \in Active \cup {None} :
          /\ task = [status |-> s, isApproval |-> request,
                     approval |-> IF request THEN "PENDING" ELSE None,
                     assignee |-> a, recurring |-> recurring, lastActive |-> last,
                     trashed |-> FALSE, version |-> 0]
          /\ last # None => s # "DONE"
          /\ occurrences \in IF last = None THEN {0} ELSE {0, 1}
    /\ pc    = [r \in Request |-> "idle"]
    /\ who   = [r \in Request |-> None]
    /\ patch = [r \in Request |-> None]
    /\ base  = [r \in Request |-> None]
    /\ seen  = [r \in Request |-> None]

-----------------------------------------------------------------------------
(* What a patch p of user u does to the row it was checked on.             *)

Changes(row, p) == {f \in Field : p[f] # Keep /\ p[f] # row[f]}

\* The value of a field once the patch is applied.
New(row, p, f) == IF p[f] = Keep THEN row[f] ELSE p[f]

Approves(row, p)        == "approval" \in Changes(row, p) /\ p.approval = "APPROVED"
RequestsChanges(row, p) == "approval" \in Changes(row, p) /\ p.approval = "CHANGES_REQUESTED"

\* Approving completes the request, asking for changes reopens it, unless the
\* patch changes the status itself.
WritesStatus(row, p) ==
    \/ "status" \in Changes(row, p)
    \/ Approves(row, p)
    \/ RequestsChanges(row, p) /\ row.status = "DONE"

NewStatus(row, p) ==
    IF "status" \in Changes(row, p) THEN p.status
    ELSE IF Approves(row, p) THEN "DONE"
    ELSE IF RequestsChanges(row, p) /\ row.status = "DONE"
         THEN IF row.lastActive = None THEN InProgress ELSE row.lastActive
    ELSE row.status

\* Seeded fault: an approval is not taken for a completion.
CompletesByStatus(row, p) == "status" \in Changes(row, p) /\ p.status = "DONE"

Completes(row, p) == WritesStatus(row, p) /\ NewStatus(row, p) = "DONE"

\* Reopening an approved request makes it pending again.
ReopensApproved(row, p) ==
    /\ WritesStatus(row, p) /\ row.status = "DONE" /\ NewStatus(row, p) # "DONE"
    /\ New(row, p, "isApproval") /\ New(row, p, "approval") = "APPROVED"

\* Seeded fault: a task that is no request any more keeps its approval.
NewApprovalKept(row, p) ==
    IF ReopensApproved(row, p) THEN "PENDING"
    ELSE IF "approval" \in Changes(row, p) THEN p.approval
    ELSE IF "isApproval" \in Changes(row, p) /\ row.approval = None THEN "PENDING"
    ELSE row.approval

NewApproval(row, p) ==
    IF ReopensApproved(row, p) THEN "PENDING"
    ELSE IF "approval" \in Changes(row, p) THEN p.approval
    ELSE IF "isApproval" \in Changes(row, p)
         THEN IF ~p.isApproval THEN None
              ELSE IF row.approval = None THEN "PENDING" ELSE row.approval
    ELSE row.approval

\* Seeded fault: whoever manages the task decides.
IsApproverOrManager(row, p, u) == New(row, p, "assignee") = u \/ u \in Manager

\* Who may approve or ask for changes: the assignee, or a manager if there is
\* none.
IsApprover(row, p, u) ==
    IF New(row, p, "assignee") # None THEN New(row, p, "assignee") = u ELSE u \in Manager

\* The refusals.
Allowed(row, p, u) ==
    /\ "assignee" \in Changes(row, p) => u \in Manager
    /\ Approves(row, p) \/ RequestsChanges(row, p) => IsApprover(row, p, u)
    /\ Completes(row, p) /\ New(row, p, "isApproval") => New(row, p, "approval") = "APPROVED"
    /\ "approval" \in Changes(row, p) /\ p.approval # None => New(row, p, "isApproval")

Updated(row, p) ==
    [status     |-> NewStatus(row, p),
     isApproval |-> New(row, p, "isApproval"),
     approval   |-> NewApproval(row, p),
     assignee   |-> New(row, p, "assignee"),
     recurring  |-> New(row, p, "recurring"),
     lastActive |-> IF Completes(row, p) /\ row.status # "DONE" THEN row.status
                                                               ELSE row.lastActive,
     trashed    |-> row.trashed,
     version    |-> row.version + 1]

-----------------------------------------------------------------------------
(* The steps of a request.                                                 *)

\* The request ends.
Done(r) ==
    /\ pc'    = [pc EXCEPT ![r] = "idle"]
    /\ who'   = [who EXCEPT ![r] = None]
    /\ patch' = [patch EXCEPT ![r] = None]
    /\ base'  = [base EXCEPT ![r] = None]
    /\ seen'  = [seen EXCEPT ![r] = None]

Goto(r, label) == pc' = [pc EXCEPT ![r] = label] /\ UNCHANGED <<who, patch, base>>

\* A client sends a patch, with the values it has on its screen or without.
Send(r, u, p) ==
    /\ pc[r] = "idle"
    /\ pc'    = [pc EXCEPT ![r] = "sent"]
    /\ who'   = [who EXCEPT ![r] = u]
    /\ patch' = [patch EXCEPT ![r] = p]
    /\ \E b \in {None, [f \in Field |-> IF p[f] = Keep THEN Keep ELSE task[f]]} :
          base' = [base EXCEPT ![r] = b]
    /\ UNCHANGED <<task, occurrences, seen>>

\* requireTaskEdit: the task is not in the trash.
Authorise(r) ==
    /\ pc[r] = "sent"
    /\ IF task.trashed THEN Done(r) ELSE Goto(r, "authorised") /\ UNCHANGED seen
    /\ UNCHANGED <<task, occurrences>>

\* Seeded fault: the values the client saw are not compared.
ConflictsNever(r) == FALSE

\* A field the client changes is not what it saw any more.
Conflicts(r) ==
    base[r] # None /\ \E f \in Field : patch[r][f] # Keep /\ base[r][f] # task[f]

\* The row is read, and the patch checked on it; every refusal ends the request.
Read(r) ==
    /\ pc[r] = "authorised"
    /\ IF ~Conflicts(r) /\ Changes(task, patch[r]) # {} /\ Allowed(task, patch[r], who[r])
       THEN Goto(r, "write") /\ seen' = [seen EXCEPT ![r] = task]
       ELSE Done(r)
    /\ UNCHANGED <<task, occurrences>>

\* Seeded fault: the write does not look at the version.
UnchangedSinceAlways(r) == TRUE

UnchangedSince(r) == task.version = seen[r].version

\* Seeded fault: every completion creates an occurrence.
SpawnedAgain(r) == occurrences + 1

\* The next occurrence, created with the completion, once.
Spawned(r) == IF occurrences = 0 THEN 1 ELSE occurrences

\* The transaction: the row is written if nobody wrote it since it was read.
Write(r) ==
    /\ pc[r] = "write"
    /\ task.version < MaxVersion
    /\ IF UnchangedSince(r)
       THEN /\ task' = Updated(seen[r], patch[r])
            /\ occurrences' =
                  IF Completes(seen[r], patch[r]) /\ New(seen[r], patch[r], "recurring")
                  THEN Spawned(r) ELSE occurrences
       ELSE UNCHANGED <<task, occurrences>>
    /\ Done(r)

\* The structure lock is busy, the connection is lost, the process stops: the
\* request ends without having written.
Abandon(r) ==
    /\ pc[r] # "idle"
    /\ Done(r)
    /\ UNCHANGED <<task, occurrences>>

\* Another operation trashes the task or takes it out of the trash.
TrashOrRestore ==
    /\ task.version < MaxVersion
    /\ task' = [task EXCEPT !.trashed = ~@, !.version = @ + 1]
    /\ UNCHANGED <<occurrences, requests>>

\* The next occurrence is erased from the trash.
PurgeOccurrence ==
    /\ occurrences > 0
    /\ occurrences' = occurrences - 1
    /\ UNCHANGED <<task, requests>>

Next ==
    \/ \E r \in Request :
          \/ \E u \in Person, p \in Patch : Send(r, u, p)
          \/ Authorise(r) \/ Read(r) \/ Write(r) \/ Abandon(r)
    \/ TrashOrRestore \/ PurgeOccurrence

Spec == Init /\ [][Next]_vars

-----------------------------------------------------------------------------
(* Properties.                                                             *)

TypeOK ==
    /\ task \in Row
    /\ task.approval # None => task.isApproval
    /\ occurrences \in Nat
    /\ pc \in [Request -> {"idle", "sent", "authorised", "write"}]
    /\ \A r \in Request :
          /\ pc[r] # "idle" => who[r] \in Person /\ patch[r] \in Patch
          /\ pc[r] = "write" => seen[r] \in Row
          /\ base[r] = None \/ \A f \in Field : patch[r][f] = Keep => base[r][f] = Keep

\* "Completing a recurring task creates the next occurrence once" (docs/tasks.md):
\* double clicks and reopenings never make a second one.
OneOccurrence == occurrences <= 1

\* ... "in the same transaction": no completed step of a recurring task is left
\* without its next occurrence.
CompletionLeavesNext ==
    [][task.status # "DONE" /\ task'.status = "DONE" /\ task'.recurring => occurrences' = 1]_vars

\* A task has one next occurrence from the moment it is completed, and never two.
OneNextOccurrence ==
    [][/\ OneOccurrence'
       /\ task.status # "DONE" /\ task'.status = "DONE" /\ task'.recurring => occurrences' = 1]_vars

\* "An approval request cannot be completed before it is approved" (docs/tasks.md),
\* even if it becomes a request while somebody completes it; and one that is
\* reopened never keeps the approval of its former state.
ApprovalFollowsStatus ==
    [][task'.isApproval =>
         /\ task.status # "DONE" /\ task'.status = "DONE" => task'.approval = "APPROVED"
         /\ task.status = "DONE" /\ task'.status # "DONE" => task'.approval # "APPROVED"]_vars

\* "Only its assignee (or, without assignee, a project editor) approves or
\* requests changes" (docs/tasks.md): the assignee of the moment of the decision,
\* even if the task is reassigned meanwhile.
DecidedByApprover ==
    [][\A r \in Request :
        /\ pc[r] = "write" /\ pc'[r] = "idle"
        /\ task'.approval # task.approval
        /\ task'.approval \in {"APPROVED", "CHANGES_REQUESTED"}
        => IF task'.assignee # None THEN who[r] = task'.assignee ELSE who[r] \in Manager]_vars

\* "If that field changed in the meantime the server answers CONFLICT [...]
\* instead of overwriting" (docs/tasks.md): a client that says what it saw never
\* replaces a value it did not see.
NoBlindOverwrite ==
    [][\A r \in Request :
        pc[r] = "write" /\ pc'[r] = "idle" /\ base[r] # None
        => \A f \in Field :
              patch[r][f] # Keep /\ task'[f] # task[f] => task[f] = base[r][f]]_vars
=============================================================================
