-------------------------- MODULE TaskUpdateProofs --------------------------
(***************************************************************************)
(* Proofs about the edits of tasks: TaskUpdate, Timeline, Labels and       *)
(* Recurrence, for any number of requests, people, tasks, dates, tags and  *)
(* options, and for any rule of repetition.                                *)
(*                                                                         *)
(* TaskUpdate.  A request about to write has checked its patch on a row    *)
(* that, if its version is still that of the table, is the row of the      *)
(* table.  It is what the compare-and-set on version gives.                *)
(*                                                                         *)
(* Timeline.  A cascade only follows dependencies, which make no loop: it  *)
(* never comes back to the bar, and a task that goes later again after the *)
(* loop has looked at it was pushed by another of its blockers.            *)
(*                                                                         *)
(* Labels.  A save of the options that is not outdated still has the       *)
(* options of the table, and any task it may strand is one it has listed   *)
(* or is about to list.                                                    *)
(*                                                                         *)
(* Recurrence.  The next occurrence is the first day the rule names after  *)
(* the completed one, not in the past.  Climbing the months and catching   *)
(* up are recursive functions: that each exists is shown from the first    *)
(* argument at which it would not, since every step goes to a later day.   *)
(***************************************************************************)
EXTENDS TaskUpdate, Timeline, Labels, Recurrence, FiniteSetTheorems, TLAPS

RequestsOK ==
    /\ who \in [Request -> Person \cup {None}]
    /\ patch \in [Request -> Patch \cup {None}]
    /\ DOMAIN base = Request /\ DOMAIN seen = Request

\* What a request about to write knows.
Checked(r) ==
    /\ Allowed(seen[r], patch[r], who[r])
    /\ base[r] # None => \A f \in Field : patch[r][f] # Keep => base[r][f] = seen[r][f]
    /\ seen[r].version <= task.version
    /\ seen[r].version = task.version => task = seen[r]

Inv ==
    /\ TypeOK
    /\ RequestsOK
    /\ OneOccurrence
    /\ \A r \in Request : pc[r] = "write" => Checked(r)

-----------------------------------------------------------------------------
(* The row a patch makes.                                                  *)

\* Applying an allowed patch to a row gives a row, and no approval to a task that
\* is no request (updateTaskFields, the data of the write).
LEMMA UpdatedType ==
    ASSUME NEW row \in Row, NEW p \in Patches, NEW u,
           row.approval # None => row.isApproval,
           Allowed(row, p, u)
    PROVE  /\ Updated(row, p) \in Row
           /\ Updated(row, p).approval # None => Updated(row, p).isApproval
           /\ Updated(row, p).version = row.version + 1
<1> USE TaskUpdateAssumption
<1>1. /\ row.status \in Status /\ row.isApproval \in BOOLEAN
      /\ row.approval \in Approval \cup {None} /\ row.assignee \in Person \cup {None}
      /\ row.recurring \in BOOLEAN /\ row.lastActive \in Active \cup {None}
      /\ row.trashed \in BOOLEAN /\ row.version \in Nat
  BY DEF Row
<1>2. /\ p.status \in Status \cup {Keep} /\ p.isApproval \in BOOLEAN \cup {Keep}
      /\ p.approval \in Approval \cup {None, Keep}
      /\ p.assignee \in Person \cup {None, Keep}
      /\ p.recurring \in BOOLEAN \cup {Keep}
  BY DEF Patches
<1>3. /\ New(row, p, "isApproval") \in BOOLEAN
      /\ New(row, p, "assignee") \in Person \cup {None}
      /\ New(row, p, "recurring") \in BOOLEAN
  BY <1>1, <1>2 DEF New
<1>4. NewStatus(row, p) \in Status
  BY <1>1, <1>2 DEF NewStatus, Changes, Status, Field
<1>5. NewApproval(row, p) \in Approval \cup {None}
  BY <1>1, <1>2 DEF NewApproval, Changes, Approval, Field
<1>6. row.status # "DONE" => row.status \in Active
  BY <1>1 DEF Status
<1>7. NewApproval(row, p) # None => New(row, p, "isApproval")
  BY <1>1, <1>2 DEF NewApproval, New, Changes, Allowed, ReopensApproved, Field
<1>8. Updated(row, p) \in Row
  BY <1>1, <1>3, <1>4, <1>5, <1>6 DEF Updated, Row
<1> QED BY <1>7, <1>8 DEF Updated

-----------------------------------------------------------------------------
(* The invariant is inductive.                                             *)

LEMMA InvInit == Init => Inv
<1> SUFFICES ASSUME Init PROVE Inv
  OBVIOUS
<1> USE TaskUpdateAssumption
<1>1. task \in Row /\ (task.approval # None => task.isApproval)
  <2>1. PICK request \in BOOLEAN, recurring \in BOOLEAN, a \in Person \cup {None}, s \in Status,
             last \in Active \cup {None} :
           task = [status |-> s, isApproval |-> request,
                   approval |-> IF request THEN "PENDING" ELSE None,
                   assignee |-> a, recurring |-> recurring, lastActive |-> last,
                   trashed |-> FALSE, version |-> 0]
    BY DEF Init
  <2> QED BY <2>1 DEF Row, Status, Approval
<1>2. TypeOK /\ OneOccurrence
  <2>1. occurrences \in {0, 1}
    BY DEF Init
  <2> QED BY <1>1, <2>1 DEF Init, TypeOK, OneOccurrence
<1> QED BY <1>2 DEF Init, Inv, RequestsOK

\* A request that ends, or only moves on, knows nothing new, and the others
\* nothing less as long as the table stays.
LEMMA DoneKeeps ==
    ASSUME Inv, NEW r \in Request, Done(r), UNCHANGED <<task, occurrences>>
    PROVE  Inv'
<1> USE DEF Inv, Done
<1>1. TypeOK'
  BY DEF TypeOK, RequestsOK
<1>2. RequestsOK'
  BY DEF RequestsOK
<1>3. \A q \in Request : pc'[q] = "write" => Checked(q)'
  <2> SUFFICES ASSUME NEW q \in Request, pc'[q] = "write" PROVE Checked(q)'
    OBVIOUS
  <2>1. q # r /\ pc[q] = "write"
    BY DEF TypeOK
  <2>2. who'[q] = who[q] /\ patch'[q] = patch[q] /\ base'[q] = base[q] /\ seen'[q] = seen[q]
    BY <2>1 DEF RequestsOK
  <2> QED BY <2>1, <2>2 DEF Checked, Allowed, Approves, RequestsChanges, IsApprover,
             Completes, WritesStatus, NewStatus, New, Changes
<1> QED BY <1>1, <1>2, <1>3 DEF OneOccurrence

LEMMA SendKeeps ==
    ASSUME Inv, NEW r \in Request, NEW u \in Person, NEW p \in Patch, Send(r, u, p)
    PROVE  Inv'
<1> USE DEF Inv
<1>1. PICK b \in {None, [f \in Field |-> IF p[f] = Keep THEN Keep ELSE task[f]]} :
         base' = [base EXCEPT ![r] = b]
  BY DEF Send
<1>2. TypeOK'
  <2>1. b = None \/ \A f \in Field : p[f] = Keep => b[f] = Keep
    OBVIOUS
  <2>2. \A q \in Request :
           base'[q] = None \/ \A f \in Field : patch'[q][f] = Keep => base'[q][f] = Keep
    <3> SUFFICES ASSUME NEW q \in Request
                 PROVE  base'[q] = None
                          \/ \A f \in Field : patch'[q][f] = Keep => base'[q][f] = Keep
      OBVIOUS
    <3>1. CASE q = r
      BY <1>1, <2>1, <3>1 DEF Send, RequestsOK
    <3>2. CASE q # r
      <4>1. base'[q] = base[q] /\ patch'[q] = patch[q]
        BY <1>1, <3>2 DEF Send, RequestsOK
      <4> QED BY <4>1 DEF TypeOK
    <3> QED BY <3>1, <3>2
  <2> QED BY <2>2 DEF Send, TypeOK, RequestsOK
<1>3. RequestsOK'
  BY <1>1 DEF Send, RequestsOK
<1>4. \A q \in Request : pc'[q] = "write" => Checked(q)'
  <2> SUFFICES ASSUME NEW q \in Request, pc'[q] = "write" PROVE Checked(q)'
    OBVIOUS
  <2>1. q # r /\ pc[q] = "write"
    BY DEF TypeOK, Send
  <2>2. /\ who'[q] = who[q] /\ patch'[q] = patch[q] /\ base'[q] = base[q]
        /\ seen'[q] = seen[q] /\ task' = task
    BY <1>1, <2>1 DEF RequestsOK, Send
  <2> QED BY <2>1, <2>2 DEF Checked, Allowed, Approves, RequestsChanges, IsApprover,
             Completes, WritesStatus, NewStatus, New, Changes
<1> QED BY <1>2, <1>3, <1>4 DEF OneOccurrence, Send

LEMMA AuthoriseKeeps ==
    ASSUME Inv, NEW r \in Request, Authorise(r)
    PROVE  Inv'
<1>1. CASE Done(r)
  BY <1>1, DoneKeeps DEF Authorise
<1>2. CASE Goto(r, "authorised") /\ UNCHANGED seen
  <2> USE DEF Inv
  <2>1. TypeOK' /\ RequestsOK'
    BY <1>2 DEF Authorise, Goto, TypeOK, RequestsOK
  <2>2. ASSUME NEW q \in Request, pc'[q] = "write" PROVE Checked(q)'
    <3>1. pc[q] = "write"
      BY <1>2, <2>2 DEF Goto, TypeOK
    <3> QED BY <1>2, <3>1 DEF Authorise, Goto, Checked, Allowed, Approves, RequestsChanges,
               IsApprover, Completes, WritesStatus, NewStatus, New, Changes
  <2> QED BY <2>1, <2>2 DEF Authorise, OneOccurrence
<1> QED BY <1>1, <1>2 DEF Authorise

\* The patch is checked on the row of the table (updateTaskFields, up to the
\* transaction).
LEMMA ReadKeeps ==
    ASSUME Inv, NEW r \in Request, Read(r)
    PROVE  Inv'
<1>1. CASE Done(r)
  BY <1>1, DoneKeeps DEF Read
<1>2. CASE /\ ~Conflicts(r) /\ Allowed(task, patch[r], who[r])
           /\ Goto(r, "write") /\ seen' = [seen EXCEPT ![r] = task]
  <2> USE DEF Inv
  <2>1. TypeOK' /\ RequestsOK'
    BY <1>2 DEF Read, Goto, TypeOK, RequestsOK
  <2>2. ASSUME NEW q \in Request, pc'[q] = "write" PROVE Checked(q)'
    <3>1. /\ who'[q] = who[q] /\ patch'[q] = patch[q] /\ base'[q] = base[q] /\ task' = task
      BY <1>2 DEF Read, Goto
    <3>2. CASE q = r
      <4>1. seen'[q] = task /\ task.version \in Nat
        BY <1>2, <3>2 DEF RequestsOK, TypeOK, Row
      <4>2. base[q] # None => \A f \in Field : patch[q][f] # Keep => base[q][f] = task[f]
        BY <1>2, <3>2 DEF Conflicts
      <4>3. Allowed(task, patch[q], who[q])
        BY <1>2, <3>2
      <4> QED BY <3>1, <4>1, <4>2, <4>3 DEF Checked, Allowed, Approves, RequestsChanges,
                 IsApprover, Completes, WritesStatus, NewStatus, New, Changes
    <3>3. CASE q # r
      <4>1. pc[q] = "write" /\ seen'[q] = seen[q]
        BY <1>2, <2>2, <3>3 DEF Goto, TypeOK, RequestsOK
      <4> QED BY <3>1, <4>1 DEF Checked, Allowed, Approves, RequestsChanges,
                 IsApprover, Completes, WritesStatus, NewStatus, New, Changes
    <3> QED BY <3>2, <3>3
  <2> QED BY <2>1, <2>2 DEF Read, OneOccurrence
<1> QED BY <1>1, <1>2 DEF Read

\* The compare-and-set: a row whose version has not moved is the row that was
\* checked (the updateMany of the transaction).
LEMMA WriteFacts ==
    ASSUME Inv, NEW r \in Request, Write(r), UnchangedSince(r)
    PROVE  /\ seen[r] = task
           /\ task' = Updated(task, patch[r])
           /\ Allowed(task, patch[r], who[r])
           /\ who[r] \in Person /\ patch[r] \in Patch
           /\ base[r] # None => \A f \in Field : patch[r][f] # Keep => base[r][f] = task[f]
BY DEF Inv, Write, UnchangedSince, Checked, TypeOK

\* Writing raises the version, so the others that were about to write will not.
LEMMA WriteKeeps ==
    ASSUME Inv, NEW r \in Request, Write(r)
    PROVE  Inv'
<1>1. CASE UNCHANGED <<task, occurrences>>
  BY <1>1, DoneKeeps DEF Write
<1>2. CASE UnchangedSince(r)
  <2>1. /\ seen[r] = task /\ task' = Updated(task, patch[r])
        /\ Allowed(task, patch[r], who[r]) /\ patch[r] \in Patches
    BY <1>2, WriteFacts, TaskUpdateAssumption
  <2>2. task \in Row /\ (task.approval # None => task.isApproval)
    BY DEF Inv, TypeOK
  <2>3. /\ task' \in Row /\ (task'.approval # None => task'.isApproval)
        /\ task'.version = task.version + 1
    BY <2>1, <2>2, UpdatedType
  <2>4. occurrences' \in Nat /\ occurrences' <= 1
    BY <1>2 DEF Write, Spawned, Inv, TypeOK, OneOccurrence
  <2>5. TypeOK'
    BY <2>3, <2>4 DEF Write, Done, Inv, TypeOK, RequestsOK
  <2>6. RequestsOK'
    BY DEF Write, Done, Inv, RequestsOK
  <2>7. ASSUME NEW q \in Request, pc'[q] = "write" PROVE Checked(q)'
    <3>1. q # r /\ pc[q] = "write"
      BY <2>7 DEF Write, Done, Inv, TypeOK
    <3>2. who'[q] = who[q] /\ patch'[q] = patch[q] /\ base'[q] = base[q] /\ seen'[q] = seen[q]
      BY <3>1 DEF Write, Done, Inv, RequestsOK
    <3>3. /\ seen'[q].version <= task'.version
          /\ seen'[q].version # task'.version
      BY <2>2, <2>3, <3>1, <3>2 DEF Inv, TypeOK, Checked, Row
    <3> QED BY <3>1, <3>2, <3>3 DEF Inv, Checked, Allowed, Approves, RequestsChanges,
               IsApprover, Completes, WritesStatus, NewStatus, New, Changes
  <2> QED BY <2>4, <2>5, <2>6, <2>7 DEF Inv, OneOccurrence
<1> QED BY <1>1, <1>2 DEF Write

\* Trashing and restoring raise the version as well (deleteTask, restoreTask).
LEMMA TrashKeeps ==
    ASSUME Inv, TrashOrRestore
    PROVE  Inv'
<1>1. /\ task \in Row
      /\ task' = [task EXCEPT !.trashed = ~task.trashed, !.version = task.version + 1]
  BY DEF Inv, TypeOK, TrashOrRestore
<1>2. /\ task' \in Row /\ task'.version = task.version + 1
      /\ task'.approval = task.approval /\ task'.isApproval = task.isApproval
  <2>1. task.version + 1 \in Nat
    BY <1>1 DEF Row
  <2>2. PICK b \in BOOLEAN : b = (~task.trashed)
    OBVIOUS
  <2>3. task' = [task EXCEPT !.trashed = b, !.version = task.version + 1]
    BY <1>1, <2>2, Zenon
  <2>4. task \in Row
    BY <1>1
  <2>5. /\ task' \in Row /\ task'.version = task.version + 1
        /\ \A f \in Field : task'[f] = task[f]
    BY <2>1, <2>3, <2>4 DEF Row, Field
  <2> QED BY <2>5 DEF Field
<1>3. TypeOK' /\ RequestsOK' /\ OneOccurrence'
  BY <1>2 DEF TrashOrRestore, requests, Inv, TypeOK, RequestsOK, OneOccurrence
<1>4. ASSUME NEW q \in Request, pc'[q] = "write" PROVE Checked(q)'
  <2>1. /\ who'[q] = who[q] /\ patch'[q] = patch[q] /\ base'[q] = base[q] /\ seen'[q] = seen[q]
        /\ pc[q] = "write"
    BY <1>4 DEF TrashOrRestore, requests
  <2>2. seen'[q].version <= task'.version /\ seen'[q].version # task'.version
    BY <1>1, <1>2, <2>1 DEF Inv, TypeOK, Checked, Row
  <2> QED BY <2>1, <2>2 DEF Inv, Checked, Allowed, Approves, RequestsChanges,
             IsApprover, Completes, WritesStatus, NewStatus, New, Changes
<1> QED BY <1>3, <1>4 DEF Inv

LEMMA PurgeKeeps ==
    ASSUME Inv, PurgeOccurrence
    PROVE  Inv'
<1>1. TypeOK' /\ RequestsOK' /\ OneOccurrence'
  BY DEF PurgeOccurrence, requests, Inv, TypeOK, RequestsOK, OneOccurrence
<1>2. ASSUME NEW q \in Request, pc'[q] = "write" PROVE Checked(q)'
  BY <1>2 DEF PurgeOccurrence, requests, Inv, Checked, Allowed, Approves, RequestsChanges,
     IsApprover, Completes, WritesStatus, NewStatus, New, Changes
<1> QED BY <1>1, <1>2 DEF Inv

LEMMA StutterKeeps ==
    ASSUME Inv, UNCHANGED vars
    PROVE  Inv'
<1>1. TypeOK' /\ RequestsOK' /\ OneOccurrence'
  BY DEF vars, requests, Inv, TypeOK, RequestsOK, OneOccurrence
<1>2. ASSUME NEW q \in Request, pc'[q] = "write" PROVE Checked(q)'
  BY <1>2 DEF vars, requests, Inv, Checked, Allowed, Approves, RequestsChanges,
     IsApprover, Completes, WritesStatus, NewStatus, New, Changes
<1> QED BY <1>1, <1>2 DEF Inv

\* No step of any request, nor any other operation on the task, breaks what a
\* request about to write knows.
THEOREM Invariant == Spec => []Inv
<1>1. Inv /\ [Next]_vars => Inv'
  <2> SUFFICES ASSUME Inv, [Next]_vars PROVE Inv'
    OBVIOUS
  <2>1. ASSUME NEW r \in Request, NEW u \in Person, NEW p \in Patch, Send(r, u, p) PROVE Inv'
    BY <2>1, SendKeeps
  <2>2. ASSUME NEW r \in Request, Authorise(r) PROVE Inv'
    BY <2>2, AuthoriseKeeps
  <2>3. ASSUME NEW r \in Request, Read(r) PROVE Inv'
    BY <2>3, ReadKeeps
  <2>4. ASSUME NEW r \in Request, Write(r) PROVE Inv'
    BY <2>4, WriteKeeps
  <2>5. ASSUME NEW r \in Request, Abandon(r) PROVE Inv'
    BY <2>5, DoneKeeps DEF Abandon
  <2>6. CASE TrashOrRestore
    BY <2>6, TrashKeeps
  <2>7. CASE PurgeOccurrence
    BY <2>7, PurgeKeeps
  <2>8. CASE UNCHANGED vars
    BY <2>8, StutterKeeps
  <2> QED BY <2>1, <2>2, <2>3, <2>4, <2>5, <2>6, <2>7, <2>8 DEF Next
<1> QED BY <1>1, InvInit, PTL DEF Spec

\* The types of the row and of the requests; a task that is no request has no
\* approval (updateTaskFields).
THEOREM TypeCorrect == Spec => []TypeOK
<1>1. Inv => TypeOK
  BY DEF Inv
<1> QED BY <1>1, Invariant, PTL

\* However often a recurring task is completed and reopened, and by however many
\* requests, it has one next occurrence (spawnNextOccurrenceIn).
THEOREM AtMostOneOccurrence == Spec => []OneOccurrence
<1>1. Inv => OneOccurrence
  BY DEF Inv
<1> QED BY <1>1, Invariant, PTL

-----------------------------------------------------------------------------
(* What a step may not do.                                                 *)

\* Only a write changes the fields (trashing and restoring change the trash mark),
\* or makes an occurrence.
LEMMA WritesOnly ==
    ASSUME Inv, [Next]_vars
    PROVE  \/ \E r \in Request : Write(r) /\ UnchangedSince(r)
           \/ \A f \in Field : task'[f] = task[f]
<1>1. task \in Row
  BY DEF Inv, TypeOK
<1>2. ASSUME TrashOrRestore
      PROVE  \A f \in Field : task'[f] = task[f]
  BY <1>1, <1>2 DEF TrashOrRestore, Row, Field
<1> QED BY <1>2
        DEF Next, Send, Authorise, Read, Write, Abandon, PurgeOccurrence, vars

\* A field is written with what the patch says or what follows from it; the
\* guards were checked on the row that is replaced.
LEMMA FieldsWritten ==
    ASSUME Inv, NEW r \in Request, Write(r), UnchangedSince(r)
    PROVE  /\ task'.status = NewStatus(task, patch[r])
           /\ task'.isApproval = New(task, patch[r], "isApproval")
           /\ task'.approval = NewApproval(task, patch[r])
           /\ task'.assignee = New(task, patch[r], "assignee")
           /\ task'.recurring = New(task, patch[r], "recurring")
BY WriteFacts DEF Updated

THEOREM CompletionsLeaveNext == Spec => CompletionLeavesNext
<1>1. Inv /\ [Next]_vars =>
         (task.status # "DONE" /\ task'.status = "DONE" /\ task'.recurring => occurrences' = 1)
  <2> SUFFICES ASSUME Inv, [Next]_vars,
                      task.status # "DONE", task'.status = "DONE", task'.recurring
               PROVE  occurrences' = 1
    OBVIOUS
  <2>1. PICK r \in Request : Write(r) /\ UnchangedSince(r)
    BY WritesOnly DEF Field
  <2>2. Completes(seen[r], patch[r]) /\ New(seen[r], patch[r], "recurring")
    BY <2>1, WriteFacts, FieldsWritten DEF Completes, WritesStatus, NewStatus
  <2>3. occurrences \in {0, 1}
    BY DEF Inv, TypeOK, OneOccurrence
  <2> QED BY <2>1, <2>2, <2>3 DEF Write, Spawned
<1> QED BY <1>1, Invariant, PTL DEF Spec, CompletionLeavesNext

\* One next occurrence from the completion on (updateTaskFields, spawnNextOccurrenceIn).
THEOREM OneOccurrenceFollows == Spec => OneNextOccurrence
BY AtMostOneOccurrence, CompletionsLeaveNext, PTL DEF OneNextOccurrence, CompletionLeavesNext

\* The approval of a request and its completion were looked at on the same row.
LEMMA CompletionsAreApproved ==
    ASSUME Inv, [Next]_vars, task.status # "DONE", task'.status = "DONE", task'.isApproval
    PROVE  task'.approval = "APPROVED"
<1>1. PICK r \in Request : Write(r) /\ UnchangedSince(r)
  BY WritesOnly DEF Field
<1>2. Completes(task, patch[r]) /\ New(task, patch[r], "isApproval")
  BY <1>1, FieldsWritten DEF Completes, WritesStatus, NewStatus
<1>3. New(task, patch[r], "approval") = "APPROVED"
  BY <1>1, <1>2, WriteFacts DEF Allowed
<1>4. NewApproval(task, patch[r]) = "APPROVED"
  BY <1>2, <1>3, TaskUpdateAssumption
     DEF NewApproval, New, Changes, ReopensApproved, Approval, Field
<1> QED BY <1>1, <1>4, FieldsWritten

\* A request that is reopened, by its status or by asking for changes, loses its
\* approval in the same write.
LEMMA ReopeningsArePending ==
    ASSUME Inv, [Next]_vars, task.status = "DONE", task'.status # "DONE", task'.isApproval
    PROVE  task'.approval # "APPROVED"
<1>1. PICK r \in Request : Write(r) /\ UnchangedSince(r)
  BY WritesOnly DEF Field
<1>2. /\ WritesStatus(task, patch[r]) /\ NewStatus(task, patch[r]) # "DONE"
      /\ New(task, patch[r], "isApproval")
  BY <1>1, FieldsWritten DEF WritesStatus, NewStatus
<1>3. NewApproval(task, patch[r]) # "APPROVED"
  BY <1>2 DEF NewApproval, New, Changes, ReopensApproved, Field
<1> QED BY <1>1, <1>3, FieldsWritten

\* A request is completed approved, and not left approved by what reopens it.
THEOREM ApprovalsFollowStatus == Spec => ApprovalFollowsStatus
<1>1. Inv /\ [Next]_vars =>
         (task'.isApproval =>
            /\ task.status # "DONE" /\ task'.status = "DONE" => task'.approval = "APPROVED"
            /\ task.status = "DONE" /\ task'.status # "DONE" => task'.approval # "APPROVED")
  BY CompletionsAreApproved, ReopeningsArePending
<1> QED BY <1>1, Invariant, PTL DEF Spec, ApprovalFollowsStatus

\* The write of a request changes the row that was checked, or nothing.
LEMMA EndOfWrite ==
    ASSUME Inv, [Next]_vars, NEW r \in Request, pc[r] = "write", pc'[r] = "idle"
    PROVE  (Write(r) /\ UnchangedSince(r)) \/ task' = task
<1>1. ASSUME NEW q \in Request, q # r,
             \/ \E u \in Person, p \in Patch : Send(q, u, p)
             \/ Authorise(q) \/ Read(q) \/ Write(q) \/ Abandon(q)
      PROVE  FALSE
  BY <1>1 DEF Send, Authorise, Read, Write, Abandon, Done, Goto, Inv, TypeOK
<1>2. ~TrashOrRestore
  BY DEF TrashOrRestore, requests
<1> QED BY <1>1, <1>2
        DEF Next, Send, Authorise, Read, Write, Abandon, PurgeOccurrence, vars

\* Whoever decides is the approver of the row that the decision replaces, even if
\* the task was reassigned while the request was under way.
THEOREM DecisionsByApprover == Spec => DecidedByApprover
<1>1. ASSUME Inv, [Next]_vars, NEW r \in Request, pc[r] = "write", pc'[r] = "idle",
             task'.approval # task.approval,
             task'.approval \in {"APPROVED", "CHANGES_REQUESTED"}
      PROVE  IF task'.assignee # None THEN who[r] = task'.assignee ELSE who[r] \in Manager
  <2>1. Write(r) /\ UnchangedSince(r)
    BY <1>1, EndOfWrite
  <2>2. NewApproval(task, patch[r]) # task.approval
    BY <1>1, <2>1, FieldsWritten
  <2>3. NewApproval(task, patch[r]) \in {"APPROVED", "CHANGES_REQUESTED"}
    BY <1>1, <2>1, FieldsWritten
  <2>4. Approves(task, patch[r]) \/ RequestsChanges(task, patch[r])
    BY <2>2, <2>3, TaskUpdateAssumption
       DEF NewApproval, Approves, RequestsChanges, Approval
  <2>5. IsApprover(task, patch[r], who[r])
    BY <1>1, <2>1, <2>4, WriteFacts DEF Allowed
  <2> QED BY <1>1, <2>1, <2>5, FieldsWritten DEF IsApprover
<1>2. Inv /\ [Next]_vars =>
         \A r \in Request :
            /\ pc[r] = "write" /\ pc'[r] = "idle"
            /\ task'.approval # task.approval
            /\ task'.approval \in {"APPROVED", "CHANGES_REQUESTED"}
            => IF task'.assignee # None THEN who[r] = task'.assignee ELSE who[r] \in Manager
  BY <1>1
<1> QED BY <1>2, Invariant, PTL DEF Spec, DecidedByApprover

\* A value replaced is a value the client saw, up to the compare-and-set.
THEOREM OverwritesAreSeen == Spec => NoBlindOverwrite
<1>1. ASSUME Inv, [Next]_vars, NEW r \in Request, pc[r] = "write", pc'[r] = "idle",
             base[r] # None, NEW f \in Field,
             patch[r][f] # Keep, task'[f] # task[f]
      PROVE  task[f] = base[r][f]
  <2>1. Write(r) /\ UnchangedSince(r)
    BY <1>1, EndOfWrite
  <2> QED BY <1>1, <2>1, WriteFacts
<1>2. Inv /\ [Next]_vars =>
         \A r \in Request :
            pc[r] = "write" /\ pc'[r] = "idle" /\ base[r] # None
            => \A f \in Field :
                  patch[r][f] # Keep /\ task'[f] # task[f] => task[f] = base[r][f]
  BY <1>1
<1> QED BY <1>2, Invariant, PTL DEF Spec, NoBlindOverwrite

-----------------------------------------------------------------------------
(* Timeline.                                                               *)

Span == [start : Nat \cup {Nil}, due : Nat \cup {Nil}]

\* Tasks that wait to be looked at.
Waiting == UNION {queue[i] : i \in DOMAIN queue}

TimelineTypeOK ==
    /\ dates \in [Bar -> Span] /\ blocks \subseteq Bar \X Bar /\ editable \subseteq Bar
    /\ moved \in Bar \cup {Nil}
    /\ queue \in Seq(SUBSET Bar) /\ guard \subseteq Bar
    /\ DOMAIN result \subseteq Bar /\ result \in [DOMAIN result -> Span]
    /\ DOMAIN seenDue \subseteq guard /\ seenDue \in [DOMAIN seenDue -> Nat]
    /\ moved = Nil => queue = <<>> /\ guard = {} /\ DOMAIN result = {} /\ DOMAIN seenDue = {}

\* d is e moved as a whole, or e.
Whole(d, e) ==
    /\ d \in Span /\ InOrder(d)
    /\ d.start = Nil <=> e.start = Nil
    /\ d.due = Nil <=> e.due = Nil
    /\ d.due # Nil /\ d.start # Nil => d.due - d.start = e.due - e.start
    /\ d.due # Nil => d.due >= e.due
    /\ d.start # Nil => d.start >= e.start

Spans ==
    /\ \A t \in Bar : InOrder(dates[t])
    /\ \A t \in DOMAIN result : /\ Whole(result[t], dates[t])
                                /\ Begin(result[t]) > Begin(dates[t]) /\ Begin(dates[t]) # Nil

\* Why a task waits or has been looked at, and that all of them follow the bar.
Reasons ==
    /\ \A t \in DOMAIN result : \E b \in DOMAIN seenDue : <<b, t>> \in blocks
    /\ \A t \in Waiting \cup guard : t = moved \/ \E b \in DOMAIN seenDue : <<b, t>> \in blocks
    /\ moved # Nil => \E after \in SUBSET (Bar \ {moved}) :
          /\ \A u \in after \cup {moved}, s \in Bar : <<u, s>> \in blocks => s \in after
          /\ Waiting \cup guard \subseteq after \cup {moved}

\* What a task that has been looked at leaves behind it.
Looked ==
    /\ \A t \in guard : t \in DOMAIN seenDue \/ Current(t).due = Nil
    /\ \A t \in DOMAIN seenDue : Current(t).due # Nil /\ Current(t).due >= seenDue[t]
    /\ \A t \in DOMAIN seenDue, s \in Bar :
          <<t, s>> \in blocks /\ Begin(Current(s)) # Nil => Begin(Current(s)) > seenDue[t]
    /\ \A t \in DOMAIN seenDue : Current(t).due > seenDue[t] =>
          \E b, c \in guard : b # c /\ <<b, t>> \in blocks /\ <<c, t>> \in blocks

CascadeIInv == TimelineTypeOK /\ NoLoop /\ Spans /\ Reasons /\ Looked

-----------------------------------------------------------------------------
LEMMA Push ==
    ASSUME NEW d \in Span, NEW e \in Span, Whole(d, e), NEW ends \in Nat, Begin(d) # Nil, Begin(d) <= ends,
           NEW p, p = Dated(Shift(d.start, ends - Begin(d) + 1), Shift(d.due, ends - Begin(d) + 1))
    PROVE  /\ Whole(p, e) /\ Begin(p) = ends + 1 /\ Begin(p) > Begin(d)
           /\ d.due # Nil => p.due > d.due
           /\ p.due = Nil <=> d.due = Nil
           /\ Begin(e) # Nil /\ Begin(p) > Begin(e)
<1> DEFINE delta == ends - Begin(d) + 1
<1>1. Begin(d) \in Nat /\ delta \in Nat /\ delta > 0
  BY TimelineAssumption DEF Span, Begin
<1>2. p.start = Shift(d.start, delta) /\ p.due = Shift(d.due, delta) /\ p = [start |-> p.start, due |-> p.due]
  BY DEF Dated
<1> HIDE DEF delta
<1>3. /\ d.start = Nil => p.start = Nil
      /\ d.start # Nil => p.start = d.start + delta /\ p.start \in Nat
      /\ d.due = Nil => p.due = Nil
      /\ d.due # Nil => p.due = d.due + delta /\ p.due \in Nat
  BY <1>1, <1>2 DEF Shift, Span
<1>4. p \in Span
  BY <1>2, <1>3 DEF Span
<1>5. /\ p.start = Nil <=> d.start = Nil
      /\ p.due = Nil <=> d.due = Nil
  BY <1>3, TimelineAssumption
<1>6. Whole(p, e)
  BY <1>1, <1>3, <1>4, <1>5 DEF Whole, InOrder, Span
<1>7. Begin(p) = Begin(d) + delta
  BY <1>1, <1>3, <1>5 DEF Begin
<1>8. Begin(e) # Nil /\ Begin(e) <= Begin(d)
  BY DEF Whole, Begin, Span
<1>9. Begin(d) + delta = ends + 1
  BY <1>1 DEF delta
<1> QED BY <1>1, <1>3, <1>5, <1>6, <1>7, <1>8, <1>9, TimelineAssumption DEF Span, Begin

\* The queue after a turn holds nothing but what it held and what is put behind.
LEMMA RestFacts ==
    ASSUME queue \in Seq(SUBSET Bar), queue # <<>>, NEW t \in Bar, Comes(t)
    PROVE  /\ t \in Waiting
           /\ Rest(t) \in Seq(SUBSET Bar)
           /\ \A i \in DOMAIN Rest(t) : Rest(t)[i] \subseteq Waiting
<1>1. Head(queue) = queue[1] /\ 1 \in DOMAIN queue /\ Head(queue) \in SUBSET Bar
  OBVIOUS
<1>2. t \in Waiting
  BY <1>1 DEF Comes, Waiting
<1>3. Tail(queue) \in Seq(SUBSET Bar) /\ \A i \in DOMAIN Tail(queue) : Tail(queue)[i] = queue[i + 1] /\ i + 1 \in DOMAIN queue
  OBVIOUS
<1>4. \A i \in DOMAIN Tail(queue) : Tail(queue)[i] \subseteq Waiting
  BY <1>3 DEF Waiting
<1>5. CASE Head(queue) = {t}
  BY <1>2, <1>3, <1>4, <1>5 DEF Rest
<1>6. CASE Head(queue) # {t}
  <2> DEFINE others == Head(queue) \ {t}
  <2>1. others \in SUBSET Bar /\ others \subseteq Waiting
    BY <1>1 DEF Waiting
  <2>2. Rest(t) = <<others>> \o Tail(queue)
    BY <1>6 DEF Rest
  <2> HIDE DEF others
  <2>3. <<others>> \in Seq(SUBSET Bar) /\ Len(<<others>>) = 1 /\ <<others>>[1] = others
    BY <2>1
  <2>4. Rest(t) \in Seq(SUBSET Bar)
    BY <1>3, <2>2, <2>3
  <2>5. ASSUME NEW i \in DOMAIN Rest(t)
        PROVE  Rest(t)[i] \subseteq Waiting
    <3>1. i \in 1..(1 + Len(Tail(queue)))
      BY <1>3, <2>2, <2>3, <2>5
    <3>2. CASE i = 1
      BY <1>3, <2>1, <2>2, <2>3, <3>2
    <3>3. CASE i # 1
      <4>1. i - 1 \in DOMAIN Tail(queue) /\ Rest(t)[i] = Tail(queue)[i - 1]
        BY <1>3, <2>2, <2>3, <3>1, <3>3
      <4> QED BY <1>4, <4>1
    <3> QED BY <3>2, <3>3
  <2> QED BY <1>2, <2>4, <2>5
<1> QED BY <1>5, <1>6

\* One turn that looks at t.
LEMMA TurnLooks ==
    ASSUME CascadeIInv, queue # <<>>, NEW t \in Bar, Comes(t), t \notin guard, Current(t).due # Nil,
           guard' = guard \cup {t}, ShiftSuccessors(t), UNCHANGED <<dates, blocks, editable, moved>>
    PROVE  CascadeIInv'
<1> DEFINE ends == Current(t).due
<1>0. moved \in Bar /\ moved # Nil
  BY DEF CascadeIInv, TimelineTypeOK
<1>1. \A s \in Bar : Whole(Current(s), dates[s]) /\ Current(s) \in Span /\ dates[s] \in Span
  <2> SUFFICES ASSUME NEW s \in Bar PROVE Whole(Current(s), dates[s]) /\ dates[s] \in Span
    BY DEF Whole
  <2>1. dates[s] \in Span /\ InOrder(dates[s])
    BY DEF CascadeIInv, TimelineTypeOK, Spans
  <2>2. Whole(dates[s], dates[s])
    BY <2>1, TimelineAssumption DEF Whole, Span
  <2> QED BY <2>1, <2>2 DEF CascadeIInv, Spans, Current
<1>2. ends \in Nat
  BY <1>1 DEF Span
<1>3. ASSUME NEW s \in Late(t)
      PROVE  /\ s \in Bar /\ <<t, s>> \in blocks
             /\ Whole(Pushed(t, s), dates[s]) /\ Begin(Pushed(t, s)) = ends + 1
             /\ Begin(Pushed(t, s)) > Begin(Current(s))
             /\ Current(s).due # Nil => Pushed(t, s).due > Current(s).due
             /\ Pushed(t, s).due = Nil <=> Current(s).due = Nil
             /\ Begin(dates[s]) # Nil /\ Begin(Pushed(t, s)) > Begin(dates[s])
  <2>1. s \in Bar /\ <<t, s>> \in blocks /\ Begin(Current(s)) # Nil /\ Begin(Current(s)) <= ends
    BY <1>3 DEF Late
  <2>2. Pushed(t, s) = Dated(Shift(Current(s).start, ends - Begin(Current(s)) + 1),
                             Shift(Current(s).due, ends - Begin(Current(s)) + 1))
    BY DEF Pushed
  <2> HIDE DEF ends
  <2> QED BY <1>1, <1>2, <2>1, <2>2, Push
<1>4. t \notin Late(t)
  <2>1. PICK after \in SUBSET (Bar \ {t}) :
           \A u \in after \cup {t}, s \in Bar : <<u, s>> \in blocks => s \in after
    BY DEF CascadeIInv, NoLoop
  <2> QED BY <2>1 DEF Late
<1>5. /\ result' = [s \in DOMAIN result \cup Late(t) |-> IF s \in Late(t) THEN Pushed(t, s) ELSE result[s]]
      /\ seenDue' = [x \in DOMAIN seenDue \cup {t} |-> IF x = t THEN ends ELSE seenDue[x]]
      /\ queue' = IF Late(t) = {} THEN Rest(t) ELSE Append(Rest(t), Late(t))
  BY DEF ShiftSuccessors
<1>6. \A s \in Bar : Current(s)' = IF s \in Late(t) THEN Pushed(t, s) ELSE Current(s)
  BY <1>5 DEF Current
<1>7. DOMAIN result' = DOMAIN result \cup Late(t) /\ DOMAIN seenDue' = DOMAIN seenDue \cup {t}
  BY <1>5
<1>8. /\ Rest(t) \in Seq(SUBSET Bar) /\ t \in Waiting
      /\ \A i \in DOMAIN Rest(t) : Rest(t)[i] \subseteq Waiting
  BY RestFacts DEF CascadeIInv, TimelineTypeOK
<1>9. queue' \in Seq(SUBSET Bar) /\ Waiting' \subseteq Waiting \cup Late(t)
  <2>1. CASE Late(t) = {}
    BY <1>5, <1>8, <2>1 DEF Waiting
  <2>2. CASE Late(t) # {}
    <3>1. queue' = Append(Rest(t), Late(t)) /\ Late(t) \in SUBSET Bar
      BY <1>3, <1>5, <2>2
    <3> DEFINE r == Rest(t)
    <3>2. r \in Seq(SUBSET Bar) /\ \A i \in DOMAIN r : r[i] \subseteq Waiting
      BY <1>8
    <3> HIDE DEF r
    <3>3. /\ Append(r, Late(t)) \in Seq(SUBSET Bar)
          /\ \A i \in DOMAIN Append(r, Late(t)) : Append(r, Late(t))[i] \subseteq Waiting \cup Late(t)
      BY <3>1, <3>2
    <3> QED BY <3>1, <3>3 DEF Waiting, r
  <2> QED BY <2>1, <2>2
<1>10. TimelineTypeOK'
  <2>1. \A s \in DOMAIN result' : result'[s] \in Span
    BY <1>3, <1>5, <1>7 DEF CascadeIInv, TimelineTypeOK, Whole
  <2>2. result' \in [DOMAIN result' -> Span]
    BY <1>5, <2>1
  <2>3. seenDue' \in [DOMAIN seenDue' -> Nat]
    BY <1>2, <1>5, <1>7 DEF CascadeIInv, TimelineTypeOK
  <2> QED BY <1>0, <1>3, <1>7, <1>9, <2>2, <2>3 DEF CascadeIInv, TimelineTypeOK
<1>11. NoLoop'
  BY DEF CascadeIInv, NoLoop
<1>12. Spans'
  <2>1. \A s \in DOMAIN result' : /\ Whole(result'[s], dates[s])
                                  /\ Begin(result'[s]) > Begin(dates[s]) /\ Begin(dates[s]) # Nil
    BY <1>3, <1>5, <1>7 DEF CascadeIInv, Spans
  <2> QED BY <2>1 DEF CascadeIInv, Spans
<1>13. Reasons'
  <2>1. \A s \in DOMAIN result' : \E b \in DOMAIN seenDue' : <<b, s>> \in blocks
    BY <1>3, <1>7 DEF CascadeIInv, Reasons
  <2>2. \A s \in Waiting' \cup guard' : s = moved \/ \E b \in DOMAIN seenDue' : <<b, s>> \in blocks
    BY <1>3, <1>7, <1>8, <1>9 DEF CascadeIInv, Reasons
  <2>3. PICK after \in SUBSET (Bar \ {moved}) :
           /\ \A u \in after \cup {moved}, s \in Bar : <<u, s>> \in blocks => s \in after
           /\ Waiting \cup guard \subseteq after \cup {moved}
    BY <1>0 DEF CascadeIInv, Reasons
  <2>4. Late(t) \subseteq after
    BY <1>3, <1>8, <2>3
  <2>5. Waiting' \cup guard' \subseteq after \cup {moved}
    BY <1>8, <1>9, <2>3, <2>4
  <2> QED BY <2>1, <2>2, <2>3, <2>5 DEF Reasons
<1>14. Looked'
  <2>1. \A s \in Bar : Current(s)'.due = Nil <=> Current(s).due = Nil
    BY <1>3, <1>6
  <2>2. \A s \in Bar : Current(s).due # Nil => Current(s)'.due >= Current(s).due /\ Current(s).due \in Nat
    <3> SUFFICES ASSUME NEW s \in Bar, Current(s).due # Nil
                 PROVE  Current(s)'.due >= Current(s).due /\ Current(s).due \in Nat
      OBVIOUS
    <3>1. Current(s).due \in Nat
      BY <1>1 DEF Span
    <3>2. CASE s \in Late(t)
      <4>1. Pushed(t, s).due > Current(s).due /\ Pushed(t, s).due # Nil /\ Pushed(t, s) \in Span
        BY <1>3, <3>2 DEF Whole
      <4>2. Pushed(t, s).due \in Nat
        BY <4>1 DEF Span
      <4> QED BY <1>6, <3>1, <3>2, <4>1, <4>2
    <3>3. CASE s \notin Late(t)
      BY <1>6, <3>1, <3>3
    <3> QED BY <3>2, <3>3
  <2>3. Current(t)' = Current(t)
    BY <1>4, <1>6
  <2>4. \A s \in guard' : s \in DOMAIN seenDue' \/ Current(s)'.due = Nil
    BY <1>7, <2>1 DEF CascadeIInv, Looked, TimelineTypeOK
  <2>5. DOMAIN seenDue \subseteq Bar /\ \A s \in DOMAIN seenDue : seenDue'[s] = seenDue[s] /\ seenDue[s] \in Nat
    <3>1. t \notin DOMAIN seenDue
      BY DEF CascadeIInv, TimelineTypeOK
    <3> QED BY <1>5, <3>1 DEF CascadeIInv, TimelineTypeOK
  <2>6. seenDue'[t] = ends
    BY <1>5
  <2>7. \A s \in DOMAIN seenDue' : Current(s)'.due # Nil /\ Current(s)'.due >= seenDue'[s]
    <3>1. Current(t)'.due # Nil /\ Current(t)'.due >= seenDue'[t]
      BY <1>2, <2>3, <2>6
    <3>2. ASSUME NEW s \in DOMAIN seenDue
          PROVE  Current(s)'.due # Nil /\ Current(s)'.due >= seenDue'[s]
      <4>1. Current(s).due # Nil /\ Current(s).due >= seenDue[s]
        BY DEF CascadeIInv, Looked
      <4>2. Current(s)'.due \in Nat
        BY <1>1, <1>3, <1>6, <2>1, <2>5, <4>1 DEF Whole, Span
      <4> QED BY <2>1, <2>2, <2>5, <4>1, <4>2
    <3> QED BY <1>7, <3>1, <3>2
  <2>10. \A s \in Bar : Begin(Current(s)') = IF s \in Late(t) THEN ends + 1 ELSE Begin(Current(s))
    <3> SUFFICES ASSUME NEW s \in Bar
                 PROVE  Begin(Current(s)') = IF s \in Late(t) THEN ends + 1 ELSE Begin(Current(s))
      OBVIOUS
    <3>1. CASE s \in Late(t)
      <4>1. Current(s)' = Pushed(t, s)
        BY <1>6, <3>1
      <4>2. Begin(Current(s)') = Begin(Pushed(t, s))
        BY <4>1 DEF Begin
      <4> QED BY <1>3, <3>1, <4>2
    <3>2. CASE s \notin Late(t)
      <4>1. Current(s)' = Current(s)
        BY <1>6, <3>2
      <4> QED BY <3>2, <4>1 DEF Begin
    <3> QED BY <3>1, <3>2
  <2>8. ASSUME NEW b \in DOMAIN seenDue', NEW s \in Bar, <<b, s>> \in blocks, Begin(Current(s)') # Nil
        PROVE  Begin(Current(s)') > seenDue'[b]
    <3>1. Begin(Current(s)) \in Nat \cup {Nil} /\ Begin(Current(s)') \in Nat
      <4>1. Begin(Current(s)) \in Nat \cup {Nil}
        BY <1>1 DEF Begin, Span
      <4> QED BY <1>2, <2>8, <2>10, <4>1
    <3>2. CASE b = t
      <4>1. CASE s \in Late(t)
        BY <1>2, <2>6, <2>10, <3>2, <4>1
      <4>2. CASE s \notin Late(t)
        <5>1. Current(s)' = Current(s)
          BY <1>6, <4>2
        <5>2. ~(Begin(Current(s)) <= ends)
          BY <2>8, <3>2, <4>2, <5>1 DEF Late
        <5> QED BY <1>2, <2>6, <3>1, <3>2, <5>1, <5>2
      <4> QED BY <4>1, <4>2
    <3>3. CASE b # t
      <4>1. b \in DOMAIN seenDue /\ seenDue'[b] = seenDue[b] /\ seenDue[b] \in Nat
        BY <1>7, <2>5, <2>8, <3>3
      <4>2. Begin(Current(s)) # Nil
        BY <1>3, <1>6, <2>8 DEF Late
      <4>3. Begin(Current(s)) > seenDue[b]
        BY <2>8, <4>1, <4>2 DEF CascadeIInv, Looked
      <4>4. Begin(Current(s)') >= Begin(Current(s))
        <5>1. s \in Late(t) => Begin(Current(s)) <= ends
          BY DEF Late
        <5> QED BY <1>2, <2>10, <3>1, <4>2, <5>1
      <4> QED BY <3>1, <4>1, <4>2, <4>3, <4>4
    <3> QED BY <3>2, <3>3
  <2>9. ASSUME NEW s \in DOMAIN seenDue', Current(s)'.due > seenDue'[s]
        PROVE  \E b, c \in guard' : b # c /\ <<b, s>> \in blocks /\ <<c, s>> \in blocks
    <3>1. s # t
      BY <1>2, <2>3, <2>6, <2>9
    <3>2. s \in DOMAIN seenDue /\ s \in Bar /\ s \in guard
      BY <1>7, <2>5, <3>1 DEF CascadeIInv, TimelineTypeOK
    <3>3. CASE s \in Late(t)
      <4>1. s # moved
        <5>1. PICK after \in SUBSET (Bar \ {moved}) :
                 /\ \A u \in after \cup {moved}, x \in Bar : <<u, x>> \in blocks => x \in after
                 /\ Waiting \cup guard \subseteq after \cup {moved}
          BY <1>0 DEF CascadeIInv, Reasons
        <5> QED BY <1>3, <1>8, <3>3, <5>1
      <4>2. PICK b \in DOMAIN seenDue : <<b, s>> \in blocks
        BY <3>2, <4>1 DEF CascadeIInv, Reasons
      <4>3. b \in guard /\ b # t
        BY <4>2 DEF CascadeIInv, TimelineTypeOK
      <4> QED BY <1>3, <3>3, <4>2, <4>3
    <3>4. CASE s \notin Late(t)
      <4>1. Current(s).due > seenDue[s]
        BY <1>6, <2>5, <2>9, <3>2, <3>4
      <4> QED BY <3>2, <4>1 DEF CascadeIInv, Looked
    <3> QED BY <3>3, <3>4
  <2> QED BY <2>4, <2>7, <2>8, <2>9 DEF Looked, Current
<1> QED BY <1>10, <1>11, <1>12, <1>13, <1>14 DEF CascadeIInv

\* One turn that passes over t.
LEMMA TurnPasses ==
    ASSUME CascadeIInv, queue # <<>>, NEW t \in Bar, Comes(t), t \in guard \/ Current(t).due = Nil,
           guard' = guard \cup {t}, queue' = Rest(t),
           UNCHANGED <<dates, blocks, editable, moved, result, seenDue>>
    PROVE  CascadeIInv'
<1>0. moved \in Bar /\ moved # Nil
  BY DEF CascadeIInv, TimelineTypeOK
<1>1. /\ Rest(t) \in Seq(SUBSET Bar) /\ t \in Waiting
      /\ \A i \in DOMAIN Rest(t) : Rest(t)[i] \subseteq Waiting
  BY RestFacts DEF CascadeIInv, TimelineTypeOK
<1>2. Waiting' \subseteq Waiting
  BY <1>1 DEF Waiting
<1>3. TimelineTypeOK' /\ NoLoop' /\ Spans'
  BY <1>0, <1>1 DEF CascadeIInv, TimelineTypeOK, NoLoop, Spans
<1>4. Reasons'
  <2>1. \A s \in DOMAIN result' : \E b \in DOMAIN seenDue' : <<b, s>> \in blocks
    BY DEF CascadeIInv, Reasons
  <2>2. \A s \in Waiting' \cup guard' : s = moved \/ \E b \in DOMAIN seenDue' : <<b, s>> \in blocks
    BY <1>1, <1>2 DEF CascadeIInv, Reasons
  <2>3. PICK after \in SUBSET (Bar \ {moved}) :
           /\ \A u \in after \cup {moved}, s \in Bar : <<u, s>> \in blocks => s \in after
           /\ Waiting \cup guard \subseteq after \cup {moved}
    BY <1>0 DEF CascadeIInv, Reasons
  <2>4. Waiting' \cup guard' \subseteq after \cup {moved}
    BY <1>1, <1>2, <2>3
  <2> QED BY <2>1, <2>2, <2>3, <2>4 DEF Reasons
<1>5. Looked'
  <2>1. \A s \in Bar : Current(s)' = Current(s)
    BY DEF Current
  <2>2. DOMAIN seenDue \subseteq Bar /\ guard \subseteq Bar
    BY DEF CascadeIInv, TimelineTypeOK
  <2>3. \A s \in guard' : s \in DOMAIN seenDue \/ Current(s).due = Nil
    BY DEF CascadeIInv, Looked
  <2> QED BY <2>2, <2>3 DEF CascadeIInv, Looked, Current
<1> QED BY <1>3, <1>4, <1>5 DEF CascadeIInv

LEMMA TurnHolds == ASSUME CascadeIInv, CascadeShift PROVE CascadeIInv'
<1>1. PICK t \in Bar :
         /\ Comes(t) /\ guard' = guard \cup {t}
         /\ IF t \in guard \/ Current(t).due = Nil
            THEN queue' = Rest(t) /\ UNCHANGED <<result, seenDue>>
            ELSE ShiftSuccessors(t)
  BY DEF CascadeShift
<1>2. queue # <<>> /\ UNCHANGED <<dates, blocks, editable, moved>>
  BY DEF CascadeShift
<1> QED BY <1>1, <1>2, TurnLooks, TurnPasses

\* Where a drag leaves a bar is in order.
LEMMA DragInOrder ==
    ASSUME dates \in [Bar -> Span], NEW t \in Bar, InOrder(dates[t]), NEW mode \in {"move", "start", "due"},
           NEW delta \in Int, Begin(dates[t]) # Nil, mode = "due" => dates[t].due # Nil,
           NEW next, next = Dragged(t, mode, delta), {next.start, next.due} \subseteq (1..LastDay) \cup {Nil}
    PROVE  Written(t, next) \in Span /\ InOrder(Written(t, next))
<1> DEFINE d == dates[t]
<1>1. d.start \in Nat \cup {Nil} /\ d.due \in Nat \cup {Nil} /\ Begin(d) \in Nat
  BY DEF Span, Begin
<1>2. next = [start |-> next.start, due |-> next.due]
  BY DEF Dragged, Dated
<1>3. next.start \in Nat \cup {Nil} /\ next.due \in Nat \cup {Nil}
  BY TimelineAssumption
<1>4. InOrder(next)
  <2>1. CASE mode = "move"
    <3>1. next.start = Shift(d.start, delta) /\ next.due = Shift(d.due, delta)
      BY <2>1 DEF Dragged, Dated
    <3> QED BY <1>1, <1>3, <3>1, TimelineAssumption DEF InOrder, Shift
  <2>2. CASE mode = "start"
    <3> DEFINE b == Begin(d) + delta
    <3>1. next.start = (IF d.due # Nil /\ b > d.due THEN d.due ELSE b) /\ next.due = d.due /\ b \in Int
      BY <1>1, <2>2 DEF Dragged, Dated
    <3> QED BY <1>1, <3>1 DEF InOrder
  <2>3. CASE mode = "due"
    <3> DEFINE b == d.due + delta
    <3>1. /\ next.due = (IF d.start # Nil /\ b < d.start THEN d.start ELSE b) /\ next.start = d.start
          /\ d.due \in Nat /\ b \in Int
      BY <1>1, <2>3 DEF Dragged, Dated
    <3> QED BY <1>1, <3>1 DEF InOrder
  <2> QED BY <2>1, <2>2, <2>3
<1>5. CASE next.start = next.due /\ d.start = Nil
  <2>1. Written(t, next) = [next EXCEPT !.start = Nil]
    BY <1>5 DEF Written
  <2> QED BY <1>2, <1>3, <2>1 DEF Span, InOrder
<1>6. CASE ~(next.start = next.due /\ d.start = Nil)
  <2>1. Written(t, next) = next
    BY <1>6 DEF Written
  <2> QED BY <1>2, <1>3, <1>4, <2>1 DEF Span
<1> QED BY <1>5, <1>6

LEMMA DragHolds ==
    ASSUME CascadeIInv, NEW t \in Bar, NEW mode \in {"move", "start", "due"}, NEW delta \in Int,
           NEW cascade \in BOOLEAN, Drag(t, mode, delta, cascade)
    PROVE  CascadeIInv'
<1>1. moved = Nil /\ queue = <<>> /\ guard = {} /\ DOMAIN result = {} /\ DOMAIN seenDue = {}
  BY DEF Drag, CascadeIInv, TimelineTypeOK
<1>2. PICK next : /\ next = Dragged(t, mode, delta) /\ {next.start, next.due} \subseteq (1..LastDay) \cup {Nil}
                  /\ dates' = [dates EXCEPT ![t] = Written(t, next)]
  BY DEF Drag
<1>3. Written(t, next) \in Span /\ InOrder(Written(t, next))
  BY <1>2, DragInOrder DEF Drag, CascadeIInv, TimelineTypeOK, Spans
<1>4. dates' \in [Bar -> Span] /\ \A s \in Bar : InOrder(dates'[s])
  BY <1>2, <1>3 DEF CascadeIInv, TimelineTypeOK, Spans
<1>5. /\ guard' = {} /\ DOMAIN result' = {} /\ DOMAIN seenDue' = {}
      /\ \/ queue' = <<{t}>> /\ moved' = t
         \/ queue' = <<>> /\ moved' = Nil
      /\ UNCHANGED <<blocks, editable>>
  BY <1>1 DEF Drag
<1>6. queue' \in Seq(SUBSET Bar) /\ Waiting' = IF moved' = Nil THEN {} ELSE {moved'}
  <2>1. CASE queue' = <<{t}>> /\ moved' = t
    BY <2>1, TimelineAssumption DEF Waiting
  <2>2. CASE queue' = <<>> /\ moved' = Nil
    BY <2>2 DEF Waiting
  <2> QED BY <1>5, <2>1, <2>2
<1>7. TimelineTypeOK'
  <2>1. result' \in [DOMAIN result' -> Span] /\ seenDue' \in [DOMAIN seenDue' -> Nat]
    <3>1. result' = result \/ result' = <<>>
      BY DEF Drag
    <3>2. seenDue' = seenDue \/ seenDue' = <<>>
      BY DEF Drag
    <3>3. <<>> \in [DOMAIN <<>> -> Span] /\ <<>> \in [DOMAIN <<>> -> Nat]
      OBVIOUS
    <3> QED BY <3>1, <3>2, <3>3 DEF CascadeIInv, TimelineTypeOK
  <2>2. moved' \in Bar \cup {Nil} /\ (moved' = Nil => queue' = <<>>)
    BY <1>5, TimelineAssumption
  <2>3. blocks' \subseteq Bar \X Bar /\ editable' \subseteq Bar
    BY <1>5 DEF CascadeIInv, TimelineTypeOK
  <2> QED BY <1>4, <1>5, <1>6, <2>1, <2>2, <2>3 DEF TimelineTypeOK
<1>8. NoLoop' /\ Spans' /\ Looked'
  BY <1>4, <1>5 DEF CascadeIInv, NoLoop, Spans, Looked
<1>9. Reasons'
  <2>1. moved' # Nil => \E after \in SUBSET (Bar \ {moved'}) :
          \A u \in after \cup {moved'}, s \in Bar : <<u, s>> \in blocks => s \in after
    BY <1>5 DEF CascadeIInv, NoLoop
  <2> QED BY <1>5, <1>6, <2>1 DEF Reasons
<1> QED BY <1>7, <1>8, <1>9 DEF CascadeIInv

LEMMA PatchHolds == ASSUME CascadeIInv, BulkPatch PROVE CascadeIInv'
<1>1. /\ dates' = [t \in Bar |-> IF t # moved /\ t \in editable \cap DOMAIN result THEN result[t] ELSE dates[t]]
      /\ moved' = Nil /\ guard' = {} /\ DOMAIN result' = {} /\ DOMAIN seenDue' = {}
      /\ queue' = <<>> /\ UNCHANGED <<blocks, editable>>
  BY DEF BulkPatch
<1>2. \A t \in Bar : dates'[t] \in Span /\ InOrder(dates'[t])
  BY <1>1 DEF CascadeIInv, TimelineTypeOK, Spans, Whole
<1>3. TimelineTypeOK'
  BY <1>1, <1>2 DEF CascadeIInv, TimelineTypeOK
<1>4. NoLoop' /\ Spans' /\ Looked'
  BY <1>1, <1>2 DEF CascadeIInv, NoLoop, Spans, Looked
<1>5. Waiting' = {}
  BY <1>1 DEF Waiting
<1>6. Reasons'
  BY <1>1, <1>5 DEF Reasons
<1> QED BY <1>3, <1>4, <1>6 DEF CascadeIInv

LEMMA CascadeFollows == CascadeIInv => CascadeInv
<1> SUFFICES ASSUME CascadeIInv PROVE CascadeInv
  OBVIOUS
<1>1. ASSUME NEW t \in DOMAIN result
      PROVE  /\ InOrder(result[t])
             /\ Begin(result[t]) > Begin(dates[t])
             /\ result[t].due # Nil /\ dates[t].start # Nil =>
                   result[t].due - result[t].start = dates[t].due - dates[t].start
             /\ \E b \in DOMAIN seenDue : <<b, t>> \in blocks
  BY DEF CascadeIInv, Spans, Whole, Reasons
<1>2. ASSUME NEW t \in guard, NEW s \in Bar, Clash(t, s)
      PROVE  Current(t).due > seenDue[t] /\ Cardinality(Through(t)) >= 2
  <2>1. t \in DOMAIN seenDue /\ t \in Bar /\ seenDue[t] \in Nat
    BY <1>2 DEF CascadeIInv, TimelineTypeOK, Looked, Clash
  <2>2. Begin(Current(s)) > seenDue[t]
    BY <1>2, <2>1 DEF CascadeIInv, Looked, Clash
  <2>3. Current(t).due \in Nat /\ Begin(Current(s)) \in Nat
    BY <1>2, <2>1, TimelineAssumption DEF CascadeIInv, TimelineTypeOK, Clash, Current, Span, Begin
  <2>4. Current(t).due > seenDue[t]
    BY <1>2, <2>1, <2>2, <2>3 DEF Clash
  <2>5. PICK b, c \in guard : b # c /\ <<b, t>> \in blocks /\ <<c, t>> \in blocks
    BY <2>1, <2>4 DEF CascadeIInv, Looked
  <2>6. {b, c} \subseteq Through(t) /\ Through(t) \subseteq Bar
    BY <2>5 DEF Through, CascadeIInv, TimelineTypeOK
  <2>7. IsFiniteSet(Through(t))
    BY <2>6, FS_Subset, TimelineAssumption
  <2>8. IsFiniteSet({b}) /\ Cardinality({b}) = 1
    BY FS_Singleton
  <2>9. Cardinality({b} \cup {c}) = 2
    BY <2>5, <2>8, FS_AddElement
  <2>10. Cardinality({b, c}) = 2
    <3>1. {b} \cup {c} = {b, c}
      OBVIOUS
    <3> QED BY <2>9, <3>1
  <2>11. Cardinality({b, c}) <= Cardinality(Through(t)) /\ Cardinality(Through(t)) \in Nat
    BY <2>6, <2>7, FS_Subset, FS_CardinalityType
  <2> QED BY <2>4, <2>10, <2>11
<1>3. \A t \in Bar : InOrder(dates[t])
  BY DEF CascadeIInv, Spans
<1> QED BY <1>1, <1>2, <1>3 DEF CascadeInv

\* However a bar is dragged and whatever depends on it, a cascade moves tasks later, as a
\* whole and for a reason; a task it leaves in conflict was pushed again by another blocker.
THEOREM CascadeHolds == TimelineSpec => []CascadeInv
<1>1. TimelineInit => CascadeIInv
  <2> SUFFICES ASSUME TimelineInit PROVE CascadeIInv
    OBVIOUS
  <2>1. dates \in [Bar -> Span] /\ \A t \in Bar : InOrder(dates[t])
    <3>1. \A t \in Bar : dates[t] \in [start : (1..LastDay) \cup {Nil}, due : (1..LastDay) \cup {Nil}] /\ InOrder(dates[t])
      BY DEF TimelineInit
    <3>2. \A t \in Bar : dates[t] \in Span
      BY <3>1, TimelineAssumption DEF Span
    <3> QED BY <3>1, <3>2 DEF TimelineInit
  <2>2. Waiting = {}
    BY DEF TimelineInit, Waiting
  <2>3. TimelineTypeOK
    BY <2>1 DEF TimelineInit, TimelineTypeOK
  <2> QED BY <2>1, <2>2, <2>3 DEF TimelineInit, CascadeIInv, Spans, Reasons, Looked
<1>2. CascadeIInv /\ [TimelineNext]_timelineVars => CascadeIInv'
  <2> SUFFICES ASSUME CascadeIInv, [TimelineNext]_timelineVars PROVE CascadeIInv'
    OBVIOUS
  <2>1. CASE UNCHANGED timelineVars
    <3>1. UNCHANGED <<dates, blocks, editable, moved, queue, guard, result, seenDue>>
      BY <2>1 DEF timelineVars
    <3>2. TimelineTypeOK' /\ NoLoop' /\ Spans'
      BY <3>1 DEF CascadeIInv, TimelineTypeOK, NoLoop, Spans
    <3>3. Waiting' = Waiting
      BY <3>1 DEF Waiting
    <3>4. Reasons'
      BY <3>1, <3>3 DEF CascadeIInv, Reasons
    <3>5. Looked'
      BY <3>1 DEF CascadeIInv, Looked, Current
    <3> QED BY <3>2, <3>4, <3>5 DEF CascadeIInv
  <2>2. CASE TimelineNext
    BY <2>2, DragHolds, TurnHolds, PatchHolds DEF TimelineNext
  <2> QED BY <2>1, <2>2
<1> QED BY <1>1, <1>2, CascadeFollows, PTL DEF TimelineSpec

-----------------------------------------------------------------------------
(* Labels.                                                                 *)

LabelsTypeOK ==
    /\ tags \in SUBSET Tag /\ taskTags \in [Card -> SUBSET Tag]
    /\ options \in (SUBSET Option) \cup {Unset}
    /\ value \in [Card -> SUBSET Option]
    /\ edit \in [Editor -> Asked \cup {Unset}]
    /\ \A e \in Editor : edit[e] # Unset /\ edit[e].kind = "value" => edit[e].wanted \subseteq Option
    /\ save \in [Saver -> Saved \cup {Unset}]

\* Tasks with an option that is gone and no excuse for it.
Unexcused == Orphans(value, options) \ left

\* A request that is not outdated wants options that exist.
FreshEdits ==
    options # Unset => \A e \in Editor \ outdated :
        edit[e] # Unset /\ edit[e].kind = "value" => edit[e].wanted \subseteq options

\* A save that is not outdated keeps the options of now, and a task without excuse that it
\* has still to clean was listed with an option it takes away.
FreshSaves ==
    /\ \A s \in Saver \cap outdated : save[s] # Unset
    /\ options # Unset => \A s \in Saver \ outdated : save[s] # Unset =>
          /\ save[s].kept = options
          /\ save[s].rows # Unset => \A row \in save[s].rows :
                row.card \in Unexcused => ~(row.ids \subseteq save[s].kept)

LabelsIInv == LabelsTypeOK /\ FreshEdits /\ FreshSaves /\ NoOrphanOption

\* While the options stay, a step that finds no new task without excuse.
LEMMA NoNewOrphan ==
    ASSUME LabelsIInv, options' = options, LabelsTypeOK', options # Unset => Unexcused' \subseteq Unexcused,
           UNCHANGED save, outdated' \subseteq outdated, outdated' \cap Saver = outdated \cap Saver
    PROVE  FreshSaves' /\ NoOrphanOption'
<1>1. FreshSaves'
  BY DEF LabelsIInv, FreshSaves
<1>2. NoOrphanOption'
  <2> SUFFICES ASSUME options # Unset, NEW c \in Unexcused'
               PROVE  \E s \in Saver : save'[s] # Unset /\ s \notin outdated' /\ c \in Uncleaned(s)'
    BY DEF NoOrphanOption, Unexcused
  <2>1. PICK s \in Saver : save[s] # Unset /\ s \notin outdated /\ c \in Uncleaned(s)
    BY DEF LabelsIInv, NoOrphanOption, Unexcused
  <2>2. Uncleaned(s)' = Uncleaned(s)
    BY DEF Uncleaned
  <2> QED BY <2>1, <2>2
<1> QED BY <1>1, <1>2

\* One value is written, with options of the field or with an excuse.
LEMMA OneValue ==
    ASSUME LabelsTypeOK, options # Unset, NEW c \in Card, NEW ids \in SUBSET Option, NEW S,
           options' = options, WriteValues([value EXCEPT ![c] = ids], S), ids \subseteq options \/ c \in S
    PROVE  value' \in [Card -> SUBSET Option] /\ Unexcused' \subseteq Unexcused
<1>1. value' = [value EXCEPT ![c] = ids] /\ left' = (left \cup S) \cap Orphans(value', options)
  BY DEF WriteValues
<1>2. value' \in [Card -> SUBSET Option] /\ value'[c] = ids
  BY <1>1 DEF LabelsTypeOK
<1>3. ASSUME NEW d \in Unexcused'
      PROVE  d \in Unexcused
  <2>1. d \in Orphans(value', options) /\ d \notin left'
    BY <1>3 DEF Unexcused
  <2>2. d \notin left /\ d \notin S
    BY <1>1, <2>1
  <2>3. d \in Card /\ ~(value'[d] \subseteq options) /\ value'[d] # {}
    BY <2>1 DEF Orphans
  <2>4. d # c
    BY <1>2, <2>2, <2>3
  <2>5. value'[d] = value[d]
    BY <1>1, <2>3, <2>4 DEF LabelsTypeOK
  <2> QED BY <2>2, <2>3, <2>5 DEF Unexcused, Orphans
<1> QED BY <1>2, <1>3

\* A request on a task moves, and no value.
LEMMA RequestMoves ==
    ASSUME LabelsIInv, NEW e \in Editor, UNCHANGED fieldVars,
           tags' \in SUBSET Tag, taskTags' \in [Card -> SUBSET Tag],
           NEW x \in Asked \cup {Unset}, edit' = [edit EXCEPT ![e] = x],
           x # Unset /\ x.kind = "value" => options # Unset /\ x.wanted \subseteq options
    PROVE  LabelsIInv'
<1>0. \A d \in Editor : edit'[d] = IF d = e THEN x ELSE edit[d]
  BY DEF LabelsIInv, LabelsTypeOK
<1>1. LabelsTypeOK' /\ Unexcused' = Unexcused
  <2>1. edit' \in [Editor -> Asked \cup {Unset}]
    BY DEF LabelsIInv, LabelsTypeOK
  <2>2. \A d \in Editor : edit'[d] # Unset /\ edit'[d].kind = "value" => edit'[d].wanted \subseteq Option
    <3>1. options # Unset => options \subseteq Option
      BY DEF LabelsIInv, LabelsTypeOK
    <3> QED BY <1>0, <3>1 DEF LabelsIInv, LabelsTypeOK
  <2> QED BY <2>1, <2>2 DEF LabelsIInv, LabelsTypeOK, fieldVars, Unexcused
<1>2. FreshEdits'
  <2> SUFFICES ASSUME options # Unset, NEW d \in Editor \ outdated, edit'[d] # Unset, edit'[d].kind = "value"
               PROVE  edit'[d].wanted \subseteq options
    BY DEF FreshEdits, fieldVars
  <2> QED BY <1>0 DEF LabelsIInv, FreshEdits, fieldVars
<1>3. FreshSaves' /\ NoOrphanOption'
  BY <1>1, NoNewOrphan DEF fieldVars
<1> QED BY <1>1, <1>2, <1>3 DEF LabelsIInv

\* What a request keeps is part of what it asked for, whichever tags the cut leaves.
LEMMA KeptAreAsked ==
    ASSUME NEW e \in Editor, NEW g \in SUBSET Tag, CheckTags(e, g)
    PROVE  \E kept \in SUBSET g :
              edit' = [edit EXCEPT ![e].kind = "tags", ![e].wanted = kept]
BY DEF CheckTags, FirstOf

LEMMA RequestsHold ==
    ASSUME LabelsIInv, NEW e \in Editor,
           \/ \E c \in Card : \/ OpenTags(e, c, taskTags[c]) \/ OpenTags(e, c, {}) \/ OpenTags(e, c, Unset)
                              \/ \E o \in SUBSET Option : CheckValue(e, c, o)
           \/ \E g \in SUBSET Tag : CheckTags(e, g)
           \/ ApplyTags(e)
    PROVE  LabelsIInv'
<1>0. /\ edit \in [Editor -> Asked \cup {Unset}]
      /\ tags \in SUBSET Tag /\ taskTags \in [Card -> SUBSET Tag]
  BY DEF LabelsIInv, LabelsTypeOK
<1> DEFINE Made(kind, c, seenTags, wanted) == [kind |-> kind, card |-> c, base |-> seenTags, wanted |-> wanted]
<1>5. ASSUME NEW kind \in {"open", "tags", "value"}, NEW c \in Card, NEW seenTags \in (SUBSET Tag) \cup {Unset},
             NEW wanted \in (SUBSET Tag) \cup (SUBSET Option)
      PROVE  Made(kind, c, seenTags, wanted) \in Asked
  BY DEF Asked
<1>1. ASSUME NEW c \in Card, NEW seenTags \in (SUBSET Tag) \cup {Unset}, OpenTags(e, c, seenTags)
      PROVE  LabelsIInv'
  <2>1. edit' = [edit EXCEPT ![e] = Made("open", c, seenTags, {})] /\ UNCHANGED <<tagVars, fieldVars>>
    BY <1>1 DEF OpenTags
  <2>2. Made("open", c, seenTags, {}) \in Asked
    <3>1. {} \in (SUBSET Tag) \cup (SUBSET Option)
      OBVIOUS
    <3> HIDE DEF Made
    <3> QED BY <1>5, <3>1
  <2>3. Made("open", c, seenTags, {}).kind # "value"
    OBVIOUS
  <2> HIDE DEF Made
  <2> QED BY <1>0, <2>1, <2>2, <2>3, RequestMoves DEF tagVars
<1>2. ASSUME NEW c \in Card, NEW o \in SUBSET Option, CheckValue(e, c, o)
      PROVE  LabelsIInv'
  <2>1. /\ edit' = [edit EXCEPT ![e] = Made("value", c, Unset, o)] /\ UNCHANGED <<tagVars, fieldVars>>
        /\ o \subseteq options /\ options # Unset
    BY <1>2 DEF CheckValue
  <2>2. Made("value", c, Unset, o) \in Asked
    <3>1. o \in (SUBSET Tag) \cup (SUBSET Option)
      OBVIOUS
    <3>2. Unset \in (SUBSET Tag) \cup {Unset}
      OBVIOUS
    <3> HIDE DEF Made
    <3> QED BY <1>5, <3>1, <3>2
  <2>3. Made("value", c, Unset, o).wanted = o
    OBVIOUS
  <2> HIDE DEF Made
  <2> QED BY <1>0, <2>1, <2>2, <2>3, RequestMoves DEF tagVars
<1>3. ASSUME NEW g \in SUBSET Tag, CheckTags(e, g)
      PROVE  LabelsIInv'
  <2>0. PICK kept \in SUBSET g : edit' = [edit EXCEPT ![e].kind = "tags", ![e].wanted = kept]
    BY <1>3, KeptAreAsked
  <2> DEFINE x == [edit[e] EXCEPT !.kind = "tags", !.wanted = kept]
  <2>1. edit' = [edit EXCEPT ![e] = x] /\ edit[e] \in Asked /\ UNCHANGED <<tagVars, fieldVars>>
    BY <1>0, <1>3, <2>0 DEF CheckTags
  <2>2. x \in Asked /\ x.kind = "tags"
    <3>1. kept \in (SUBSET Tag) \cup (SUBSET Option)
      OBVIOUS
    <3> QED BY <2>1, <3>1 DEF Asked
  <2> HIDE DEF x
  <2> QED BY <1>0, <2>1, <2>2, RequestMoves DEF tagVars
<1>4. ASSUME ApplyTags(e)
      PROVE  LabelsIInv'
  <2>1. edit' = [edit EXCEPT ![e] = Unset] /\ UNCHANGED <<tags, fieldVars>>
    BY <1>4 DEF ApplyTags
  <2>2. taskTags' \in [Card -> SUBSET Tag]
    <3>1. PICK c, target : taskTags' = IF Cardinality(target) > TagLimit THEN taskTags
                                       ELSE [taskTags EXCEPT ![c] = target \cap tags]
      BY <1>4 DEF ApplyTags
    <3>2. target \cap tags \in SUBSET Tag
      BY <1>0
    <3> QED BY <1>0, <3>1, <3>2
  <2>3. tags' \in SUBSET Tag /\ UNCHANGED fieldVars
    BY <1>0, <2>1
  <2>4. Unset \in Asked \cup {Unset}
    OBVIOUS
  <2> QED BY <2>1, <2>2, <2>3, <2>4, RequestMoves
<1> QED BY <1>0, <1>1, <1>2, <1>3, <1>4

LEMMA TagsHold ==
    ASSUME LabelsIInv, NEW g \in Tag, CreateTag(g) \/ DeleteTag(g)
    PROVE  LabelsIInv'
<1>1. UNCHANGED <<edit, fieldVars>>
  BY DEF CreateTag, DeleteTag
<1>2. tags' \in SUBSET Tag /\ taskTags' \in [Card -> SUBSET Tag]
  <2>1. CASE CreateTag(g)
    BY <2>1 DEF CreateTag, LabelsIInv, LabelsTypeOK
  <2>2. CASE DeleteTag(g)
    BY <2>2 DEF DeleteTag, LabelsIInv, LabelsTypeOK
  <2> QED BY <2>1, <2>2
<1>3. LabelsTypeOK' /\ Unexcused' = Unexcused
  BY <1>1, <1>2 DEF LabelsIInv, LabelsTypeOK, fieldVars, Unexcused
<1>4. FreshEdits'
  BY <1>1 DEF LabelsIInv, FreshEdits, fieldVars
<1>5. FreshSaves' /\ NoOrphanOption'
  BY <1>1, <1>3, NoNewOrphan DEF fieldVars
<1> QED BY <1>3, <1>4, <1>5 DEF LabelsIInv

LEMMA WriteHolds ==
    ASSUME LabelsIInv, NEW e \in Editor, WriteValue(e)
    PROVE  LabelsIInv'
<1> DEFINE x == edit[e]
<1>1. x \in Asked /\ x.kind = "value" /\ x.card \in Card
  BY DEF WriteValue, LabelsIInv, LabelsTypeOK, Asked
<1>2. /\ edit' = [edit EXCEPT ![e] = Unset] /\ outdated' = outdated \ {e}
      /\ UNCHANGED <<tagVars, options, save>>
  BY DEF WriteValue
<1>3. outdated' \subseteq outdated /\ outdated' \cap Saver = outdated \cap Saver
  BY <1>2, LabelsAssumption
<1>4. value' \in [Card -> SUBSET Option] /\ (options # Unset => Unexcused' \subseteq Unexcused)
  <2>1. CASE options = Unset
    BY <2>1 DEF WriteValue, LabelsIInv, LabelsTypeOK
  <2>2. CASE options # Unset
    <3> DEFINE S == IF e \in outdated THEN {x.card} ELSE {}
    <3>1. WriteValues([value EXCEPT ![x.card] = x.wanted], S)
      BY <2>2 DEF WriteValue
    <3>2. x.wanted \subseteq options \/ x.card \in S
      BY <1>1, <2>2, LabelsAssumption DEF LabelsIInv, FreshEdits
    <3>3. x.wanted \in SUBSET Option
      BY <1>1, LabelsAssumption DEF LabelsIInv, LabelsTypeOK
    <3> HIDE DEF S, x
    <3> QED BY <1>1, <1>2, <2>2, <3>1, <3>2, <3>3, OneValue DEF LabelsIInv
  <2> QED BY <2>1, <2>2
<1>5. LabelsTypeOK'
  BY <1>2, <1>4 DEF LabelsIInv, LabelsTypeOK, tagVars
<1>6. FreshEdits'
  BY <1>2 DEF LabelsIInv, LabelsTypeOK, FreshEdits
<1>7. FreshSaves' /\ NoOrphanOption'
  BY <1>2, <1>3, <1>4, <1>5, NoNewOrphan
<1> QED BY <1>5, <1>6, <1>7 DEF LabelsIInv

\* The options are replaced: the save that does it is the one that is not outdated.
LEMMA SaveHolds ==
    ASSUME LabelsIInv, NEW s \in Saver, NEW kept \in SUBSET Option, SaveOptions(s, kept)
    PROVE  LabelsIInv'
<1> DEFINE x == [kept |-> kept, rows |-> Unset]
<1>1. /\ options # Unset /\ save[s] = Unset /\ options' = kept /\ save' = [save EXCEPT ![s] = x]
      /\ outdated' = outdated \cup {e \in Editor : edit[e] # Unset /\ edit[e].kind = "value"}
                              \cup {y \in Saver : save[y] # Unset}
      /\ left' = left \cap Orphans(value, kept)
      /\ UNCHANGED <<tagVars, value, edit>>
  BY DEF SaveOptions
<1>2. x \in Saved /\ x # Unset
  BY LabelsAssumption DEF Saved
<1>3. x.kept = kept /\ x.rows = Unset
  OBVIOUS
<1> HIDE DEF x
<1>4. save' \in [Saver -> Saved \cup {Unset}] /\ save'[s] = x
  BY <1>1, <1>2 DEF LabelsIInv, LabelsTypeOK
<1>5. \A y \in Saver \ {s} : save'[y] = save[y]
  BY <1>1 DEF LabelsIInv, LabelsTypeOK
<1>6. s \notin outdated'
  BY <1>1, LabelsAssumption DEF LabelsIInv, FreshSaves
<1>7. LabelsTypeOK'
  BY <1>1, <1>4 DEF LabelsIInv, LabelsTypeOK, tagVars
<1>8. FreshEdits'
  BY <1>1 DEF FreshEdits
<1>9. FreshSaves'
  <2>1. \A y \in Saver \cap outdated' : save'[y] # Unset
    BY <1>1, <1>5, <1>6, LabelsAssumption DEF LabelsIInv, FreshSaves
  <2>2. \A y \in Saver \ outdated' : save'[y] # Unset => y = s
    BY <1>1, <1>5
  <2> QED BY <1>1, <1>3, <1>4, <2>1, <2>2 DEF FreshSaves
<1>10. NoOrphanOption'
  <2>1. Uncleaned(s)' = Card
    BY <1>3, <1>4 DEF Uncleaned
  <2>2. Orphans(value', options') \subseteq Card
    BY DEF Orphans
  <2> QED BY <1>2, <1>4, <1>6, <2>1, <2>2 DEF NoOrphanOption
<1> QED BY <1>7, <1>8, <1>9, <1>10 DEF LabelsIInv

LEMMA ListHolds ==
    ASSUME LabelsIInv, NEW s \in Saver, ListValues(s)
    PROVE  LabelsIInv'
<1> DEFINE rows == {[card |-> c, ids |-> value[c]] : c \in {y \in Card : value[y] # {}}}
           x == [save[s] EXCEPT !.rows = rows]
<1>1. /\ save[s] # Unset /\ save[s].rows = Unset /\ save' = [save EXCEPT ![s] = x]
      /\ UNCHANGED <<tagVars, options, value, edit, outdated, left>>
  BY DEF ListValues
<1>2. save[s] \in Saved /\ rows \in SUBSET Listed
  BY <1>1 DEF LabelsIInv, LabelsTypeOK, Listed
<1>3. x \in Saved /\ x.kept = save[s].kept /\ x.rows = rows
  <2> HIDE DEF rows
  <2> QED BY <1>2 DEF Saved
<1>4. x # Unset /\ rows # Unset
  BY <1>2, <1>3, LabelsAssumption
<1>5. /\ save' \in [Saver -> Saved \cup {Unset}] /\ save'[s] = x
      /\ \A y \in Saver \ {s} : save'[y] = save[y]
  BY <1>1, <1>3 DEF LabelsIInv, LabelsTypeOK
<1>6. LabelsTypeOK' /\ FreshEdits' /\ Unexcused' = Unexcused
  BY <1>1, <1>5 DEF LabelsIInv, LabelsTypeOK, FreshEdits, tagVars, Unexcused
<1>7. ASSUME options # Unset, NEW c \in Unexcused
      PROVE  c \in Card /\ value[c] # {} /\ ~(value[c] \subseteq options)
  BY <1>7 DEF Unexcused, Orphans
<1>8. FreshSaves'
  <2>1. \A y \in Saver \cap outdated : save'[y] # Unset
    BY <1>4, <1>5 DEF LabelsIInv, FreshSaves
  <2>2. ASSUME options # Unset, NEW y \in Saver \ outdated, save'[y] # Unset
        PROVE  /\ save'[y].kept = options
               /\ save'[y].rows # Unset => \A row \in save'[y].rows :
                     row.card \in Unexcused => ~(row.ids \subseteq save'[y].kept)
    <3>1. CASE y = s
      <4>1. save'[y].kept = options /\ save'[y].rows = rows
        BY <1>1, <1>3, <1>5, <2>2, <3>1 DEF LabelsIInv, FreshSaves
      <4>2. \A row \in rows : row.card \in Unexcused => ~(row.ids \subseteq options)
        BY <1>7, <2>2
      <4> HIDE DEF rows
      <4> QED BY <4>1, <4>2
    <3>2. CASE y # s
      BY <1>5, <2>2, <3>2 DEF LabelsIInv, FreshSaves
    <3> QED BY <3>1, <3>2
  <2> QED BY <1>1, <1>6, <2>1, <2>2 DEF FreshSaves
<1>9. NoOrphanOption'
  <2> SUFFICES ASSUME options # Unset, NEW c \in Unexcused
               PROVE  \E y \in Saver : save'[y] # Unset /\ y \notin outdated /\ c \in Uncleaned(y)'
    BY <1>1, <1>6 DEF NoOrphanOption, Unexcused
  <2>1. PICK y \in Saver : save[y] # Unset /\ y \notin outdated /\ c \in Uncleaned(y)
    BY DEF LabelsIInv, NoOrphanOption, Unexcused
  <2>2. CASE y = s
    <3>1. [card |-> c, ids |-> value[c]] \in rows
      BY <1>7
    <3>2. c \in {row.card : row \in rows}
      <4>1. [card |-> c, ids |-> value[c]].card = c
        OBVIOUS
      <4> HIDE DEF rows
      <4> QED BY <3>1, <4>1
    <3>3. c \in Uncleaned(s)'
      <4> HIDE DEF rows
      <4> QED BY <1>3, <1>4, <1>5, <3>2 DEF Uncleaned
    <3> QED BY <1>4, <1>5, <2>1, <2>2, <3>3
  <2>3. CASE y # s
    BY <1>5, <2>1, <2>3 DEF Uncleaned
  <2> QED BY <2>2, <2>3
<1> QED BY <1>6, <1>8, <1>9 DEF LabelsIInv

\* A save that ends, when no task without excuse waits for it.
LEMMA EndHolds ==
    ASSUME LabelsIInv, NEW s \in Saver, EndSave(s), UNCHANGED <<tagVars, options, value, edit>>,
           options # Unset => Unexcused' \subseteq Unexcused,
           options # Unset => Unexcused' \cap Uncleaned(s) = {}
    PROVE  LabelsIInv'
<1>1. /\ save' \in [Saver -> Saved \cup {Unset}] /\ save'[s] = Unset /\ outdated' = outdated \ {s}
      /\ \A y \in Saver \ {s} : save'[y] = save[y]
  BY DEF EndSave, LabelsIInv, LabelsTypeOK
<1>2. LabelsTypeOK'
  BY <1>1 DEF LabelsIInv, LabelsTypeOK, tagVars
<1>3. FreshEdits'
  BY <1>1, LabelsAssumption DEF LabelsIInv, FreshEdits
<1>4. FreshSaves'
  <2>1. \A y \in Saver \cap outdated' : save'[y] # Unset
    BY <1>1 DEF LabelsIInv, FreshSaves
  <2>2. ASSUME options # Unset, NEW y \in Saver \ outdated', save'[y] # Unset
        PROVE  /\ save'[y].kept = options
               /\ save'[y].rows # Unset => \A row \in save'[y].rows :
                     row.card \in Unexcused' => ~(row.ids \subseteq save'[y].kept)
    <3>1. y # s /\ save'[y] = save[y] /\ y \notin outdated
      BY <1>1, <2>2
    <3> QED BY <2>2, <3>1 DEF LabelsIInv, FreshSaves
  <2> QED BY <2>1, <2>2 DEF FreshSaves
<1>5. NoOrphanOption'
  <2> SUFFICES ASSUME options # Unset, NEW c \in Unexcused'
               PROVE  \E y \in Saver : save'[y] # Unset /\ y \notin outdated' /\ c \in Uncleaned(y)'
    BY DEF NoOrphanOption, Unexcused
  <2>1. PICK y \in Saver : save[y] # Unset /\ y \notin outdated /\ c \in Uncleaned(y)
    BY DEF LabelsIInv, NoOrphanOption, Unexcused
  <2>2. y # s
    BY <2>1
  <2>3. save'[y] = save[y] /\ Uncleaned(y)' = Uncleaned(y)
    BY <1>1, <2>2 DEF Uncleaned
  <2> QED BY <1>1, <2>1, <2>3
<1> QED BY <1>2, <1>3, <1>4, <1>5 DEF LabelsIInv

LEMMA CleanHolds ==
    ASSUME LabelsIInv, NEW s \in Saver, save[s] # Unset, save[s].rows # Unset,
           NEW row \in save[s].rows, CleanRow(s, row)
    PROVE  LabelsIInv'
<1> DEFINE next == row.ids \cap save[s].kept
           x == [save[s] EXCEPT !.rows = save[s].rows \ {row}]
<1>1. save[s] \in Saved /\ row \in Listed /\ row.card \in Card /\ row.ids \in SUBSET Option
  BY DEF LabelsIInv, LabelsTypeOK, Saved, Listed
<1>2. x \in Saved /\ x # Unset /\ x.kept = save[s].kept /\ x.rows = save[s].rows \ {row} /\ x.rows # Unset
  <2>1. x \in Saved /\ x.kept = save[s].kept /\ x.rows = save[s].rows \ {row}
    BY <1>1 DEF Saved
  <2>2. save[s].rows \ {row} \in SUBSET Listed
    BY <1>1 DEF Saved
  <2> HIDE DEF x
  <2> QED BY <2>1, <2>2, LabelsAssumption
<1>3. UNCHANGED <<tagVars, options, edit>>
  BY DEF CleanRow
<1>4. ASSUME save' = [save EXCEPT ![s] = x], outdated' = outdated, value' \in [Card -> SUBSET Option],
             options # Unset => Unexcused' \subseteq Unexcused,
             options # Unset => row.card \notin Unexcused' \/ s \in outdated
      PROVE  LabelsIInv'
  <2>1. /\ save' \in [Saver -> Saved \cup {Unset}] /\ save'[s] = x
        /\ \A y \in Saver \ {s} : save'[y] = save[y]
    BY <1>2, <1>4 DEF LabelsIInv, LabelsTypeOK
  <2> HIDE DEF x
  <2>2. LabelsTypeOK' /\ FreshEdits'
    BY <1>3, <1>4, <2>1 DEF LabelsIInv, LabelsTypeOK, FreshEdits, tagVars
  <2>3. FreshSaves'
    <3>1. \A y \in Saver \cap outdated' : save'[y] # Unset
      BY <1>2, <1>4, <2>1 DEF LabelsIInv, FreshSaves
    <3>2. ASSUME options # Unset, NEW y \in Saver \ outdated, save'[y] # Unset
          PROVE  /\ save'[y].kept = options
                 /\ save'[y].rows # Unset => \A r \in save'[y].rows :
                       r.card \in Unexcused' => ~(r.ids \subseteq save'[y].kept)
      <4>1. save[y] # Unset /\ save'[y].kept = save[y].kept
        BY <1>2, <2>1, <3>2
      <4>2. save'[y].rows # Unset => save[y].rows # Unset /\ save'[y].rows \subseteq save[y].rows
        BY <1>2, <2>1
      <4> QED BY <1>4, <3>2, <4>1, <4>2 DEF LabelsIInv, FreshSaves
    <3> QED BY <1>3, <1>4, <3>1, <3>2 DEF FreshSaves
  <2>4. NoOrphanOption'
    <3> SUFFICES ASSUME options # Unset, NEW c \in Unexcused'
                 PROVE  \E y \in Saver : save'[y] # Unset /\ y \notin outdated /\ c \in Uncleaned(y)'
      BY <1>3, <1>4 DEF NoOrphanOption, Unexcused
    <3>1. PICK y \in Saver : save[y] # Unset /\ y \notin outdated /\ c \in Uncleaned(y)
      BY <1>4 DEF LabelsIInv, NoOrphanOption, Unexcused
    <3>2. CASE y = s
      <4>1. c # row.card
        BY <1>4, <3>1, <3>2
      <4>2. PICK r \in save[s].rows : c = r.card
        BY <3>1, <3>2 DEF Uncleaned
      <4>3. r \in x.rows
        BY <1>2, <4>1, <4>2
      <4>4. c \in Uncleaned(s)'
        BY <1>2, <2>1, <4>2, <4>3 DEF Uncleaned
      <4> QED BY <1>2, <2>1, <3>1, <3>2, <4>4
    <3>3. CASE y # s
      BY <2>1, <3>1, <3>3 DEF Uncleaned
    <3> QED BY <3>2, <3>3
  <2> QED BY <2>2, <2>3, <2>4 DEF LabelsIInv
<1>5. ASSUME options # Unset, s \notin outdated
      PROVE  save[s].kept = options /\ (row.card \in Unexcused => ~(row.ids \subseteq save[s].kept))
  BY <1>5 DEF LabelsIInv, FreshSaves
<1>6. CASE next = row.ids
  <2>1. save' = [save EXCEPT ![s] = x] /\ UNCHANGED <<value, outdated, left>>
    BY <1>6 DEF CleanRow
  <2>2. Unexcused' = Unexcused
    BY <1>3, <2>1 DEF Unexcused
  <2>3. value' \in [Card -> SUBSET Option]
    BY <2>1 DEF LabelsIInv, LabelsTypeOK
  <2>4. options # Unset /\ s \notin outdated => row.card \notin Unexcused
    BY <1>5, <1>6
  <2> HIDE DEF x, next
  <2> QED BY <1>4, <2>1, <2>2, <2>3, <2>4
<1>7. CASE next # row.ids /\ value[row.card] # {}
  <2> DEFINE S == IF s \in outdated THEN {row.card} ELSE {}
  <2>1. /\ save' = [save EXCEPT ![s] = x] /\ UNCHANGED outdated
        /\ WriteValues([value EXCEPT ![row.card] = next], S)
    BY <1>7 DEF CleanRow
  <2>2. next \in SUBSET Option
    BY <1>1
  <2>3. value' \in [Card -> SUBSET Option] /\ left' = (left \cup S) \cap Orphans(value', options)
        /\ value'[row.card] = next
    BY <1>1, <2>1, <2>2 DEF WriteValues, LabelsIInv, LabelsTypeOK
  <2>4. options # Unset /\ s \notin outdated => next \subseteq options
    BY <1>5
  <2> HIDE DEF next, x
  <2>5. options # Unset => Unexcused' \subseteq Unexcused
    <3> HIDE DEF S
    <3>1. options # Unset => next \subseteq options \/ row.card \in S
      BY <2>4 DEF S
    <3> QED BY <1>1, <1>3, <2>1, <2>2, <3>1, OneValue DEF LabelsIInv
  <2>6. options # Unset => row.card \notin Unexcused' \/ s \in outdated
    BY <1>3, <2>3, <2>4 DEF Unexcused, Orphans
  <2> QED BY <1>4, <2>1, <2>3, <2>5, <2>6
<1>8. CASE next # row.ids /\ value[row.card] = {}
  <2>1. EndSave(s) /\ IF options = Unset THEN UNCHANGED <<value, left>> ELSE WriteValues(value, Uncleaned(s))
    BY <1>8 DEF CleanRow
  <2>2. value' = value /\ (options # Unset => left' = (left \cup Uncleaned(s)) \cap Orphans(value, options))
    BY <2>1 DEF WriteValues
  <2>3. options # Unset => Unexcused' \subseteq Unexcused /\ Unexcused' \cap Uncleaned(s) = {}
    BY <1>3, <2>2 DEF Unexcused
  <2> QED BY <1>3, <2>1, <2>2, <2>3, EndHolds
<1> QED BY <1>6, <1>7, <1>8

LEMMA StopHolds ==
    ASSUME LabelsIInv, NEW s \in Saver, SaveAnswers(s) \/ SaveStops(s)
    PROVE  LabelsIInv'
<1>1. CASE SaveAnswers(s)
  <2>1. EndSave(s) /\ UNCHANGED <<tagVars, options, value, edit, left>> /\ save[s].rows = {}
    BY <1>1 DEF SaveAnswers
  <2>2. {} # Unset
    BY LabelsAssumption
  <2>3. Uncleaned(s) = {}
    BY <2>1, <2>2 DEF Uncleaned
  <2>4. Unexcused' = Unexcused
    BY <2>1 DEF Unexcused
  <2> QED BY <2>1, <2>3, <2>4, EndHolds
<1>2. CASE SaveStops(s)
  <2>1. /\ EndSave(s) /\ UNCHANGED <<tagVars, options, edit>>
        /\ IF options = Unset THEN UNCHANGED <<value, left>> ELSE WriteValues(value, Uncleaned(s))
    BY <1>2 DEF SaveStops
  <2>2. value' = value /\ (options # Unset => left' = (left \cup Uncleaned(s)) \cap Orphans(value, options))
    BY <2>1 DEF WriteValues
  <2>3. options # Unset => Unexcused' \subseteq Unexcused /\ Unexcused' \cap Uncleaned(s) = {}
    BY <2>1, <2>2 DEF Unexcused
  <2> QED BY <2>1, <2>2, <2>3, EndHolds
<1> QED BY <1>1, <1>2

LEMMA DeleteFieldHolds == ASSUME LabelsIInv, DeleteField PROVE LabelsIInv'
<1>1. /\ options' = Unset /\ value' = [c \in Card |-> {}] /\ UNCHANGED <<tagVars, edit, save, outdated>>
  BY DEF DeleteField
<1> QED BY <1>1 DEF LabelsIInv, LabelsTypeOK, FreshEdits, FreshSaves, NoOrphanOption, tagVars

LEMMA LabelsStep ==
    ASSUME LabelsIInv, [LabelsNext]_labelVars
    PROVE  LabelsIInv'
<1>1. CASE UNCHANGED labelVars
  BY <1>1 DEF labelVars, LabelsIInv, LabelsTypeOK, FreshEdits, FreshSaves, NoOrphanOption, Unexcused,
     Orphans, Uncleaned
<1>2. ASSUME NEW s \in Saver,
             \/ \E o \in SUBSET Option : SaveOptions(s, o)
             \/ ListValues(s) \/ SaveAnswers(s) \/ SaveStops(s)
             \/ save[s] # Unset /\ save[s].rows # Unset /\ \E row \in save[s].rows : CleanRow(s, row)
      PROVE  LabelsIInv'
  BY <1>2, SaveHolds, ListHolds, StopHolds, CleanHolds
<1>3. CASE LabelsNext
  BY <1>2, <1>3, RequestsHold, WriteHolds, TagsHold, DeleteFieldHolds DEF LabelsNext
<1> QED BY <1>1, <1>3

\* What requests and saves checked is worth, and a task without excuse is still to clean by
\* a save: kept by every step of any number of requests and saves, interrupted or not.
THEOREM LabelsInvariant == LabelsSpec => []LabelsIInv
<1>1. LabelsInit => LabelsIInv
  BY LabelsAssumption DEF LabelsInit, LabelsIInv, LabelsTypeOK, FreshEdits, FreshSaves, NoOrphanOption, Unexcused,
     Orphans
<1> QED BY <1>1, LabelsStep, PTL DEF LabelsSpec

\* No value keeps an option that a save removed, once it has answered.
THEOREM NoOrphans == LabelsSpec => []NoOrphanOption
BY LabelsInvariant, PTL DEF LabelsIInv

\* Tags of tasks exist and are few; a request on tags wants tags.
TagsFit ==
    /\ \A c \in Card : taskTags[c] \subseteq tags /\ Cardinality(taskTags[c]) <= TagLimit
    /\ \A e \in Editor : edit[e] # Unset /\ edit[e].kind # "value" => edit[e].wanted \subseteq Tag

\* What a step may do to the tags of a task, by the request that does it.
Taken(c, g) == \E e \in Editor : /\ edit[e] # Unset /\ edit[e].card = c /\ edit'[e] = Unset
                                 /\ g \notin edit[e].wanted
                                 /\ edit[e].base = Unset \/ g \in edit[e].base
Put(c, g) == \E e \in Editor : /\ edit[e] # Unset /\ edit[e].card = c /\ edit'[e] = Unset
                               /\ g \in edit[e].wanted
                               /\ edit[e].base = Unset \/ g \notin edit[e].base
Moves ==
    \A c \in Card :
        /\ \A g \in (taskTags[c] \ taskTags'[c]) \cap tags' : Taken(c, g)
        /\ \A g \in taskTags'[c] \ taskTags[c] : Put(c, g)

\* A subset of a set of tags is no larger.
LEMMA Fewer ==
    ASSUME NEW A, NEW B, A \subseteq B, IsFiniteSet(B), Cardinality(B) <= TagLimit
    PROVE  Cardinality(A) <= TagLimit
<1>1. IsFiniteSet(A) /\ Cardinality(A) <= Cardinality(B)
  BY FS_Subset
<1>2. Cardinality(A) \in Nat /\ Cardinality(B) \in Nat
  BY <1>1, FS_CardinalityType
<1> QED BY <1>1, <1>2, LabelsAssumption

LEMMA ApplyFits ==
    ASSUME LabelsTypeOK, TagsFit, NEW e \in Editor, ApplyTags(e)
    PROVE  TagsFit' /\ Moves
<1> DEFINE c == edit[e].card
           seenTags == edit[e].base
           wanted == edit[e].wanted
           target == Target(e, taskTags[c])
<1>1. /\ edit[e] \in Asked /\ edit[e] # Unset /\ edit[e].kind = "tags" /\ c \in Card /\ wanted \subseteq Tag
      /\ edit \in [Editor -> Asked \cup {Unset}] /\ taskTags \in [Card -> SUBSET Tag] /\ tags \in SUBSET Tag
  BY DEF ApplyTags, LabelsTypeOK, TagsFit, Asked
<1>2. /\ taskTags' = IF Cardinality(target) > TagLimit THEN taskTags
                      ELSE [taskTags EXCEPT ![c] = target \cap tags]
      /\ edit' = [edit EXCEPT ![e] = Unset] /\ tags' = tags
  BY DEF ApplyTags
<1>3. target = IF seenTags = Unset THEN wanted ELSE (taskTags[c] \cup (wanted \ seenTags)) \ (seenTags \ wanted)
  BY DEF Target
<1>4. target \subseteq Tag /\ IsFiniteSet(target) /\ Cardinality(target) \in Nat
  <2>1. target \subseteq Tag
    BY <1>1, <1>3
  <2> HIDE DEF target
  <2> QED BY <2>1, FS_Subset, FS_CardinalityType, LabelsAssumption
<1>5. edit'[e] = Unset /\ \A d \in Editor : edit'[d] # Unset => edit'[d] = edit[d]
  BY <1>1, <1>2
<1>6. CASE taskTags' = taskTags
  BY <1>2, <1>5, <1>6 DEF TagsFit, Moves
<1>7. CASE taskTags' # taskTags
  <2>1. /\ ~(Cardinality(target) > TagLimit) /\ taskTags'[c] = target \cap tags
        /\ \A d \in Card \ {c} : taskTags'[d] = taskTags[d]
    <3> HIDE DEF target, c
    <3> QED BY <1>1, <1>2, <1>7
  <2>2. TagsFit'
    <3>1. Cardinality(target) <= TagLimit
      BY <1>4, <2>1, LabelsAssumption
    <3>2. Cardinality(target \cap tags) <= TagLimit
      <4> HIDE DEF target
      <4> QED BY <1>4, <3>1, Fewer
    <3> HIDE DEF target, c
    <3> QED BY <1>2, <1>5, <2>1, <3>2 DEF TagsFit
  <2>3. Moves
    <3>1. ASSUME NEW g \in (taskTags[c] \ taskTags'[c]) \cap tags'
          PROVE  g \notin wanted /\ (seenTags = Unset \/ g \in seenTags)
      BY <1>2, <1>3, <2>1, <3>1
    <3>2. ASSUME NEW g \in taskTags'[c] \ taskTags[c]
          PROVE  g \in wanted /\ (seenTags = Unset \/ g \notin seenTags)
      BY <1>3, <2>1, <3>2
    <3> QED BY <1>1, <1>5, <2>1, <3>1, <3>2 DEF Moves, Taken, Put
  <2> QED BY <2>2, <2>3
<1> QED BY <1>6, <1>7

LEMMA TagsStep ==
    ASSUME LabelsTypeOK, TagsFit, [LabelsNext]_labelVars
    PROVE  TagsFit' /\ Moves
<1>0. edit \in [Editor -> Asked \cup {Unset}]
  BY DEF LabelsTypeOK
<1>1. ASSUME UNCHANGED tagVars,
             \A e \in Editor : edit'[e] # Unset /\ edit'[e].kind # "value" =>
                                   edit'[e] = edit[e] \/ edit'[e].wanted \subseteq Tag
      PROVE  TagsFit' /\ Moves
  BY <1>1 DEF TagsFit, Moves, tagVars
<1>2. ASSUME NEW e \in Editor, NEW c \in Card, NEW seenTags, OpenTags(e, c, seenTags)
      PROVE  TagsFit' /\ Moves
  BY <1>0, <1>1, <1>2 DEF OpenTags
<1>3. ASSUME NEW e \in Editor, NEW c \in Card, NEW o \in SUBSET Option, CheckValue(e, c, o)
      PROVE  TagsFit' /\ Moves
  BY <1>0, <1>1, <1>3 DEF CheckValue
<1>4. ASSUME NEW e \in Editor, NEW g \in SUBSET Tag, CheckTags(e, g)
      PROVE  TagsFit' /\ Moves
  <2>0. PICK kept \in SUBSET g : edit' = [edit EXCEPT ![e].kind = "tags", ![e].wanted = kept]
    BY <1>4, KeptAreAsked
  <2>1. edit' = [edit EXCEPT ![e] = [edit[e] EXCEPT !.kind = "tags", !.wanted = kept]] /\ edit[e] \in Asked
    BY <1>0, <1>4, <2>0 DEF CheckTags
  <2>2. [edit[e] EXCEPT !.kind = "tags", !.wanted = kept].wanted = kept
    BY <2>1 DEF Asked
  <2>3. \A d \in Editor : edit'[d] = edit[d] \/ edit'[d].wanted \subseteq Tag
    BY <1>0, <2>1, <2>2
  <2> QED BY <1>1, <1>4, <2>3 DEF CheckTags
<1>5. ASSUME NEW e \in Editor, WriteValue(e)
      PROVE  TagsFit' /\ Moves
  BY <1>0, <1>1, <1>5 DEF WriteValue
<1>6. ASSUME NEW s \in Saver,
             \/ \E o \in SUBSET Option : SaveOptions(s, o)
             \/ ListValues(s) \/ SaveAnswers(s) \/ SaveStops(s)
             \/ save[s] # Unset /\ save[s].rows # Unset /\ \E row \in save[s].rows : CleanRow(s, row)
      PROVE  TagsFit' /\ Moves
  <2>1. UNCHANGED <<tagVars, edit>>
    BY <1>6 DEF SaveOptions, ListValues, SaveAnswers, SaveStops, CleanRow
  <2> QED BY <1>1, <2>1
<1>7. CASE DeleteField
  BY <1>1, <1>7 DEF DeleteField
<1>8. ASSUME NEW g \in Tag, CreateTag(g)
      PROVE  TagsFit' /\ Moves
  BY <1>8 DEF CreateTag, TagsFit, Moves
<1>9. ASSUME NEW g \in Tag, DeleteTag(g)
      PROVE  TagsFit' /\ Moves
  <2>1. /\ tags' = tags \ {g} /\ edit' = edit
        /\ \A c \in Card : taskTags'[c] = taskTags[c] \ {g}
    BY <1>9 DEF DeleteTag
  <2>2. \A c \in Card : Cardinality(taskTags'[c]) <= TagLimit
    <3> SUFFICES ASSUME NEW c \in Card PROVE Cardinality(taskTags'[c]) <= TagLimit
      OBVIOUS
    <3>1. taskTags'[c] \subseteq taskTags[c] /\ taskTags[c] \subseteq Tag
      BY <2>1 DEF LabelsTypeOK
    <3>2. IsFiniteSet(taskTags[c])
      BY <3>1, FS_Subset, LabelsAssumption
    <3> QED BY <3>1, <3>2, Fewer DEF TagsFit
  <2> QED BY <2>1, <2>2 DEF TagsFit, Moves
<1>10. CASE UNCHANGED labelVars
  BY <1>10 DEF labelVars, TagsFit, Moves
<1>11. CASE LabelsNext
  BY <1>2, <1>3, <1>4, <1>5, <1>6, <1>7, <1>8, <1>9, <1>11, ApplyFits DEF LabelsNext
<1> QED BY <1>10, <1>11

\* A late save of the tags of a task takes away only what its window showed, puts only what
\* its window did not show, and never a tag that is gone nor one too many.
THEOREM TagsAsAsked == LabelsSpec => TagsMoveAsAsked
<1>1. LabelsInit => TagsFit
  <2>1. Cardinality({}) <= TagLimit
    BY FS_EmptySet, LabelsAssumption
  <2> QED BY <2>1 DEF LabelsInit, TagsFit
<1>2. LabelsIInv => LabelsTypeOK
  BY DEF LabelsIInv
<1>3. LabelsTypeOK /\ TagsFit /\ [LabelsNext]_labelVars => TagsFit'
  BY TagsStep
<1>4. LabelsTypeOK /\ TagsFit /\ [LabelsNext]_labelVars => [TagsMove]_labelVars
  BY TagsStep DEF TagsFit, Moves, Taken, Put, TagsMove
<1> QED BY <1>1, <1>2, <1>3, <1>4, LabelsInvariant, PTL DEF LabelsSpec, TagsMoveAsAsked

-----------------------------------------------------------------------------
(* Recurrence: multiples, and least elements.                              *)

LEMMA Multiple ==
    ASSUME NEW n \in Int, n > 0, NEW a \in Int, a % n = 0
    PROVE  \E k \in Int : a = n * k
<1>1. \A x \in Int : x = n * (x \div n) + (x % n) /\ x \div n \in Int
  <2>1. SUFFICES ASSUME NEW x \in Int PROVE x = n * (x \div n) + (x % n) /\ x \div n \in Int
    OBVIOUS
  <2>2. x = n * (x \div n) + (x % n)
    OBVIOUS
  <2>3. x \div n \in Int
    OBVIOUS
  <2> QED BY <2>2, <2>3
<1>2. PICK k \in Int : k = a \div n
  BY <1>1
<1>3. a = n * (a \div n) + 0
  BY <1>1
<1> QED BY <1>2, <1>3

LEMMA MultipleOf ==
    ASSUME NEW n \in Int, n > 0, NEW k \in Int
    PROVE  (n * k) % n = 0
OBVIOUS

LEMMA MultipleSum ==
    ASSUME NEW n \in Int, n > 0, NEW a \in Int, NEW b \in Int, a % n = 0, b % n = 0
    PROVE  (a + b) % n = 0 /\ (a - b) % n = 0
<1>1. PICK j \in Int : a = n * j
  BY Multiple
<1>2. PICK k \in Int : b = n * k
  BY Multiple
<1>3. a + b = n * (j + k) /\ a - b = n * (j - k)
  BY <1>1, <1>2
<1>4. (n * (j + k)) % n = 0 /\ (n * (j - k)) % n = 0
  <2>1. PICK x \in Int, y \in Int : x = j + k /\ y = j - k
    OBVIOUS
  <2>2. (n * x) % n = 0 /\ (n * y) % n = 0
    BY MultipleOf
  <2> QED BY <2>1, <2>2
<1> QED BY <1>3, <1>4

LEMMA MultipleRange ==
    ASSUME NEW n \in Int, n > 0, NEW a \in Int, a % n = 0, 0 <= a, a <= n
    PROVE  a = 0 \/ a = n
<1>1. ASSUME 0 < a, a < n PROVE a % n = a
  BY <1>1
<1> QED BY <1>1

\* A finite set of integers that is not empty has a least element.
LEMMA LeastOf ==
    ASSUME NEW S, S \subseteq Int, IsFiniteSet(S), S # {}
    PROVE  \E x \in S : \A y \in S : x <= y
<1> DEFINE below(x) == {t \in S : t < x}
           T == {below(x) : x \in S}
<1>1. T \subseteq FiniteSubsetsOf(S)
  <2>1. \A x \in S : below(x) \in SUBSET S
    OBVIOUS
  <2> QED BY <2>1, FS_FiniteSubsetsOfFinite
<1>2. T # {}
  OBVIOUS
<1>3. PICK X \in T : \A Y \in T : ~ (<<Y, X>> \in StrictSubsetOrdering(S))
  <2> HIDE DEF T
  <2> QED BY <1>1, <1>2, FS_StrictSubsetOrderingWellFounded, WFMin
<1>4. PICK x \in S : X = below(x)
  BY <1>3
<1>5. ASSUME NEW y \in S, ~(x <= y) PROVE FALSE
  <2>1. y \in Int /\ x \in Int /\ y < x
    BY <1>5
  <2>2. below(y) \subseteq below(x) /\ y \in below(x) /\ y \notin below(y)
    <3>1. \A t \in S : t < y => t < x
      <4>1. \A t \in Int : t < y => t < x
        BY <2>1
      <4> QED BY <4>1
    <3>2. ~(y < y)
      BY <2>1
    <3> QED BY <2>1, <3>1, <3>2
  <2>3. below(y) \in T /\ below(y) \in SUBSET S /\ below(x) \in SUBSET S
    OBVIOUS
  <2> HIDE DEF below, T
  <2> QED BY <1>3, <1>4, <2>2, <2>3 DEF StrictSubsetOrdering
<1> QED BY <1>5

LEMMA LeastNatural ==
    ASSUME NEW S, S \subseteq Nat, S # {}
    PROVE  \E x \in S : \A y \in S : x <= y
<1>1. PICK t : t \in S
  OBVIOUS
<1> DEFINE B == S \cap (0..t)
<1>2. IsFiniteSet(0..t)
  BY <1>1, FS_Interval
<1>3. IsFiniteSet(B)
  BY <1>2, FS_Subset
<1>4. B \subseteq Int /\ B # {}
  BY <1>1
<1>5. PICK x \in B : \A y \in B : x <= y
  <2> HIDE DEF B
  <2> QED BY <1>3, <1>4, LeastOf
<1>6. ASSUME NEW y \in S PROVE x <= y
  <2>1. y \in Nat /\ t \in Nat /\ x \in Nat /\ x <= t
    BY <1>1
  <2>2. CASE y <= t
    BY <1>5, <2>1, <2>2
  <2>3. CASE ~(y <= t)
    BY <2>1, <2>3
  <2> QED BY <2>2, <2>3
<1> QED BY <1>6

-----------------------------------------------------------------------------
(* Functions defined by recursion on days and months.                      *)

\* Sums of the months before, for as many months as one likes.
LEMMA SumsExist ==
    ASSUME NEW N \in Nat, NEW inc \in [Nat -> Nat]
    PROVE  \E g : g = [m \in 0..N |-> IF m = 0 THEN 0 ELSE g[m - 1] + inc[m - 1]]
<1> DEFINE Sums(n, g) == g = [m \in 0..n |-> IF m = 0 THEN 0 ELSE g[m - 1] + inc[m - 1]]
           Bad == {n \in 0..N : ~\E g : Sums(n, g)}
<1>1. SUFFICES ASSUME Bad # {} PROVE FALSE
  <2>1. \E g : Sums(N, g)
    <3> HIDE DEF Sums
    <3> QED BY <1>1
  <2> QED BY <2>1
<1>2. PICK n \in Bad : \A y \in Bad : n <= y
  <2>1. Bad \subseteq Nat
    OBVIOUS
  <2> HIDE DEF Bad
  <2> QED BY <1>1, <2>1, LeastNatural
<1>3. n \in Nat /\ n <= N
  OBVIOUS
<1>4. n # 0
  <2>1. Sums(0, [m \in 0..0 |-> 0])
    OBVIOUS
  <2> HIDE DEF Sums
  <2> QED BY <2>1
<1>5. PICK g : Sums(n - 1, g)
  <2>1. n - 1 \in 0..N /\ ~(n <= n - 1)
    BY <1>3, <1>4
  <2> HIDE DEF Sums
  <2> QED BY <1>2, <2>1
<1> DEFINE h == [m \in 0..n |-> IF m = n THEN g[n - 1] + inc[n - 1] ELSE g[m]]
<1>6. ASSUME NEW m \in 0..n PROVE h[m] = IF m = 0 THEN 0 ELSE h[m - 1] + inc[m - 1]
  <2>1. CASE m = n
    BY <1>3, <1>4, <2>1
  <2>2. CASE m # n /\ m = 0
    <3>1. g[0] = 0
      BY <1>3, <1>4, <1>5
    <3> QED BY <2>2, <3>1
  <2>3. CASE m # n /\ m # 0
    <3>1. m \in 0..(n - 1) /\ m - 1 \in 0..n /\ m - 1 # n
      BY <1>3, <2>3
    <3>2. g[m] = g[m - 1] + inc[m - 1]
      BY <1>5, <2>3, <3>1
    <3> QED BY <2>3, <3>1, <3>2
  <2> QED BY <2>1, <2>2, <2>3
<1>7. Sums(n, h)
  <2>1. h = [m \in 0..n |-> h[m]]
    OBVIOUS
  <2> HIDE DEF h
  <2> QED BY <1>6, <2>1
<1> HIDE DEF Sums, h
<1> QED BY <1>7

\* Going from day to day by a function that goes forward, until some day is reached.
LEMMA ClimbExists ==
    ASSUME NEW N \in Nat, NEW step \in [0..N -> Int], \A d \in 0..N : step[d] > d,
           NEW goal \in Int, goal <= N
    PROVE  \E g : g = [d \in 0..N |-> IF step[d] >= goal THEN step[d] ELSE g[step[d]]]
<1> DEFINE Climb(n, g) == g = [d \in (N - n)..N |-> IF step[d] >= goal THEN step[d] ELSE g[step[d]]]
           Bad == {n \in 0..N : ~\E g : Climb(n, g)}
<1>1. SUFFICES ASSUME Bad # {} PROVE FALSE
  <2>1. \E g : Climb(N, g)
    <3> HIDE DEF Climb
    <3> QED BY <1>1
  <2>2. N - N = 0
    OBVIOUS
  <2> QED BY <2>1, <2>2
<1>2. PICK n \in Bad : \A y \in Bad : n <= y
  <2>1. Bad \subseteq Nat
    OBVIOUS
  <2> HIDE DEF Bad
  <2> QED BY <1>1, <2>1, LeastNatural
<1>3. n \in Nat /\ n <= N
  OBVIOUS
<1>4. PICK k \in 0..N : k = N - n
  BY <1>3
<1>5. \E g : g = [d \in (k + 1)..N |-> IF step[d] >= goal THEN step[d] ELSE g[step[d]]]
  <2>1. CASE n = 0
    <3>1. [d \in (k + 1)..N |-> 0] = [d \in (k + 1)..N |-> IF step[d] >= goal THEN step[d] ELSE [e \in (k + 1)..N |-> 0][step[d]]]
      BY <1>4, <2>1
    <3> QED BY <3>1
  <2>2. CASE n # 0
    <3>1. n - 1 \in 0..N /\ ~(n <= n - 1)
      BY <1>3, <2>2
    <3>2. PICK g : Climb(n - 1, g)
      <4> HIDE DEF Climb
      <4> QED BY <1>2, <3>1
    <3>3. N - (n - 1) = k + 1
      BY <1>3, <1>4
    <3> QED BY <3>2, <3>3
  <2> QED BY <2>1, <2>2
<1>6. PICK g : g = [d \in (k + 1)..N |-> IF step[d] >= goal THEN step[d] ELSE g[step[d]]]
  BY <1>5
<1> DEFINE h == [d \in k..N |-> IF d = k THEN (IF step[k] >= goal THEN step[k] ELSE g[step[k]]) ELSE g[d]]
<1>7. ASSUME NEW d \in k..N PROVE h[d] = IF step[d] >= goal THEN step[d] ELSE h[step[d]]
  <2>1. d \in 0..N /\ step[d] \in Int /\ step[d] > d
    <3>1. d \in 0..N
      BY <1>4
    <3> QED BY <3>1
  <2>2. CASE step[d] >= goal
    <3>1. CASE d = k
      BY <2>2, <3>1
    <3>2. CASE d # k
      <4>1. d \in (k + 1)..N
        BY <1>4, <3>2
      <4> QED BY <1>6, <2>2, <3>2, <4>1
    <3> QED BY <3>1, <3>2
  <2>3. CASE ~(step[d] >= goal)
    <3>1. step[d] \in k..N /\ step[d] # k
      BY <1>4, <2>1, <2>3
    <3>2. h[step[d]] = g[step[d]]
      BY <3>1
    <3>3. h[d] = g[step[d]]
      <4>1. CASE d = k
        BY <2>3, <4>1
      <4>2. CASE d # k
        <5>1. d \in (k + 1)..N
          BY <1>4, <4>2
        <5> QED BY <1>6, <2>3, <4>2, <5>1
      <4> QED BY <4>1, <4>2
    <3> QED BY <2>3, <3>2, <3>3
  <2> QED BY <2>2, <2>3
<1>8. h = [d \in k..N |-> IF step[d] >= goal THEN step[d] ELSE h[step[d]]]
  <2>1. h = [d \in k..N |-> h[d]]
    OBVIOUS
  <2> HIDE DEF h
  <2> QED BY <1>7, <2>1
<1>9. Climb(n, h)
  <2> HIDE DEF h
  <2> QED BY <1>4, <1>8
<1> HIDE DEF Climb, h
<1> QED BY <1>9

-----------------------------------------------------------------------------
(* The calendar.                                                           *)

LEMMA DaysFacts ==
    ASSUME NEW m \in Nat
    PROVE  DaysInMonth(m) \in 28..31
BY DEF DaysInMonth

LEMMA StartsFacts ==
    /\ MonthStart \in [0..Months -> Nat] /\ MonthStart[0] = 0
    /\ \A m \in 0..(Months - 1) : MonthStart[m + 1] = MonthStart[m] + DaysInMonth(m)
<1>1. Months \in Nat
  BY RecurrenceAssumption
<1> DEFINE inc == [m \in Nat |-> DaysInMonth(m)]
<1>2. inc \in [Nat -> Nat]
  BY DaysFacts
<1>3. PICK g : g = [m \in 0..Months |-> IF m = 0 THEN 0 ELSE g[m - 1] + inc[m - 1]]
  <2> HIDE DEF inc
  <2> QED BY <1>1, <1>2, SumsExist
<1>4. g = [m \in 0..Months |-> IF m = 0 THEN 0 ELSE g[m - 1] + DaysInMonth(m - 1)]
  <2>1. ASSUME NEW m \in 0..Months, m # 0 PROVE inc[m - 1] = DaysInMonth(m - 1)
    <3>1. m - 1 \in Nat
      BY <2>1
    <3> QED BY <3>1
  <2> HIDE DEF inc
  <2> QED BY <1>3, <2>1
<1>5. MonthStart = [m \in 0..Months |-> IF m = 0 THEN 0 ELSE MonthStart[m - 1] + DaysInMonth(m - 1)]
  BY <1>4 DEF MonthStart
<1>6. MonthStart[0] = 0
  BY <1>1, <1>5
<1>7. ASSUME NEW m \in 0..(Months - 1) PROVE MonthStart[m + 1] = MonthStart[m] + DaysInMonth(m)
  <2>1. m + 1 \in 0..Months /\ m + 1 # 0 /\ (m + 1) - 1 = m
    BY <1>1
  <2> QED BY <1>5, <2>1
<1> DEFINE Bad == {m \in 0..Months : MonthStart[m] \notin Nat}
<1>8. Bad = {}
  <2> SUFFICES ASSUME Bad # {} PROVE FALSE
    OBVIOUS
  <2>1. PICK m \in Bad : \A y \in Bad : m <= y
    <3>1. Bad \subseteq Nat
      OBVIOUS
    <3> HIDE DEF Bad
    <3> QED BY <3>1, LeastNatural
  <2>2. m # 0 /\ m \in 0..Months
    BY <1>6
  <2>3. PICK k \in 0..(Months - 1) : m = k + 1
    <3>1. m - 1 \in 0..(Months - 1) /\ m = (m - 1) + 1
      BY <1>1, <2>2
    <3> QED BY <3>1
  <2>4. MonthStart[k] \in Nat
    <3>1. k \in 0..Months /\ ~(m <= k)
      BY <1>1, <2>3
    <3> QED BY <2>1, <3>1
  <2>5. DaysInMonth(k) \in Nat
    BY DaysFacts
  <2>6. MonthStart[m] \in Nat
    BY <1>7, <2>3, <2>4, <2>5
  <2> QED BY <2>6
<1>9. MonthStart \in [0..Months -> Nat]
  BY <1>5, <1>8
<1> QED BY <1>6, <1>7, <1>9

LEMMA StartsGrow ==
    ASSUME NEW m \in 0..Months, NEW n \in 0..Months, m < n
    PROVE  MonthStart[m] + DaysInMonth(m) <= MonthStart[n]
<1>1. Months \in Nat /\ \A x \in 0..Months : MonthStart[x] \in Nat /\ DaysInMonth(x) \in 28..31
  BY RecurrenceAssumption, StartsFacts, DaysFacts
<1> DEFINE Bad == {x \in 0..Months : m < x /\ ~(MonthStart[m] + DaysInMonth(m) <= MonthStart[x])}
<1> SUFFICES ASSUME Bad # {} PROVE FALSE
  OBVIOUS
<1>2. PICK x \in Bad : \A y \in Bad : x <= y
  <2>1. Bad \subseteq Nat
    OBVIOUS
  <2> HIDE DEF Bad
  <2> QED BY <2>1, LeastNatural
<1>3. PICK k \in 0..(Months - 1) : x = k + 1
  <2>1. x - 1 \in 0..(Months - 1) /\ x = (x - 1) + 1
    BY <1>1
  <2> QED BY <2>1
<1>4. MonthStart[x] = MonthStart[k] + DaysInMonth(k)
  BY <1>3, StartsFacts
<1>5. k \in 0..Months /\ m \in Int /\ x \in Int /\ m < x /\ ~(x <= k)
  BY <1>1, <1>3
<1>6. CASE m = k
  <2>1. MonthStart[m] + DaysInMonth(m) <= MonthStart[x]
    BY <1>1, <1>4, <1>5, <1>6
  <2> QED BY <2>1
<1>7. CASE m # k
  <2>1. m < k
    BY <1>3, <1>5, <1>7
  <2>2. k \notin Bad
    BY <1>2, <1>5
  <2>3. MonthStart[m] + DaysInMonth(m) <= MonthStart[k]
    BY <1>5, <2>1, <2>2
  <2>4. MonthStart[m] + DaysInMonth(m) <= MonthStart[x]
    <3>1. MonthStart[m] \in Nat /\ MonthStart[k] \in Nat /\ DaysInMonth(k) \in Nat /\ DaysInMonth(m) \in Nat
      BY <1>1, <1>5
    <3> QED BY <1>4, <2>3, <3>1
  <2> QED BY <2>4
<1> QED BY <1>6, <1>7

\* A day is in one month.
LEMMA MonthFacts ==
    ASSUME NEW d \in Calendar
    PROVE  /\ d \in Nat /\ MonthOf[d] \in 0..(Months - 1)
           /\ MonthStart[MonthOf[d]] <= d /\ d < MonthStart[MonthOf[d]] + DaysInMonth(MonthOf[d])
           /\ \A m \in 0..(Months - 1) : MonthStart[m] <= d /\ d < MonthStart[m] + DaysInMonth(m) => m = MonthOf[d]
<1>1. Months \in Nat /\ \A x \in 0..Months : MonthStart[x] \in Nat /\ DaysInMonth(x) \in 28..31
  BY RecurrenceAssumption, StartsFacts, DaysFacts
<1>2. Months \in 0..Months
  BY <1>1
<1>3. d \in Nat /\ d < MonthStart[Months]
  BY <1>1, <1>2 DEF Calendar
<1> DEFINE T == {m \in 0..Months : d < MonthStart[m]}
<1>4. PICK n \in T : \A y \in T : n <= y
  <2>1. T \subseteq Nat /\ T # {}
    BY <1>2, <1>3
  <2> HIDE DEF T
  <2> QED BY <2>1, LeastNatural
<1>5. n # 0
  BY <1>3, StartsFacts
<1>6. PICK k \in 0..(Months - 1) : n = k + 1
  <2>1. n - 1 \in 0..(Months - 1) /\ n = (n - 1) + 1
    BY <1>1, <1>5
  <2> QED BY <2>1
<1>7. MonthStart[n] = MonthStart[k] + DaysInMonth(k)
  BY <1>6, StartsFacts
<1>8. k \in 0..Months /\ ~(n <= k)
  BY <1>1, <1>6
<1>9. k \notin T
  BY <1>4, <1>8
<1>10. MonthStart[k] <= d
  <2>1. ~(d < MonthStart[k]) /\ MonthStart[k] \in Int
    BY <1>1, <1>8, <1>9
  <2> QED BY <1>3, <2>1
<1>11. ASSUME NEW m \in 0..(Months - 1), NEW l \in 0..(Months - 1), m < l,
              MonthStart[l] <= d, d < MonthStart[m] + DaysInMonth(m)
       PROVE  FALSE
  <2>1. m \in 0..Months /\ l \in 0..Months
    BY <1>1
  <2>2. MonthStart[m] + DaysInMonth(m) <= MonthStart[l]
    BY <1>11, <2>1, StartsGrow
  <2>3. MonthStart[m] \in Nat /\ MonthStart[l] \in Nat /\ DaysInMonth(m) \in Nat
    BY <1>1, <2>1
  <2> QED BY <1>3, <1>11, <2>2, <2>3
<1>12. MonthStart[k] <= d /\ d < MonthStart[k + 1]
  BY <1>6, <1>10
<1>13. MonthOf[d] = CHOOSE m \in 0..(Months - 1) : MonthStart[m] <= d /\ d < MonthStart[m + 1]
  BY DEF MonthOf
<1>14. PICK o \in 0..(Months - 1) : o = MonthOf[d] /\ MonthStart[o] <= d /\ d < MonthStart[o + 1]
  BY <1>12, <1>13
<1>15. MonthStart[o + 1] = MonthStart[o] + DaysInMonth(o)
  BY StartsFacts
<1>16. ASSUME NEW m \in 0..(Months - 1), MonthStart[m] <= d, d < MonthStart[m] + DaysInMonth(m) PROVE m = o
  <2>1. ~(m < o)
    BY <1>11, <1>14, <1>16
  <2>2. ~(o < m)
    BY <1>11, <1>14, <1>15, <1>16
  <2> QED BY <1>1, <2>1, <2>2
<1> QED BY <1>3, <1>14, <1>15, <1>16

LEMMA MonthsOrder ==
    ASSUME NEW d \in Calendar, NEW e \in Calendar, d <= e
    PROVE  MonthOf[d] <= MonthOf[e]
<1>1. SUFFICES ASSUME ~(MonthOf[d] <= MonthOf[e]) PROVE FALSE
  OBVIOUS
<1>2. Months \in Nat
  BY RecurrenceAssumption
<1>3. PICK m \in 0..(Months - 1), n \in 0..(Months - 1) :
        /\ m = MonthOf[d] /\ n = MonthOf[e]
        /\ MonthStart[m] <= d /\ e < MonthStart[n] + DaysInMonth(n)
  BY MonthFacts
<1>4. n < m /\ n \in 0..Months /\ m \in 0..Months
  BY <1>1, <1>2, <1>3
<1>5. MonthStart[n] + DaysInMonth(n) <= MonthStart[m]
  BY <1>4, StartsGrow
<1>6. MonthStart[m] \in Nat /\ MonthStart[n] \in Nat /\ DaysInMonth(n) \in Nat /\ d \in Nat /\ e \in Nat
  BY <1>4, StartsFacts, DaysFacts, MonthFacts
<1> QED BY <1>3, <1>5, <1>6

LEMMA DayFacts ==
    ASSUME NEW d \in Calendar
    PROVE  /\ DayOfMonth(d) \in 1..DaysInMonth(MonthOf[d])
           /\ d = MonthStart[MonthOf[d]] + DayOfMonth(d) - 1
<1>1. Months \in Nat
  BY RecurrenceAssumption
<1>2. PICK m \in 0..(Months - 1) : m = MonthOf[d] /\ MonthStart[m] <= d /\ d < MonthStart[m] + DaysInMonth(m)
  BY MonthFacts
<1>3. MonthStart[m] \in Nat /\ DaysInMonth(m) \in Nat /\ d \in Nat
  <2>1. m \in Nat /\ m \in 0..Months
    BY <1>1
  <2>2. DaysInMonth(m) \in 28..31
    BY <2>1, DaysFacts
  <2>3. MonthStart[m] \in Nat
    BY <2>1, StartsFacts
  <2> QED BY <2>2, <2>3, MonthFacts
<1>4. DayOfMonth(d) = d - MonthStart[m] + 1
  BY <1>2 DEF DayOfMonth
<1> QED BY <1>2, <1>3, <1>4

\* The day of month asked for, some months later.
LEMMA DayAt ==
    ASSUME NEW m \in 0..(Months - 1), NEW k \in 1..DaysInMonth(m), NEW d, d = MonthStart[m] + k - 1
    PROVE  d \in Calendar /\ MonthOf[d] = m /\ DayOfMonth(d) = k
<1>1. Months \in Nat /\ m \in Nat /\ m + 1 \in 0..Months /\ m \in 0..Months /\ Months \in 0..Months
  BY RecurrenceAssumption
<1>2. MonthStart[m] \in Nat /\ DaysInMonth(m) \in Nat /\ k \in Nat /\ k >= 1 /\ k <= DaysInMonth(m) /\ MonthStart[Months] \in Nat
  <2>1. DaysInMonth(m) \in 28..31
    BY <1>1, DaysFacts
  <2>2. PICK c \in 28..31 : c = DaysInMonth(m)
    BY <2>1
  <2>3. k \in 1..c
    BY <2>2
  <2>4. MonthStart[m] \in Nat /\ MonthStart[Months] \in Nat
    BY <1>1, StartsFacts
  <2> QED BY <2>2, <2>3, <2>4
<1>3. MonthStart[m] + DaysInMonth(m) <= MonthStart[Months]
  <2>1. m < Months
    BY <1>1
  <2> QED BY <1>1, <2>1, StartsGrow
<1>4. d \in Calendar
  <2>1. d \in Int /\ 0 <= d /\ d <= MonthStart[Months] - 1
    BY <1>2, <1>3
  <2> QED BY <1>2, <2>1 DEF Calendar
<1>5. MonthStart[m] <= d /\ d < MonthStart[m] + DaysInMonth(m)
  BY <1>2
<1>6. m = MonthOf[d]
  BY <1>4, <1>5, MonthFacts
<1>7. DayOfMonth(d) = d - MonthStart[m] + 1
  BY <1>6 DEF DayOfMonth
<1> QED BY <1>2, <1>4, <1>6, <1>7

LEMMA AddMonthsFacts ==
    ASSUME NEW d \in Calendar, NEW k \in Nat, k > 0, MonthOf[d] + k < Months, NEW target \in 0..31,
           NEW x, x = AddMonths(d, k, target), NEW w, w = IF target = 0 THEN DayOfMonth(d) ELSE target
    PROVE  /\ x \in Calendar /\ MonthOf[x] = MonthOf[d] + k /\ x > d
           /\ w \in Nat /\ DayOfMonth(x) = Least(w, DaysInMonth(MonthOf[x]))
<1>1. Months \in Nat
  BY RecurrenceAssumption
<1>2. PICK o \in 0..(Months - 1) : o = MonthOf[d]
  BY MonthFacts
<1>3. PICK m \in 0..(Months - 1) : m = o + k
  <2>1. o + k \in 0..(Months - 1)
    BY <1>1, <1>2
  <2> QED BY <2>1
<1>4. DaysInMonth(m) \in 28..31 /\ DaysInMonth(o) \in 28..31
  BY <1>1, DaysFacts
<1>5. w \in Nat /\ w >= 1
  <2>1. DayOfMonth(d) \in 1..DaysInMonth(o)
    BY <1>2, DayFacts
  <2>2. PICK c \in 28..31 : c = DaysInMonth(o)
    BY <1>4
  <2>3. DayOfMonth(d) \in 1..c
    BY <2>1, <2>2
  <2> QED BY <2>3
<1>6. PICK l \in 1..DaysInMonth(m) : l = Least(w, DaysInMonth(m))
  <2>1. PICK c \in 28..31 : c = DaysInMonth(m)
    BY <1>4
  <2>2. Least(w, c) \in 1..c
    BY <1>5 DEF Least
  <2> QED BY <2>1, <2>2
<1>7. x = MonthStart[m] + l - 1
  BY <1>2, <1>3, <1>6 DEF AddMonths
<1>8. x \in Calendar /\ MonthOf[x] = m /\ DayOfMonth(x) = l
  BY <1>7, DayAt
<1>9. x > d
  <2>1. d \in Nat /\ x \in Nat
    BY <1>8, MonthFacts
  <2>2. x <= d => m <= o
    BY <1>2, <1>8, MonthsOrder
  <2>3. ~(m <= o)
    BY <1>1, <1>3
  <2> QED BY <2>1, <2>2, <2>3
<1> QED BY <1>2, <1>3, <1>5, <1>6, <1>8, <1>9

-----------------------------------------------------------------------------
(* Weeks.                                                                  *)

LEMMA WeekFacts ==
    ASSUME NEW d \in Nat
    PROVE  /\ IsoWeekday(d) \in 1..7 /\ Monday(d) \in Int /\ d = Monday(d) + IsoWeekday(d) - 1
           /\ \E q \in Int : Monday(d) + FirstWeekday = 7 * q
<1>1. FirstWeekday \in 0..6
  BY RecurrenceAssumption
<1>2. PICK x \in Nat : x = d + FirstWeekday
  BY <1>1
<1>3. x % 7 \in 0..6 /\ x = 7 * (x \div 7) + (x % 7) /\ x \div 7 \in Int
  <2>1. x % 7 \in 0..6 /\ x \div 7 \in Int
    OBVIOUS
  <2>2. x = 7 * (x \div 7) + (x % 7)
    OBVIOUS
  <2> QED BY <2>1, <2>2
<1>4. IsoWeekday(d) = (x % 7) + 1
  BY <1>2 DEF IsoWeekday
<1>5. Monday(d) = d + 1 - IsoWeekday(d)
  BY DEF Monday
<1>6. PICK w \in 1..7, q \in Int : w = IsoWeekday(d) /\ x = 7 * q + w - 1
  BY <1>3, <1>4
<1>7. Monday(d) + FirstWeekday = 7 * q
  BY <1>1, <1>2, <1>5, <1>6
<1> QED BY <1>5, <1>6, <1>7

\* The day w of the week that comes j weeks after that of d.
LEMMA WeekDay ==
    ASSUME NEW d \in Nat, NEW e \in Nat, NEW j \in Int, NEW w \in 1..7, e = Monday(d) + 7 * j + w - 1
    PROVE  IsoWeekday(e) = w /\ Monday(e) = Monday(d) + 7 * j
<1>1. FirstWeekday \in 0..6
  BY RecurrenceAssumption
<1>2. PICK q \in Int, m \in Int : m = Monday(d) /\ m + FirstWeekday = 7 * q
  BY WeekFacts
<1>3. PICK p \in Int, v \in 1..7, n \in Int :
        n = Monday(e) /\ v = IsoWeekday(e) /\ n + FirstWeekday = 7 * p /\ e = n + v - 1
  BY WeekFacts
<1>4. 7 * p + v = 7 * (q + j) + w
  BY <1>1, <1>2, <1>3
<1>5. v = w /\ p = q + j
  BY <1>4
<1> QED BY <1>1, <1>2, <1>3, <1>5

\* Weeks of a chain are as many weeks apart as the rule says, or the same.
LEMMA WeeksApart ==
    ASSUME NEW d \in Nat, NEW e \in Nat, d <= e, NEW s \in Nat, NEW n \in Int, n > 0,
           (Monday(d) - Monday(s)) % n = 0, (Monday(e) - Monday(s)) % n = 0
    PROVE  Monday(e) = Monday(d) \/ Monday(e) >= Monday(d) + n
<1>1. PICK a \in Int, v \in 1..7, p \in Int : a = Monday(d) /\ v = IsoWeekday(d) /\ d = a + v - 1 /\ a + FirstWeekday = 7 * p
  BY WeekFacts
<1>2. PICK b \in Int, w \in 1..7, q \in Int : b = Monday(e) /\ w = IsoWeekday(e) /\ e = b + w - 1 /\ b + FirstWeekday = 7 * q
  BY WeekFacts
<1>3. PICK c \in Int : c = Monday(s)
  BY WeekFacts
<1>4. b - a >= 0
  <2>1. b - a = 7 * (q - p)
    BY <1>1, <1>2, RecurrenceAssumption
  <2>2. b - a > -7
    BY <1>1, <1>2
  <2> QED BY <2>1, <2>2
<1>5. (a - c) % n = 0 /\ (b - c) % n = 0
  BY <1>1, <1>2, <1>3
<1>6. PICK x \in Int, y \in Int : x = a - c /\ y = b - c
  OBVIOUS
<1>7. (y - x) % n = 0
  BY <1>5, <1>6, MultipleSum
<1>8. y - x = b - a
  BY <1>6
<1>9. PICK z \in Int : z = b - a /\ z % n = 0 /\ z >= 0
  BY <1>4, <1>7, <1>8
<1>10. z <= n => z = 0 \/ z = n
  BY <1>9, MultipleRange
<1>11. z = 0 \/ z >= n
  BY <1>10
<1>12. b = a \/ b >= a + n
  <2>1. z = b - a
    BY <1>9
  <2> QED BY <1>11, <2>1
<1> QED BY <1>1, <1>2, <1>12

LEMMA LeastWeekday ==
    ASSUME NEW S, S \subseteq 1..7, S # {}
    PROVE  Min(S) \in S /\ \A y \in S : Min(S) <= y
<1>1. S \subseteq Nat
  OBVIOUS
<1>2. \E x \in S : \A y \in S : x <= y
  BY <1>1, LeastNatural
<1> QED BY <1>2 DEF Min

-----------------------------------------------------------------------------
(* The next occurrence.                                                    *)

RecurrenceTypes ==
    /\ rule \in Rule /\ day \in Nat /\ due \in Nat \cup {NoDue} /\ start \in Int \cup {NoDue}

LEMMA RuleFacts ==
    ASSUME RecurrenceTypes
    PROVE  /\ rule.freq \in {"DAILY", "WEEKLY", "MONTHLY", "YEARLY"} /\ rule.interval \in 1..365
           /\ rule.weekdays \subseteq 1..7 /\ rule.monthDay \in 0..31
           /\ Source \in Nat /\ Latest \in Nat /\ Source <= Latest /\ day <= Latest /\ day \in Nat
           /\ MonthsLater \in Nat /\ MonthsLater > 0
<1>1. rule.freq \in {"DAILY", "WEEKLY", "MONTHLY", "YEARLY"} /\ rule.interval \in 1..365
      /\ rule.weekdays \subseteq 1..7 /\ rule.monthDay \in 0..31
  BY RecurrenceAssumption DEF RecurrenceTypes
<1>2. Source \in Nat /\ day \in Nat
  BY DEF Source, RecurrenceTypes
<1>3. Latest \in Nat /\ Source <= Latest /\ day <= Latest
  BY <1>2 DEF Latest
<1>4. MonthsLater \in Nat /\ MonthsLater > 0
  BY <1>1 DEF MonthsLater
<1> QED BY <1>1, <1>2, <1>3, <1>4

Monthly == rule.freq \in {"MONTHLY", "YEARLY"}

\* The day of the month the rule gives to AddMonths; 0 for that of the last occurrence.
AskedDay == IF rule.freq = "YEARLY" THEN 0 ELSE rule.monthDay

LEMMA Reach ==
    ASSUME RecurrenceTypes, Covered, NEW d \in 0..Latest
    PROVE  d \in Calendar /\ (Monthly => MonthOf[d] + MonthsLater < Months)
<1>1. Latest \in Nat /\ Latest \in Calendar
  BY RuleFacts DEF Covered
<1>2. Months \in Nat /\ Months \in 0..Months
  BY RecurrenceAssumption
<1>3. MonthStart[Months] \in Nat
  BY <1>2, StartsFacts
<1>4. d \in Calendar /\ d <= Latest
  BY <1>1, <1>3 DEF Calendar
<1>5. MonthOf[d] <= MonthOf[Latest] /\ MonthOf[d] \in 0..(Months - 1) /\ MonthOf[Latest] \in 0..(Months - 1)
  BY <1>1, <1>4, MonthsOrder, MonthFacts
<1>6. Monthly => MonthOf[Latest] + MonthsLater < Months
  BY DEF Covered, Monthly
<1>7. MonthsLater \in Nat
  BY RuleFacts
<1> QED BY <1>2, <1>4, <1>5, <1>6, <1>7

LEMMA NextMonthly ==
    ASSUME RecurrenceTypes, Covered, Monthly, NEW d \in 0..Latest,
           NEW n, n = NextOccurrence(rule, d), NEW w, w = IF AskedDay = 0 THEN DayOfMonth(d) ELSE AskedDay
    PROVE  /\ n \in Calendar /\ MonthOf[n] = MonthOf[d] + MonthsLater /\ n > d
           /\ w \in Nat /\ DayOfMonth(n) = Least(w, DaysInMonth(MonthOf[n]))
<1>1. rule.freq # "DAILY" /\ rule.freq # "WEEKLY"
  BY DEF Monthly
<1>2. n = AddMonths(d, MonthsLater, AskedDay)
  <2>1. CASE rule.freq = "MONTHLY"
    BY <2>1 DEF NextOccurrence, MonthsLater, AskedDay
  <2>2. CASE rule.freq = "YEARLY"
    BY <2>2 DEF NextOccurrence, MonthsLater, AskedDay
  <2> QED BY <2>1, <2>2 DEF Monthly
<1>3. AskedDay \in 0..31 /\ MonthsLater \in Nat /\ MonthsLater > 0
  BY RuleFacts DEF AskedDay
<1>4. d \in Calendar /\ MonthOf[d] + MonthsLater < Months
  BY Reach
<1> QED BY <1>2, <1>3, <1>4, AddMonthsFacts

LEMMA NextDaily ==
    ASSUME RecurrenceTypes, rule.freq = "DAILY", NEW d \in Nat
    PROVE  NextOccurrence(rule, d) = d + rule.interval
BY DEF NextOccurrence

\* The day of the week given, in the week of d or after the weeks that are skipped.
LEMMA NextWeekly ==
    ASSUME RecurrenceTypes, rule.freq = "WEEKLY", NEW d \in Nat, NEW n, n = NextOccurrence(rule, d)
    PROVE  /\ n \in Nat /\ n > d
           /\ \/ /\ rule.weekdays = {} /\ Monday(n) = Monday(d) + 7 * rule.interval
                 /\ IsoWeekday(n) = IsoWeekday(d)
              \/ /\ rule.weekdays # {} /\ Monday(n) = Monday(d) /\ IsoWeekday(n) \in rule.weekdays
                 /\ \A w \in rule.weekdays : w > IsoWeekday(d) => IsoWeekday(n) <= w
              \/ /\ rule.weekdays # {} /\ Monday(n) = Monday(d) + 7 * rule.interval /\ IsoWeekday(n) \in rule.weekdays
                 /\ \A w \in rule.weekdays : w <= IsoWeekday(d) /\ IsoWeekday(n) <= w
<1> DEFINE later == {w \in rule.weekdays : w > IsoWeekday(d)}
<1>1. PICK i \in 1..365, W \in SUBSET (1..7) : i = rule.interval /\ W = rule.weekdays
  BY RuleFacts
<1>2. PICK m \in Int, v \in 1..7 : m = Monday(d) /\ v = IsoWeekday(d) /\ d = m + v - 1
  BY WeekFacts
<1>3. n = IF W = {} THEN d + 7 * i
          ELSE IF later # {} THEN d + Min(later) - IsoWeekday(d)
          ELSE WeeksLater(rule, d)
  <2> HIDE DEF later
  <2> QED BY <1>1 DEF NextOccurrence, later
<1>4. CASE W = {}
  <2>1. n = d + 7 * i /\ n \in Nat /\ n > d
    BY <1>1, <1>3, <1>4
  <2>2. n = m + 7 * i + v - 1
    BY <1>2, <2>1
  <2>3. IsoWeekday(n) = v /\ Monday(n) = m + 7 * i
    BY <1>2, <2>1, <2>2, WeekDay
  <2> QED BY <1>1, <1>2, <1>4, <2>1, <2>3
<1>5. CASE W # {} /\ later # {}
  <2>1. later \subseteq 1..7
    BY <1>1
  <2>2. PICK w \in later : w = Min(later) /\ \A y \in later : w <= y
    <3> HIDE DEF later
    <3> QED BY <1>5, <2>1, LeastWeekday
  <2>3. w \in 1..7 /\ w > v /\ w \in W
    BY <1>1, <1>2
  <2>4. n = d + w - v
    <3> HIDE DEF later
    <3> QED BY <1>2, <1>3, <1>5, <2>2
  <2>5. n \in Nat /\ n > d /\ n = m + 7 * 0 + w - 1
    BY <1>2, <2>3, <2>4
  <2>6. IsoWeekday(n) = w /\ Monday(n) = m + 7 * 0
    <3>1. PICK j \in Int : j = 0
      OBVIOUS
    <3>2. n = Monday(d) + 7 * j + w - 1
      BY <1>2, <2>5, <3>1
    <3>3. IsoWeekday(n) = w /\ Monday(n) = Monday(d) + 7 * j
      BY <2>3, <2>5, <3>2, WeekDay
    <3> QED BY <1>2, <3>1, <3>3
  <2>7. Monday(n) = Monday(d)
    BY <1>2, <2>6
  <2> QED BY <1>1, <1>5, <2>2, <2>3, <2>5, <2>6, <2>7
<1>6. CASE W # {} /\ later = {}
  <2>1. PICK w \in W : w = Min(W) /\ \A y \in W : w <= y
    BY <1>6, LeastWeekday
  <2>2. n = m + 7 * i + w - 1
    BY <1>1, <1>2, <1>3, <1>6, <2>1 DEF WeeksLater
  <2>3. n \in Nat /\ n > d /\ w \in 1..7
    BY <1>1, <1>2, <2>2
  <2>4. IsoWeekday(n) = w /\ Monday(n) = m + 7 * i
    BY <1>2, <2>2, <2>3, WeekDay
  <2>5. \A y \in W : y <= v
    <3>1. \A y \in W : y \in 1..7 /\ ~(y > v)
      BY <1>1, <1>2, <1>6
    <3> QED BY <3>1
  <2> QED BY <1>1, <1>2, <1>6, <2>1, <2>3, <2>4, <2>5
<1> QED BY <1>4, <1>5, <1>6

-----------------------------------------------------------------------------
(* The next occurrence is the first day the rule names after an occurrence *)
(* of the chain.                                                           *)

OnChain(d) == d = Source \/ (d > Source /\ Named(d))

FirstAfter(d, n) == n \in Int /\ n > d /\ Named(n) /\ \A e \in (d + 1)..(n - 1) : ~Named(e)

LEMMA DailyFirst ==
    ASSUME RecurrenceTypes, rule.freq = "DAILY", NEW d \in Nat, OnChain(d), NEW n, n = NextOccurrence(rule, d)
    PROVE  FirstAfter(d, n)
<1>1. PICK i \in Int, s \in Nat : i = rule.interval /\ i > 0 /\ s = Source
  BY RuleFacts
<1>2. \A e : Named(e) <=> (e - s) % i = 0
  BY <1>1 DEF Named
<1>3. n = d + i
  BY <1>1, NextDaily
<1>4. (d - s) % i = 0
  <2>1. CASE d = s
    <3>1. (i * 0) % i = 0 /\ d - s = i * 0
      BY <1>1, <2>1, MultipleOf
    <3> QED BY <3>1
  <2>2. CASE d # s
    BY <1>1, <1>2, <2>2 DEF OnChain
  <2> QED BY <2>1, <2>2
<1>5. Named(n)
  <2>1. i % i = 0
    BY <1>1
  <2>2. PICK a \in Int : a = d - s /\ a % i = 0
    BY <1>4
  <2>3. (a + i) % i = 0
    BY <1>1, <2>1, <2>2, MultipleSum
  <2>4. n - s = a + i
    BY <1>1, <1>3, <2>2
  <2> QED BY <1>2, <2>3, <2>4
<1>6. ASSUME NEW e \in (d + 1)..(n - 1), Named(e) PROVE FALSE
  <2>1. PICK a \in Int, b \in Int : a = d - s /\ b = e - s
    OBVIOUS
  <2>2. (b - a) % i = 0
    BY <1>1, <1>2, <1>4, <1>6, <2>1, MultipleSum
  <2>3. PICK c \in Int : c = b - a
    OBVIOUS
  <2>4. 0 < c /\ c < i /\ c % i = 0
    BY <1>1, <1>3, <2>1, <2>2, <2>3
  <2> QED BY <1>1, <2>4, MultipleRange
<1>7. n \in Int /\ n > d
  BY <1>1, <1>3
<1> QED BY <1>5, <1>6, <1>7 DEF FirstAfter

LEMMA WeeklyFirst ==
    ASSUME RecurrenceTypes, rule.freq = "WEEKLY", NEW d \in Nat, OnChain(d), NEW n, n = NextOccurrence(rule, d)
    PROVE  FirstAfter(d, n)
<1>1. PICK i \in Int, s \in Nat, W \in SUBSET (1..7) : i = rule.interval /\ i > 0 /\ s = Source /\ W = rule.weekdays
  <2>1. rule.interval \in Int /\ rule.interval > 0 /\ Source \in Nat
    BY RuleFacts
  <2>2. rule.weekdays \in SUBSET (1..7)
    BY RuleFacts
  <2> QED BY <2>1, <2>2
<1>2. \A e : Named(e) <=> /\ (Monday(e) - Monday(s)) % (7 * i) = 0
                         /\ IF W = {} THEN IsoWeekday(e) = IsoWeekday(s) ELSE IsoWeekday(e) \in W
  BY <1>1 DEF Named
<1>3. PICK l \in Int : l = 7 * i /\ l > 0
  BY <1>1
<1>4. PICK m \in Int, v \in 1..7 : m = Monday(d) /\ v = IsoWeekday(d) /\ d = m + v - 1
  BY WeekFacts
<1>5. PICK o \in Int : o = Monday(s)
  BY WeekFacts
<1>6. (m - o) % l = 0 /\ (W = {} => v = IsoWeekday(s))
  <2>1. CASE d = s
    <3>1. (l * 0) % l = 0
      BY <1>3, MultipleOf
    <3>2. l * 0 = 0
      OBVIOUS
    <3>3. m - o = 0
      <4>1. Monday(d) = Monday(s)
        BY <2>1
      <4>2. m = o
        BY <1>4, <1>5, <4>1
      <4> QED BY <4>2
    <3> QED BY <1>4, <2>1, <3>1, <3>2, <3>3
  <2>2. CASE d # s
    BY <1>1, <1>2, <1>3, <1>4, <1>5, <2>2 DEF OnChain
  <2> QED BY <2>1, <2>2
<1>7. /\ n \in Nat /\ n > d
      /\ \/ W = {} /\ Monday(n) = m + l /\ IsoWeekday(n) = v
         \/ /\ W # {} /\ Monday(n) = m /\ IsoWeekday(n) \in W
            /\ \A w \in W : w > v => IsoWeekday(n) <= w
         \/ /\ W # {} /\ Monday(n) = m + l /\ IsoWeekday(n) \in W
            /\ \A w \in W : w <= v /\ IsoWeekday(n) <= w
  BY <1>1, <1>3, <1>4, NextWeekly
<1>8. PICK p \in Int, z \in 1..7 : p = Monday(n) /\ z = IsoWeekday(n) /\ n = p + z - 1
  BY <1>7, WeekFacts
<1>9. (p - o) % l = 0
  <2>1. CASE p = m
    BY <1>6, <2>1
  <2>2. CASE p = m + l
    <3>1. (l * 1) % l = 0 /\ l * 1 = l
      BY <1>3, MultipleOf
    <3>2. PICK a \in Int : a = m - o
      OBVIOUS
    <3>3. (a + l) % l = 0
      BY <1>3, <1>6, <3>1, <3>2, MultipleSum
    <3>4. p - o = a + l
      BY <2>2, <3>2
    <3> QED BY <3>3, <3>4
  <2> QED BY <1>7, <1>8, <2>1, <2>2
<1>10. Named(n)
  BY <1>2, <1>3, <1>5, <1>6, <1>7, <1>8, <1>9
<1>11. ASSUME NEW e \in (d + 1)..(n - 1), Named(e) PROVE FALSE
  <2>1. e \in Nat /\ d < e /\ e < n
    BY <1>7
  <2>2. PICK b \in Int, w \in 1..7 : b = Monday(e) /\ w = IsoWeekday(e) /\ e = b + w - 1
    BY <2>1, WeekFacts
  <2>3. (b - o) % l = 0 /\ IF W = {} THEN w = IsoWeekday(s) ELSE w \in W
    BY <1>2, <1>3, <1>5, <1>11, <2>2
  <2>4. b = m \/ b >= m + l
    <3>1. d <= e
      BY <2>1
    <3>2. (Monday(d) - Monday(s)) % l = 0 /\ (Monday(e) - Monday(s)) % l = 0
      BY <1>4, <1>5, <1>6, <2>2, <2>3
    <3>3. Monday(e) = Monday(d) \/ Monday(e) >= Monday(d) + l
      BY <1>3, <2>1, <3>1, <3>2, WeeksApart
    <3> QED BY <1>4, <2>2, <3>3
  <2>5. CASE W = {}
    <3>1. w = v /\ p = m + l /\ z = v
      BY <1>6, <1>7, <1>8, <2>3, <2>5
    <3>2. b # m
      BY <1>4, <2>1, <2>2, <3>1
    <3>3. b >= m + l
      BY <2>4, <3>2
    <3>4. e >= n
      BY <1>8, <2>2, <3>1, <3>3
    <3> QED BY <1>7, <2>1, <3>4
  <2>6. CASE W # {} /\ p = m /\ \A x \in W : x > v => z <= x
    <3>1. b = m
      <4>1. CASE b >= m + l
        <5>1. Monday(n) = Monday(e) \/ Monday(n) >= Monday(e) + l
          <6>1. e <= n
            BY <2>1, <1>7
          <6>2. (Monday(e) - Monday(s)) % l = 0 /\ (Monday(n) - Monday(s)) % l = 0
            BY <1>5, <1>8, <1>9, <2>2, <2>3
          <6> QED BY <1>3, <1>7, <2>1, <6>1, <6>2, WeeksApart
        <5>2. p >= b
          BY <1>3, <1>8, <2>2, <5>1
        <5> QED BY <1>3, <2>6, <4>1, <5>2
      <4> QED BY <2>4, <4>1
    <3>2. w > v
      BY <1>4, <2>1, <2>2, <3>1
    <3>4. w \in W
      BY <2>3, <2>6
    <3>3. z <= w
      BY <2>6, <3>2, <3>4
    <3> QED BY <1>8, <2>1, <2>2, <2>6, <3>1, <3>3
  <2>7. CASE W # {} /\ p = m + l /\ \A x \in W : x <= v /\ z <= x
    <3>1. w \in W /\ w <= v /\ z <= w
      BY <2>3, <2>7
    <3>2. b # m
      BY <1>4, <2>1, <2>2, <3>1
    <3>3. b >= m + l
      BY <2>4, <3>2
    <3> QED BY <1>8, <2>1, <2>2, <2>7, <3>1, <3>3
  <2> QED BY <1>7, <1>8, <2>5, <2>6, <2>7
<1> QED BY <1>7, <1>10, <1>11 DEF FirstAfter

\* Where the chain does not drift, no month of it lacks the day of its first occurrence.
LEMMA DayKept ==
    ASSUME RecurrenceTypes, Monthly, ~Drifts, AskedDay = 0, Source \in Calendar, NEW m \in Nat,
           (m - MonthOf[Source]) % MonthsLater = 0
    PROVE  DayOfMonth(Source) \in Nat /\ DayOfMonth(Source) <= DaysInMonth(m)
<1>1. Months \in Nat
  BY RecurrenceAssumption
<1>2. PICK o \in 0..(Months - 1) : o = MonthOf[Source]
  BY MonthFacts
<1>3. o \in Nat
  BY <1>1
<1>4. PICK c \in 28..31 : c = DaysInMonth(o)
  BY <1>3, DaysFacts
<1>5. PICK k \in 1..c : k = DayOfMonth(Source)
  BY <1>2, <1>4, DayFacts
<1>6. DaysInMonth(m) \in 28..31
  BY DaysFacts
<1>7. CASE k <= 28
  BY <1>5, <1>6, <1>7
<1>8. CASE ~(k <= 28)
  <2>1. k > 28
    BY <1>8
  <2>2. rule.freq = "YEARLY" /\ o % 12 # 1
    BY <1>2, <1>5, <2>1 DEF Drifts, Monthly, AskedDay
  <2>3. PICK i \in Int : i = rule.interval /\ i > 0
    BY RuleFacts
  <2>4. PICK x \in Int : x = 12 * i /\ x > 0
    BY <2>3
  <2>5. MonthsLater = x
    BY <2>2, <2>3, <2>4 DEF MonthsLater
  <2>6. PICK a \in Int : a = m - o
    BY <1>3
  <2>7. PICK j \in Int : a = x * j
    <3>1. a % x = 0
      BY <1>2, <2>5, <2>6
    <3> QED BY <2>4, <3>1, Multiple
  <2>8. PICK y \in Int : y = i * j
    BY <2>3
  <2>9. m = o + 12 * y
    <3>1. a = 12 * (i * j)
      BY <2>3, <2>4, <2>7
    <3> QED BY <1>3, <2>6, <2>8, <3>1
  <2>10. m % 12 = o % 12
    BY <1>3, <2>9
  <2>11. DaysInMonth(m) = DaysInMonth(o)
    BY <2>2, <2>10 DEF DaysInMonth
  <2> QED BY <1>4, <1>5, <2>11
<1> QED BY <1>7, <1>8

LEMMA MonthlyFirst ==
    ASSUME RecurrenceTypes, Covered, Monthly, ~Drifts, NEW d \in 0..Latest, OnChain(d),
           NEW n, n = NextOccurrence(rule, d)
    PROVE  FirstAfter(d, n)
<1> DEFINE wanted == IF AskedDay = 0 THEN DayOfMonth(Source) ELSE AskedDay
<1>1. \A e : Named(e) <=> /\ MonthOf[e] > MonthOf[Source] /\ (MonthOf[e] - MonthOf[Source]) % MonthsLater = 0
                         /\ DayOfMonth(e) = Least(wanted, DaysInMonth(MonthOf[e]))
  <2>1. wanted = IF rule.freq = "YEARLY" \/ rule.monthDay = 0 THEN DayOfMonth(Source) ELSE rule.monthDay
    BY DEF AskedDay
  <2>2. rule.freq # "DAILY" /\ rule.freq # "WEEKLY"
    BY DEF Monthly
  <2> HIDE DEF wanted
  <2> QED BY <2>1, <2>2 DEF Named
<1>2. Source \in 0..Latest /\ d \in Nat
  BY RuleFacts
<1>3. Source \in Calendar /\ d \in Calendar
  BY <1>2, Reach
<1>4. Months \in Nat
  BY RecurrenceAssumption
<1>5. PICK l \in Int : l = MonthsLater /\ l > 0
  BY RuleFacts
<1>6. PICK o \in 0..(Months - 1), m \in 0..(Months - 1) : o = MonthOf[Source] /\ m = MonthOf[d]
  BY <1>3, MonthFacts
<1>7. PICK w : w = IF AskedDay = 0 THEN DayOfMonth(d) ELSE AskedDay
  OBVIOUS
<1>8. /\ n \in Calendar /\ MonthOf[n] = m + l /\ n > d
      /\ w \in Nat /\ DayOfMonth(n) = Least(w, DaysInMonth(MonthOf[n]))
  BY <1>5, <1>6, <1>7, NextMonthly
<1>9. (m - o) % l = 0 /\ o <= m /\ (d # Source => o < m /\ DayOfMonth(d) = Least(wanted, DaysInMonth(m)))
  <2>1. CASE d = Source
    <3>1. (l * 0) % l = 0 /\ m - o = l * 0 /\ o = m
      BY <1>5, <1>6, <2>1, MultipleOf
    <3> QED BY <1>4, <2>1, <3>1
  <2>2. CASE d # Source
    <3> HIDE DEF wanted
    <3>1. m > o /\ (m - o) % l = 0 /\ DayOfMonth(d) = Least(wanted, DaysInMonth(m))
      BY <1>1, <1>5, <1>6, <2>2 DEF OnChain
    <3> QED BY <1>4, <3>1
  <2> QED BY <2>1, <2>2
<1>10. PICK x \in Nat : x = m + l /\ x > o /\ (x - o) % l = 0
  <2>1. l % l = 0
    BY <1>5
  <2>2. PICK a \in Int : a = m - o /\ a % l = 0
    BY <1>4, <1>9
  <2>3. (a + l) % l = 0
    BY <1>5, <2>1, <2>2, MultipleSum
  <2>4. (m + l) - o = a + l /\ m + l \in Nat /\ m + l > o
    BY <1>4, <1>5, <1>9, <2>2
  <2> QED BY <2>3, <2>4
<1>11. w = wanted
  <2>1. CASE AskedDay # 0
    BY <1>7, <2>1
  <2>2. CASE AskedDay = 0 /\ d = Source
    BY <1>7, <2>2
  <2>3. CASE AskedDay = 0 /\ d # Source
    <3>1. m \in Nat
      BY <1>4
    <3>2. DayOfMonth(Source) \in Nat /\ DayOfMonth(Source) <= DaysInMonth(m)
      BY <1>3, <1>5, <1>6, <1>9, <2>3, <3>1, DayKept
    <3>3. wanted = DayOfMonth(Source)
      BY <2>3
    <3>4. DayOfMonth(d) = DayOfMonth(Source)
      <4> HIDE DEF wanted
      <4> QED BY <1>9, <2>3, <3>2, <3>3 DEF Least
    <3> QED BY <1>7, <2>3, <3>3, <3>4
  <2> QED BY <2>1, <2>2, <2>3
<1>12. Named(n)
  <2> HIDE DEF wanted
  <2> QED BY <1>1, <1>5, <1>6, <1>8, <1>10, <1>11
<1>13. ASSUME NEW e \in (d + 1)..(n - 1), Named(e) PROVE FALSE
  <2>1. n \in Nat /\ e \in Nat /\ d < e /\ e < n
    BY <1>2, <1>8, MonthFacts
  <2>2. e \in Calendar
    <3>1. MonthStart[Months] \in Int
      <4>1. Months \in 0..Months
        BY <1>4
      <4> QED BY <4>1, StartsFacts
    <3> QED BY <1>8, <2>1, <3>1 DEF Calendar
  <2>3. PICK y \in 0..(Months - 1) : y = MonthOf[e]
    BY <2>2, MonthFacts
  <2>4. m <= y /\ y <= x
    <3>1. MonthOf[d] <= MonthOf[e]
      BY <1>2, <1>3, <2>1, <2>2, MonthsOrder
    <3>2. MonthOf[e] <= MonthOf[n]
      BY <1>8, <2>1, <2>2, MonthsOrder
    <3> QED BY <1>6, <1>8, <1>10, <2>3, <3>1, <3>2
  <2>5. y > o /\ (y - o) % l = 0 /\ DayOfMonth(e) = Least(wanted, DaysInMonth(y))
    <3> HIDE DEF wanted
    <3> QED BY <1>1, <1>5, <1>6, <1>13, <2>3
  <2>6. y = m \/ y = x
    <3>1. PICK a \in Int, b \in Int : a = m - o /\ b = y - o
      BY <1>4
    <3>2. (b - a) % l = 0
      BY <1>5, <1>9, <2>5, <3>1, MultipleSum
    <3>3. PICK c \in Int : c = b - a /\ c = y - m
      BY <1>4, <3>1
    <3>4. c % l = 0 /\ 0 <= c /\ c <= l
      BY <1>4, <1>5, <1>10, <2>4, <3>2, <3>3
    <3>5. c = 0 \/ c = l
      BY <1>5, <3>4, MultipleRange
    <3> QED BY <1>4, <1>5, <1>10, <3>3, <3>5
  <2>7. e = MonthStart[y] + DayOfMonth(e) - 1
    BY <2>2, <2>3, DayFacts
  <2>8. CASE y = m
    <3>1. d # Source
      BY <1>4, <1>6, <2>5, <2>8
    <3>2. DayOfMonth(e) = DayOfMonth(d)
      <4> HIDE DEF wanted
      <4> QED BY <1>9, <2>5, <2>8, <3>1
    <3>3. d = MonthStart[m] + DayOfMonth(d) - 1
      BY <1>3, <1>6, DayFacts
    <3>4. d = e
      BY <2>7, <2>8, <3>2, <3>3
    <3> QED BY <1>2, <2>1, <3>4
  <2>9. CASE y = x
    <3>1. MonthOf[n] = x
      BY <1>8, <1>10
    <3>2. DayOfMonth(e) = DayOfMonth(n)
      <4> HIDE DEF wanted
      <4> QED BY <1>8, <1>11, <2>5, <2>9, <3>1
    <3>3. n = MonthStart[x] + DayOfMonth(n) - 1
      BY <1>8, <3>1, DayFacts
    <3>4. n = e
      BY <2>7, <2>9, <3>2, <3>3
    <3> QED BY <2>1, <3>4
  <2> QED BY <2>6, <2>8, <2>9
<1>14. n \in Int
  BY <1>8, MonthFacts
<1> QED BY <1>8, <1>12, <1>13, <1>14 DEF FirstAfter

LEMMA ChainFirst ==
    ASSUME RecurrenceTypes, Covered, ~Drifts, NEW d \in 0..Latest, OnChain(d)
    PROVE  FirstAfter(d, NextOccurrence(rule, d))
<1>1. d \in Nat /\ rule.freq \in {"DAILY", "WEEKLY", "MONTHLY", "YEARLY"}
  BY RuleFacts
<1>2. PICK n : n = NextOccurrence(rule, d)
  OBVIOUS
<1>3. FirstAfter(d, n)
  BY <1>1, <1>2, DailyFirst, WeeklyFirst, MonthlyFirst DEF Monthly
<1> QED BY <1>2, <1>3

\* Drifting or not, the next occurrence is later.
LEMMA NextLater ==
    ASSUME RecurrenceTypes, Covered, NEW d \in 0..Latest
    PROVE  NextOccurrence(rule, d) \in Int /\ NextOccurrence(rule, d) > d
<1>1. /\ d \in Nat /\ rule.freq \in {"DAILY", "WEEKLY", "MONTHLY", "YEARLY"}
      /\ rule.interval \in Int /\ rule.interval > 0
  BY RuleFacts
<1>2. CASE rule.freq = "DAILY"
  BY <1>1, <1>2, NextDaily
<1>3. CASE rule.freq = "WEEKLY"
  BY <1>1, <1>3, NextWeekly
<1>4. CASE rule.freq \in {"MONTHLY", "YEARLY"}
  <2>1. Monthly
    BY <1>4 DEF Monthly
  <2>2. PICK n : n = NextOccurrence(rule, d)
    OBVIOUS
  <2>3. PICK w : w = IF AskedDay = 0 THEN DayOfMonth(d) ELSE AskedDay
    OBVIOUS
  <2>4. n \in Calendar /\ n > d
    BY <2>1, <2>2, <2>3, NextMonthly
  <2>5. n \in Int
    BY <2>4, MonthFacts
  <2> QED BY <2>2, <2>4, <2>5
<1> QED BY <1>1, <1>2, <1>3, <1>4

-----------------------------------------------------------------------------
(* Catching up.                                                            *)

LEMMA CatchUpStep ==
    ASSUME RecurrenceTypes, Covered, NEW d \in 0..Latest, NEW n, n = NextOccurrence(rule, d)
    PROVE  CatchUp[d] = IF n >= day THEN n ELSE CatchUp[n]
<1> DEFINE step == [e \in 0..Latest |-> NextOccurrence(rule, e)]
<1>1. step \in [0..Latest -> Int] /\ \A e \in 0..Latest : step[e] > e
  BY NextLater
<1>2. Latest \in Nat /\ day \in Int /\ day <= Latest
  BY RuleFacts
<1>3. PICK g : g = [e \in 0..Latest |-> IF step[e] >= day THEN step[e] ELSE g[step[e]]]
  <2> HIDE DEF step
  <2> QED BY <1>1, <1>2, ClimbExists
<1>4. g = [e \in 0..Latest |-> LET next == NextOccurrence(rule, e) IN IF next >= day THEN next ELSE g[next]]
  BY <1>3
<1>5. CatchUp = [e \in 0..Latest |-> LET next == NextOccurrence(rule, e) IN IF next >= day THEN next ELSE CatchUp[next]]
  BY <1>4 DEF CatchUp
<1>6. CatchUp[d] = LET next == NextOccurrence(rule, d) IN IF next >= day THEN next ELSE CatchUp[next]
  BY <1>5
<1> QED BY <1>6

\* What is claimed of the day found from d.
CaughtUp(d, n) == n \in Int /\ n > d /\ n >= day

CaughtUpFirst(d, n) == CaughtUp(d, n) /\ Named(n) /\ \A e \in (d + 1)..(n - 1) : e >= day => ~Named(e)

LEMMA CatchUpFacts ==
    ASSUME RecurrenceTypes, Covered, NEW d \in 0..Latest
    PROVE  CaughtUp(d, CatchUp[d]) /\ (~Drifts /\ OnChain(d) => CaughtUpFirst(d, CatchUp[d]))
<1> DEFINE L == Latest
           Holds(e) == CaughtUp(e, CatchUp[e]) /\ (~Drifts /\ OnChain(e) => CaughtUpFirst(e, CatchUp[e]))
           Bad == {k \in 0..L : ~Holds(L - k)}
<1>1. L \in Nat /\ day \in Nat /\ day <= L /\ Source \in Nat
  BY RuleFacts
<1>2. Bad = {}
  <2> SUFFICES ASSUME Bad # {} PROVE FALSE
    OBVIOUS
  <2>1. PICK k \in Bad : \A y \in Bad : k <= y
    <3>1. Bad \subseteq Nat
      OBVIOUS
    <3> HIDE DEF Bad
    <3> QED BY <3>1, LeastNatural
  <2>2. PICK e \in 0..L : e = L - k
    BY <1>1
  <2>3. ~Holds(e)
    <3> HIDE DEF Holds
    <3> QED BY <2>2
  <2>4. PICK n : n = NextOccurrence(rule, e)
    OBVIOUS
  <2>5. n \in Int /\ n > e
    BY <2>2, <2>4, NextLater
  <2>6. CatchUp[e] = IF n >= day THEN n ELSE CatchUp[n]
    BY <2>2, <2>4, CatchUpStep
  <2>7. ~Drifts /\ OnChain(e) => FirstAfter(e, n)
    BY <2>2, <2>4, ChainFirst
  <2>8. CASE n >= day
    <3>1. CatchUp[e] = n
      BY <2>6, <2>8
    <3>2. CaughtUp(e, n)
      BY <2>5, <2>8 DEF CaughtUp
    <3>3. ~Drifts /\ OnChain(e) => CaughtUpFirst(e, n)
      BY <2>7, <3>2 DEF CaughtUpFirst, FirstAfter
    <3> QED BY <2>3, <3>1, <3>2, <3>3
  <2>9. CASE ~(n >= day)
    <3>1. n \in 0..L /\ CatchUp[e] = CatchUp[n] /\ n < day
      BY <1>1, <2>2, <2>5, <2>6, <2>9
    <3>2. Holds(n)
      <4>1. PICK j \in 0..L : j = L - n /\ n = L - j
        BY <1>1, <3>1
      <4>2. ~(k <= j)
        BY <1>1, <2>2, <2>5, <4>1
      <4> HIDE DEF Holds
      <4> QED BY <2>1, <4>1, <4>2
    <3>3. PICK c : c = CatchUp[n]
      OBVIOUS
    <3>4. CaughtUp(n, c) /\ (~Drifts /\ OnChain(n) => CaughtUpFirst(n, c))
      BY <3>2, <3>3
    <3>5. CaughtUp(e, c)
      BY <2>2, <2>5, <3>4 DEF CaughtUp
    <3>6. ASSUME ~Drifts, OnChain(e) PROVE CaughtUpFirst(e, c)
      <4>1. FirstAfter(e, n)
        BY <2>7, <3>6
      <4>2. OnChain(n)
        <5>1. e >= Source
          BY <1>1, <2>2, <3>6 DEF OnChain
        <5> QED BY <1>1, <2>2, <2>5, <4>1, <5>1 DEF OnChain, FirstAfter
      <4>3. CaughtUpFirst(n, c)
        BY <3>4, <3>6, <4>2
      <4>4. ASSUME NEW y \in (e + 1)..(c - 1), y >= day PROVE ~Named(y)
        <5>1. y \in (n + 1)..(c - 1)
          BY <1>1, <2>2, <2>5, <3>1, <4>3, <4>4 DEF CaughtUpFirst, CaughtUp
        <5> QED BY <4>3, <4>4, <5>1 DEF CaughtUpFirst
      <4> QED BY <3>5, <4>3, <4>4 DEF CaughtUpFirst
    <3>7. CatchUp[e] = c
      BY <3>1, <3>3
    <3> QED BY <2>3, <3>5, <3>6, <3>7
  <2> QED BY <2>8, <2>9
<1>3. PICK k \in 0..L : k = L - d /\ d = L - k
  BY <1>1
<1>4. Holds(d)
  <2> HIDE DEF Holds
  <2> QED BY <1>2, <1>3
<1> QED BY <1>4

\* The dates of a chain are days, and it goes forward.
THEOREM RecurrenceInvariant == RecurrenceSpec => []RecurrenceTypes
<1>1. RecurrenceInit => RecurrenceTypes
  <2> SUFFICES ASSUME RecurrenceInit PROVE RecurrenceTypes
    OBVIOUS
  <2>1. \A d \in Calendar : d \in Nat
    BY MonthFacts
  <2> QED BY <2>1 DEF RecurrenceInit, RecurrenceTypes
<1>2. RecurrenceTypes /\ [RecurrenceNext]_recurrenceVars => RecurrenceTypes'
  <2> SUFFICES ASSUME RecurrenceTypes, [RecurrenceNext]_recurrenceVars PROVE RecurrenceTypes'
    OBVIOUS
  <2>1. CASE Covered /\ SpawnNextOccurrence
    <3>1. Source \in 0..Latest /\ Source \in Nat
      BY RuleFacts
    <3>2. CaughtUp(Source, CatchUp[Source])
      BY <2>1, <3>1, CatchUpFacts
    <3>3. due' = CatchUp[Source] /\ rule' = rule /\ day' = day
          /\ start' = IF start = NoDue \/ due = NoDue THEN NoDue ELSE due' - (due - start)
      BY <2>1 DEF SpawnNextOccurrence
    <3>4. PICK c : c = CatchUp[Source]
      OBVIOUS
    <3>5. c \in Nat
      <4>1. CaughtUp(Source, c)
        BY <3>2, <3>4
      <4> QED BY <3>1, <4>1 DEF CaughtUp
    <3>6. due' \in Nat
      BY <3>3, <3>4, <3>5
    <3>7. start' \in Int \cup {NoDue}
      BY <3>3, <3>6 DEF RecurrenceTypes
    <3> QED BY <3>3, <3>6, <3>7 DEF RecurrenceTypes
  <2>2. CASE NextDay
    BY <2>2 DEF NextDay, RecurrenceTypes
  <2>3. CASE UNCHANGED recurrenceVars
    BY <2>3 DEF RecurrenceTypes, recurrenceVars
  <2> QED BY <2>1, <2>2, <2>3 DEF RecurrenceNext
<1> QED BY <1>1, <1>2, PTL DEF RecurrenceSpec

\* FirstNamedDay: the next occurrence is due on the first day its rule names from today on,
\* for any rule of recurrence.ts, any leap years, and a completion up to a thousand days late.
THEOREM FirstNamedDayHolds == RecurrenceSpec => FirstNamedDay
<1> DEFINE First == SpawnNextOccurrence /\ ~Drifts =>
                      /\ due' > Source /\ due' >= day /\ Named(due')
                      /\ \A d \in (Source + 1)..(due' - 1) : d >= day => ~Named(d)
<1>1. RecurrenceTypes /\ [RecurrenceNext]_recurrenceVars => [First]_recurrenceVars
  <2> SUFFICES ASSUME RecurrenceTypes, RecurrenceNext, SpawnNextOccurrence, ~Drifts
               PROVE  /\ due' > Source /\ due' >= day /\ Named(due')
                      /\ \A d \in (Source + 1)..(due' - 1) : d >= day => ~Named(d)
    OBVIOUS
  <2>1. Source \in 0..Latest /\ Covered
    BY RuleFacts DEF RecurrenceNext
  <2>2. CaughtUpFirst(Source, CatchUp[Source])
    BY <2>1, CatchUpFacts DEF OnChain
  <2>3. PICK c : c = CatchUp[Source] /\ c = due'
    BY DEF SpawnNextOccurrence
  <2>4. CaughtUpFirst(Source, c)
    BY <2>2, <2>3
  <2> QED BY <2>3, <2>4 DEF CaughtUpFirst, CaughtUp
<1> QED BY <1>1, RecurrenceInvariant, PTL DEF RecurrenceSpec, FirstNamedDay
====
