------------------------------ MODULE ClientStore ------------------------------
(***************************************************************************)
(* The table of tasks that every open window keeps (components/work/store.tsx *)
(* and task-ops.ts): writes shown before they are saved, undone when they     *)
(* fail, and reloads started by the stream of changes or by the focus, whose  *)
(* answers come back in any order.  A row has one field: comparing fields one *)
(* by one is in TaskUpdate.                                                   *)
(***************************************************************************)
EXTENDS Naturals, FiniteSets, Sequences, SequencesExt

CONSTANTS
    Window, Task,
    Value,         \* values of the field
    Absent,        \* no row
    Initial,       \* bound: the tables the database starts with
    Typed,         \* bound: the values the user of a window gives to a row
    MaxOps,        \* bound: operations started by the users
    MaxFaults,     \* bound: answers, reloads and messages lost
    MaxReloads     \* bound: reloads of a window under way

ASSUME StoreAssumption ==
    /\ Absent \notin Value /\ Typed \in [Window -> [Task -> SUBSET Value]]
    /\ Initial \subseteq [Task -> Value \cup {Absent}]
    /\ MaxOps \in Nat /\ MaxFaults \in Nat /\ MaxReloads \in Nat

Row == Value \cup {Absent}
Table == [Task -> Row]

VARIABLES
    server,     \* the rows of the database
    trash,      \* those in the trash
    shown,      \* store.state.tasks of each window
    drafts,     \* rows shown under a temporary id
    pending,    \* edits under way on each row
    queue,      \* operations of each window that wait for their answer
    answer,     \* what the server has answered to the first of them
    late,       \* requests given up by their window that the server may still run
    undoable,   \* removals that can be undone
    reloads,    \* what the reloads under way have read
    dirty,      \* a change was received, the reload is due
    ops, faults

client == <<shown, drafts, pending, queue, undoable>>
db == <<server, trash>>
vars == <<server, trash, shown, drafts, pending, queue, answer, late, undoable, reloads, dirty, ops, faults>>

Kind == {"edit", "bulk", "create", "remove", "restore"}
\* A row that is not shown cannot be edited: no base is ever the absence of a row.
NoBase == Absent
NoAnswer == [outcome |-> "none", rows |-> [t \in Task |-> Absent]]

\* first: nothing else of the window was under way; before: what the window showed.
Op == [kind : Kind, task : Task, value : Row, base : Row, before : Table, first : BOOLEAN]
Answer == [outcome : {"none", "ok", "conflict", "error"}, rows : Table]

Init ==
    /\ server \in Initial
    /\ trash = {}
    /\ shown = [w \in Window |-> server]
    /\ drafts = [w \in Window |-> {}]
    /\ pending = [w \in Window |-> [t \in Task |-> 0]]
    /\ queue = [w \in Window |-> <<>>] /\ answer = [w \in Window |-> NoAnswer]
    /\ late = {}
    /\ undoable = [w \in Window |-> {}] /\ reloads = [w \in Window |-> {}]
    /\ dirty = {}
    /\ ops = 0 /\ faults = 0

Active(t) == server[t] # Absent /\ t \notin trash
Visible == [t \in Task |-> IF Active(t) THEN server[t] ELSE Absent]

(***************************************************************************)
(* Operations of a window, until they are sent                             *)
(***************************************************************************)

\* Seeded fault: the values on screen are not sent along.
BaseOfNothing(row) == NoBase

\* What the user had in front of them.
BaseOf(row) == row

\* What the window shows and has under way as an operation begins.
OpOf(w, kind, t, v, base) ==
    [kind |-> kind, task |-> t, value |-> v, base |-> base, before |-> shown[w], first |-> queue[w] = <<>>]

Begin(w, kind, t, v, base) ==
    /\ ops < MaxOps /\ ops' = ops + 1
    /\ queue' = [queue EXCEPT ![w] = Append(@, OpOf(w, kind, t, v, base))]
    /\ UNCHANGED <<db, answer, late, reloads, dirty, faults>>

\* mutateTask
Edit(w, t, v) ==
    /\ shown[w][t] \notin {Absent, v}
    /\ Begin(w, "edit", t, v, BaseOf(shown[w][t]))
    /\ pending' = [pending EXCEPT ![w][t] = @ + 1]
    /\ shown' = [shown EXCEPT ![w][t] = v]
    /\ UNCHANGED <<drafts, undoable>>

\* bulkUpdate on the whole view: nothing pending, no base.
BulkUpdate(w, v) ==
    /\ \E t \in Task : shown[w][t] \notin {Absent, v}
    /\ \E t \in Task : Begin(w, "bulk", t, v, NoBase)
    /\ shown' = [shown EXCEPT ![w] = [t \in Task |-> IF @[t] = Absent THEN Absent ELSE v]]
    /\ UNCHANGED <<drafts, pending, undoable>>

Create(w, t, v) ==
    /\ server[t] = Absent /\ \A x \in Window : \A i \in DOMAIN queue[x] : queue[x][i].task # t \/ queue[x][i].kind # "create"
    /\ \A op \in late : op.task # t \/ op.kind # "create"
    /\ Begin(w, "create", t, v, NoBase)
    /\ drafts' = [drafts EXCEPT ![w] = @ \cup {t}]
    /\ UNCHANGED <<shown, pending, undoable>>

DeleteTask(w, t) ==
    /\ shown[w][t] # Absent
    /\ Begin(w, "remove", t, Absent, NoBase)
    /\ shown' = [shown EXCEPT ![w][t] = Absent]
    /\ UNCHANGED <<drafts, pending, undoable>>

\* "Annuler" in the message of a removal.
UndoRemove(w, t) ==
    /\ t \in undoable[w]
    /\ Begin(w, "restore", t, Absent, NoBase)
    /\ undoable' = [undoable EXCEPT ![w] = @ \ {t}]
    /\ UNCHANGED <<shown, drafts, pending>>

(***************************************************************************)
(* The server                                                              *)
(***************************************************************************)

Targets(op) == IF op.kind = "bulk" THEN {t \in Task : op.before[t] # Absent} ELSE {op.task}

Conflicts(op) == op.kind = "edit" /\ op.base # NoBase /\ server[op.task] \notin {op.base, op.value}

Allowed(op) ==
    CASE op.kind = "create"  -> server[op.task] = Absent
      [] op.kind = "restore" -> op.task \in trash
      [] op.kind = "bulk" -> TRUE
      [] OTHER -> Active(op.task)

\* The change is published; it reaches some of the windows, all of them without a fault.
Publish(reached) ==
    /\ faults' = IF reached = Window THEN faults ELSE faults + 1
    /\ faults' <= MaxFaults
    /\ dirty' = dirty \cup reached

Apply(op) ==
    /\ \E reached \in {Window} \cup {Window \ {w} : w \in Window} : Publish(reached)
    /\ server' = IF op.kind \in {"edit", "bulk", "create"}
                 THEN [t \in Task |-> IF t \in Targets(op) /\ t \notin trash THEN op.value ELSE server[t]]
                 ELSE server
    /\ trash' = CASE op.kind = "remove" -> trash \cup {op.task}
                  [] op.kind = "restore" -> trash \ {op.task}
                  [] OTHER -> trash

Refused == UNCHANGED <<db, dirty, faults>>

\* The requests of a window are served one at a time, in order.
Serve(w) ==
    /\ queue[w] # <<>> /\ answer[w] = NoAnswer
    /\ LET op == Head(queue[w])
           says(outcome) == answer' = [answer EXCEPT ![w] = [outcome |-> outcome, rows |-> Visible']]
       IN  \/ Allowed(op) /\ ~Conflicts(op) /\ Apply(op) /\ says("ok")
           \/ Allowed(op) /\ Conflicts(op) /\ Refused /\ says("conflict")
           \/ ~Allowed(op) /\ Refused /\ says("error")
    /\ UNCHANGED <<client, late, reloads, ops>>

\* The window has given the request up; its answer reaches nobody.
ServeLate(op) ==
    /\ op \in late
    /\ late' = late \ {op}
    /\ IF Allowed(op) /\ ~Conflicts(op) THEN Apply(op) ELSE Refused
    /\ UNCHANGED <<client, answer, reloads, ops>>

(***************************************************************************)
(* The answer comes back                                                   *)
(***************************************************************************)

\* upsertTasks, without skipPending
Upsert(w, rows, which) ==
    shown' = [shown EXCEPT ![w] = [t \in Task |-> IF t \in which /\ rows[t] # Absent THEN rows[t] ELSE @[t]]]

\* What an operation shows when it succeeds: the rows of the answer (those a bulk edit
\* could not change as they were), and nothing more for a removal, which is already shown.
Succeeds(w, op, rows) ==
    /\ CASE op.kind = "remove" -> UNCHANGED shown
         [] op.kind = "bulk" ->
              Upsert(w, [t \in Task |-> IF rows[t] = Absent THEN op.before[t] ELSE rows[t]], Targets(op))
         [] OTHER -> Upsert(w, rows, Targets(op))
    /\ undoable' = IF op.kind = "remove" THEN [undoable EXCEPT ![w] = @ \cup {op.task}] ELSE undoable

\* What was shown is shown again: the row of an edit, the whole table of a removal.
Fails(w, op) ==
    /\ CASE op.kind \in {"edit", "bulk"} -> Upsert(w, op.before, Targets(op))
         [] op.kind = "remove" -> shown' = [shown EXCEPT ![w] = op.before]
         [] OTHER -> UNCHANGED shown
    /\ UNCHANGED undoable

EndPendingOnSuccess(w, op, outcome) ==
    pending' = IF op.kind = "edit" /\ outcome = "ok" THEN [pending EXCEPT ![w][op.task] = @ - 1] ELSE pending

\* "finally": whatever the outcome.
EndPending(w, op, outcome) ==
    pending' = IF op.kind = "edit" THEN [pending EXCEPT ![w][op.task] = @ - 1] ELSE pending

Settle(w, outcome) ==
    LET op == Head(queue[w])
    IN  /\ queue' = [queue EXCEPT ![w] = Tail(@)]
        /\ answer' = [answer EXCEPT ![w] = NoAnswer]
        /\ EndPending(w, op, outcome)
        /\ drafts' = IF op.kind = "create" THEN [drafts EXCEPT ![w] = @ \ {op.task}] ELSE drafts
        /\ CASE outcome = "ok" -> Succeeds(w, op, answer[w].rows)
             [] outcome = "conflict" -> Upsert(w, answer[w].rows, {op.task}) /\ UNCHANGED undoable
             [] OTHER -> Fails(w, op)

Receive(w) ==
    /\ answer[w] # NoAnswer
    /\ Settle(w, answer[w].outcome)
    /\ UNCHANGED <<db, late, reloads, dirty, ops, faults>>

\* No answer: the request was refused on its way, was served, or is yet to be served.
Lost(w) ==
    /\ queue[w] # <<>> /\ faults < MaxFaults /\ faults' = faults + 1
    /\ Settle(w, "error")
    /\ late' \in IF answer[w] = NoAnswer THEN {late, late \cup {Head(queue[w])}} ELSE {late}
    /\ UNCHANGED <<db, reloads, dirty, ops>>

(***************************************************************************)
(* Reloads                                                                 *)
(***************************************************************************)

Reload(w) ==
    /\ Cardinality(reloads[w]) < MaxReloads
    /\ reloads' = [reloads EXCEPT ![w] = @ \cup {Visible}]
    /\ UNCHANGED <<db, client, answer, late, ops, faults>>

\* The queue of received changes is flushed.
Flush(w) == w \in dirty /\ dirty' = dirty \ {w} /\ Reload(w)

\* The window comes back to the front.
OnVisible(w) == Reload(w) /\ UNCHANGED dirty

ReplaceScopeAll(w, rows) == shown' = [shown EXCEPT ![w] = rows]

\* replaceScope: rows with an edit under way are left alone, in and out.
ReplaceScope(w, rows) ==
    shown' = [shown EXCEPT ![w] = [t \in Task |-> IF pending[w][t] > 0 THEN @[t] ELSE rows[t]]]

\* A draft belongs to the view and is in no answer.
Arrive(w) ==
    \E rows \in reloads[w] :
        /\ reloads' = [reloads EXCEPT ![w] = @ \ {rows}]
        /\ ReplaceScope(w, rows)
        /\ drafts' = [drafts EXCEPT ![w] = {}]
        /\ UNCHANGED <<db, pending, queue, undoable, answer, late, dirty, ops, faults>>

ReloadFails(w) ==
    /\ faults < MaxFaults /\ faults' = faults + 1
    /\ \E rows \in reloads[w] : reloads' = [reloads EXCEPT ![w] = @ \ {rows}]
    /\ UNCHANGED <<db, client, answer, late, dirty, ops>>

User(w) ==
    \/ \E t \in Task : \E v \in Typed[w][t] : Edit(w, t, v) \/ Create(w, t, v) \/ BulkUpdate(w, v)
    \/ \E t \in Task : DeleteTask(w, t) \/ UndoRemove(w, t)

Next ==
    \/ \E w \in Window : \/ User(w) \/ Serve(w) \/ Receive(w) \/ Lost(w)
                         \/ Flush(w) \/ OnVisible(w) \/ Arrive(w) \/ ReloadFails(w)
    \/ \E op \in late : ServeLate(op)

\* Requests and reloads under way end; every window comes back to the front again and again.
Fairness ==
    /\ \A w \in Window : WF_vars(Serve(w)) /\ WF_vars(Receive(w)) /\ WF_vars(Arrive(w)) /\ WF_vars(OnVisible(w))
    /\ WF_vars(\E op \in late : ServeLate(op))

Spec == Init /\ [][Next]_vars /\ Fairness

(***************************************************************************)
(* Properties                                                              *)
(***************************************************************************)

TypeOK ==
    /\ server \in Table /\ trash \subseteq Task
    /\ shown \in [Window -> Table] /\ drafts \in [Window -> SUBSET Task]
    /\ pending \in [Window -> [Task -> Nat]]
    /\ queue \in [Window -> Seq(Op)] /\ answer \in [Window -> Answer]
    /\ late \subseteq Op /\ dirty \subseteq Window
    /\ undoable \in [Window -> SUBSET Task] /\ reloads \in [Window -> SUBSET Table]
    /\ ops \in Nat /\ faults \in Nat

EditsOf(q, t) == {i \in DOMAIN q : q[i].kind = "edit" /\ q[i].task = t}

\* The number of edits under way is what the reloads are told, whatever failed or was lost.
PendingCounts ==
    \A w \in Window, t \in Task :
        pending[w][t] = Cardinality(EditsOf(queue[w], t))

\* The value typed stays on screen until its own answer: no reload, however old its answer,
\* and no other request of the window takes it away ("en epargnant les taches en cours
\* d'edition locale").  Only for an edit begun while nothing else was under way: the
\* failure of an earlier edit restores the row as it was before both.
EditStaysShown ==
    \A w \in Window :
        LET op == Head(queue[w])
        IN  queue[w] # <<>> /\ op.kind = "edit" /\ op.first
                /\ (\A i \in 2..Len(queue[w]) : op.task \notin Targets(queue[w][i]))
            => shown[w][op.task] = op.value

StoreInv == TypeOK /\ PendingCounts /\ EditStaysShown

\* The values a step replaces were on the screen of somebody who asked for the change.
Seen ==
    \A t \in Task : server[t] # server'[t] /\ server[t] # Absent =>
        \E op \in late \cup UNION {ToSet(queue[w]) : w \in Window} :
            /\ t \in Targets(op) /\ op.value = server'[t]
            /\ op.kind = "bulk" \/ op.before[t] = server[t]

\* From the screen of one user to the row another one changed: an edit replaces a value
\* only if its user had that value on screen, requests run late included ("jamais
\* d'ecrasement silencieux").  Bulk edits send no base.
NoSilentOverwrite == [][Seen]_vars

Converged == \A w \in Window : shown[w] = Visible /\ drafts[w] = {}

\* Whatever was lost, refused, delayed or reordered, every window shows the database in
\* the end and keeps showing it.
Converges == <>[]Converged
=============================================================================
