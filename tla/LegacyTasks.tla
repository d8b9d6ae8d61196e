------------------------------ MODULE LegacyTasks ------------------------------
(***************************************************************************)
(* Who a task is assigned to and who created it, from V0.x to the last of  *)
(* the corrective migrations of prisma/migrations.  The first one          *)
(* inferred both; the next ones withdraw, put back and withdraw again what *)
(* was inferred, while people use V1.0 between two deployments.            *)
(*                                                                         *)
(* A migration is one block and decides row by row: one task is enough.    *)
(* The users of the workspace do not change; a database that applied the   *)
(* revised text of the first migration (state C of docs/tasks.md) inferred *)
(* nothing and is left out.                                                *)
(***************************************************************************)
EXTENDS Naturals, FiniteSets, Sequences

CONSTANTS
    Staff,      \* users of the workspace
    Stranger,   \* somebody an audit line names and who is not one of them
    Nobody,     \* no assignee, no creator, no author; no detail in a note
    Unknown     \* history: nobody has decided

ASSUME LegacyAssumption == {Nobody, Stranger} \cap Staff = {} /\ Unknown \notin Staff \cup {Nobody}

VARIABLES
    applied,    \* the last migration applied
    old,        \* the task was created before V1.0, or before the date recorded for it
    dated,      \* _prisma_migrations says when V1.0 was applied
    author,     \* of the audit line of its creation
    task,       \* the task, its history and its notes
    \* History: the last decision on each field; whether the reconciliation took the
    \* task for one of before V1.0.
    meant, judged

legacyVars == <<applied, old, dated, author, task, meant, judged>>

Field == {"assignee", "creator"}
Migration == <<"none", "work", "hardening", "reconcile", "restore", "explicit">>
Since(step) == \E i, j \in DOMAIN Migration : i <= j /\ Migration[i] = step /\ Migration[j] = applied

-----------------------------------------------------------------------------
(* The task: its fields, whether it has history (any line, the line of a   *)
(* V1.0 creation, a line on the field), comments, and its notes.  The      *)
(* instants of a note and of the lines on its field are compared: a note   *)
(* says whether there was one before it, and one since.                    *)

NewRow(assignee, creator, born) ==
    [assignee |-> assignee, creator |-> creator, lines |-> born, born |-> born, comment |-> FALSE,
     changed |-> [f \in Field |-> FALSE], notes |-> [f \in Field |-> {}]]

Noted(r, f, reasons) == {n \in r.notes[f] : n.reason \in reasons}

\* ON CONFLICT DO NOTHING: a note of this reason stays as it was.
Note(r, f, reason, detail) ==
    IF Noted(r, f, {reason}) # {} THEN r
    ELSE [r EXCEPT !.notes[f] = @ \cup {[reason |-> reason, detail |-> detail,
                                         earlier |-> r.changed[f], later |-> FALSE]}]

Unnote(r, f, reasons) == [r EXCEPT !.notes[f] = @ \ Noted(r, f, reasons)]

\* The author of the audit line counts only in the workspace.
AuditCreator == IF author \in Staff THEN author ELSE Nobody

-----------------------------------------------------------------------------
(* The migrations.                                                         *)

\* 20261013120000: both from the audit line, or from the only user there is.
WorkManagement(r) ==
    LET s == IF AuditCreator = Nobody THEN r ELSE [r EXCEPT !.assignee = AuditCreator, !.creator = AuditCreator]
    IN  IF Cardinality(Staff) = 1 /\ s.assignee = Nobody
        THEN LET only == CHOOSE u \in Staff : TRUE
             IN  [s EXCEPT !.assignee = only, !.creator = IF @ = Nobody THEN only ELSE @]
        ELSE s

NoteUnknown(r, f) == IF r[f] = Nobody THEN Note(r, f, "UNKNOWN", Nobody) ELSE r

\* 20261014090000: only tasks without history.
Hardening(r) ==
    IF r.lines THEN r
    ELSE NoteUnknown(NoteUnknown([r EXCEPT !.creator = IF @ = Nobody THEN AuditCreator ELSE @], "assignee"), "creator")

Legacy(r) == IF dated THEN old /\ ~r.born ELSE ~r.lines

\* What only the first migration can have written.
Inferred(r, f) ==
    /\ r[f] # Nobody
    /\ IF f = "assignee" THEN ~r.changed[f] ELSE r[f] # AuditCreator

\* Withdrawn if nobody used the task since, noted in any case.
Withdraw(r, f) ==
    IF ~Inferred(r, f) THEN r
    ELSE IF r.lines \/ r.comment THEN Note(r, f, "KEPT", r[f])
    ELSE [Note(r, f, "REVERTED", r[f]) EXCEPT ![f] = Nobody]

\* 20261014091000
Reconcile(r) ==
    IF Legacy(r)
    THEN LET s == Withdraw(Withdraw(r, "assignee"), "creator")
             t == [s EXCEPT !.creator = IF @ = Nobody THEN AuditCreator ELSE @]
         IN  NoteUnknown(IF t.changed["assignee"] THEN t ELSE NoteUnknown(t, "assignee"), "creator")
    ELSE IF dated THEN Unnote(Unnote(r, "assignee", {"UNKNOWN"}), "creator", {"UNKNOWN"})
    ELSE r

\* Seeded fault: a value is put back over what somebody chose meanwhile.
PutBackOver(r, f) ==
    LET reverted == Noted(r, f, {"REVERTED"}) IN
    IF reverted = {} \/ (dated /\ old) THEN r
    ELSE LET value == (CHOOSE n \in reverted : TRUE).detail IN
         Unnote(Note([r EXCEPT ![f] = value], f, "ORIGIN_UNKNOWN", value), f, {"REVERTED", "UNKNOWN"})

\* 20261015090000, one field: puts a value back where its origin is not established
\* and the field is still empty, and notes it whenever the field holds it.
PutBack(r, f) ==
    LET reverted == Noted(r, f, {"REVERTED"}) IN
    IF reverted = {} \/ (dated /\ old) THEN r
    ELSE LET value == (CHOOSE n \in reverted : TRUE).detail
             s == IF r[f] = Nobody /\ value \in Staff THEN [r EXCEPT ![f] = value] ELSE r
         IN  IF s[f] = value
             THEN Unnote(Note(s, f, "ORIGIN_UNKNOWN", value), f, {"REVERTED", "UNKNOWN"})
             ELSE s

Restore(r) == PutBack(PutBack(r, "assignee"), "creator")

\* 20261016090000, one field: a restored value that a decision contradicts is withdrawn.
TakeBack(r, f) ==
    LET undone == {n \in Noted(r, f, {"ORIGIN_UNKNOWN"}) : n.detail = r[f] /\ n.earlier /\ ~n.later} IN
    IF undone = {} THEN r
    ELSE Unnote([Note(r, f, "UNDONE", r[f]) EXCEPT ![f] = Nobody], f, {"ORIGIN_UNKNOWN"})

ExplicitChanges(r) == TakeBack(TakeBack(r, "assignee"), "creator")

Apply(m, r) ==
    CASE m = "work"      -> WorkManagement(r)
      [] m = "hardening" -> Hardening(r)
      [] m = "reconcile" -> Reconcile(r)
      [] m = "restore"   -> Restore(r)
      [] OTHER           -> ExplicitChanges(r)

-----------------------------------------------------------------------------
NoTask == NewRow(Nobody, Nobody, FALSE)

\* A task of V0.x has no assignee and no creator.
LegacyInit ==
    /\ applied = "none"
    /\ old \in BOOLEAN /\ dated \in BOOLEAN
    /\ author \in IF old THEN Staff \cup {Stranger, Nobody} ELSE {Nobody}
    /\ task = NoTask
    /\ judged = FALSE
    /\ meant = [f \in Field |-> IF f = "creator" /\ author \in Staff THEN author ELSE Unknown]

Exists == old \/ task # NoTask

\* prisma migrate deploy, in order.
Migrate ==
    \E i \in 1..(Len(Migration) - 1) :
        /\ Migration[i] = applied
        /\ applied' = Migration[i + 1]
        /\ task' = IF Exists THEN Apply(applied', task) ELSE task
        /\ judged' = (judged \/ (applied' = "reconcile" /\ Exists /\ Legacy(task)))
        /\ UNCHANGED <<old, dated, author, meant>>

\* `migrate resolve --applied`, after a manual application: the date recorded is today's.
RecordHistory ==
    /\ ~dated /\ Since("work")
    /\ dated' = TRUE /\ old' = Exists
    /\ UNCHANGED <<applied, author, task, meant, judged>>

\* V1.0 creates a task, with a line of history; a subtask copied has none.
Create(assignee, creator, copied) ==
    /\ Since("work") /\ ~Exists
    /\ task' = NewRow(assignee, creator, ~copied)
    /\ meant' = [f \in Field |-> IF f = "creator" THEN creator ELSE IF assignee = Nobody THEN Unknown ELSE assignee]
    /\ UNCHANGED <<applied, old, dated, author, judged>>

\* V1.0 changes the assignee, with a line of history.
Assign(p) ==
    /\ Since("work") /\ Exists /\ p # task.assignee
    /\ task' = [task EXCEPT !.assignee = p, !.lines = TRUE, !.changed["assignee"] = TRUE,
                           !.notes["assignee"] = {[n EXCEPT !.later = TRUE] : n \in @}]
    /\ meant' = [meant EXCEPT !["assignee"] = p]
    /\ UNCHANGED <<applied, old, dated, author, judged>>

\* V1.0 changes something else, or somebody comments.
Use(comments) ==
    /\ Since("work") /\ Exists
    /\ task' = IF comments THEN [task EXCEPT !.comment = TRUE] ELSE [task EXCEPT !.lines = TRUE]
    /\ UNCHANGED <<applied, old, dated, author, meant, judged>>

LegacyNext ==
    \/ Migrate \/ RecordHistory
    \/ \E p \in Staff \cup {Nobody}, c \in Staff, copied \in BOOLEAN : Create(p, c, copied)
    \/ \E p \in Staff \cup {Nobody} : Assign(p)
    \/ \E comments \in BOOLEAN : Use(comments)

LegacySpec == LegacyInit /\ [][LegacyNext]_legacyVars

-----------------------------------------------------------------------------
(* Properties.                                                             *)

\* Once all is applied, a decision of a person or a fact of the audit stands, or a note
\* keeps the value it was withdrawn from.
DecisionsStand ==
    Since("explicit") => \A f \in Field :
        meant[f] # Unknown /\ task[f] # meant[f] =>
            task[f] = Nobody /\ \E n \in Noted(task, f, {"UNDONE", "REVERTED"}) : n.detail = meant[f]

\* From the reconciliation on, a value that nobody decided is gone or noted for a check,
\* but on a task that has history where V1.0 could not be dated.
InferredIsNoted ==
    judged \/ (dated /\ Since("reconcile") /\ ~task.lines) => \A f \in Field :
        meant[f] = Unknown /\ task[f] # Nobody =>
            \E n \in Noted(task, f, {"KEPT", "ORIGIN_UNKNOWN"}) : n.detail = task[f]

\* Each corrective migration says it is idempotent: applied twice, it does what it
\* does once.
Idempotent ==
    Exists /\ Since("work") => \A m \in {"reconcile", "restore", "explicit"} :
        Apply(m, Apply(m, task)) = Apply(m, task)

LegacyInv == DecisionsStand /\ InferredIsNoted /\ Idempotent
=============================================================================
