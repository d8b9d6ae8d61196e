----------------------------- MODULE MCReminders -----------------------------
(***************************************************************************)
(* Instance of Reminders for TLC: two processes and one task.              *)
(***************************************************************************)
EXTENDS Reminders, TLC

CONSTANT p1     \* the assignee a task starts with, if it has one

\* Bounds: one kind of reminder in a behaviour, the other one has no rule or nobody
\* to remind; and one thing that happens more: people change everything, or two
\* faults happen, or a day passes.
VARIABLES only, more

bounds == <<only, more>>

OnlyKind ==
    IF only = Builtin THEN \A r \in Kind \ {Builtin} : rule[r] = "off"
                      ELSE \A t \in Task : assignee[t] = None

OneDay == more # "days" => today = 1 /\ \A t \in Task : due[t] <= 1

MCInit ==
    /\ Init /\ only \in Kind /\ OnlyKind
    /\ more \in {"changes", "faults", "days"} /\ OneDay
    /\ \A t \in Task : assignee[t] \in {p1, None}

MCNext ==
    /\ UNCHANGED bounds
    /\ Next /\ OnlyKind' /\ OneDay'
    /\ more # "changes" => UNCHANGED <<open, assignee, rule>>
    /\ more = "faults" \/ only # Builtin => UNCHANGED due
    /\ more = "days" => stalls' = 0
    /\ more # "faults" => faults' <= 1

MCSpec ==
    /\ MCInit /\ [][MCNext]_<<vars, bounds>>
    /\ WF_vars(Tick) /\ \A i \in Instance : WF_vars(Step(i))
=============================================================================
