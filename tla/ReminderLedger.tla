---------------------------- MODULE ReminderLedger ----------------------------
(***************************************************************************)
(* What scheduled reminders promise ("A reminder is never sent twice,      *)
(* whatever the number of runs, instances or retries", docs/tasks.md): a   *)
(* ledger in which an entry is opened once, tried while it is pending and  *)
(* closed for good, and closed as sent only when somebody was told, or was *)
(* found to take no notification; and the actions of a rule carried out    *)
(* once per entry.  Reminders, with its processes, lease, crashes and      *)
(* retries, implements it.                                                 *)
(***************************************************************************)
EXTENDS Naturals

CONSTANTS
    Key,            \* reminders: a task, a kind and a due day
    BuiltinKey,     \* those that notify an assignee; the others start a rule
    Person          \* recipients, and whoever stands for one that takes no notification

VARIABLES
    entry,          \* status and attempts of each key
    told,           \* who was notified of a key
    carried         \* keys whose rule was carried out

ledger == <<entry, told, carried>>

Closed == {"SENT", "SKIPPED", "FAILED"}
Entry  == [status : {"absent", "PENDING"} \cup Closed, attempts : Nat]
Blank  == [status |-> "absent", attempts |-> 0]
Opened == [status |-> "PENDING", attempts |-> 0]

Init ==
    /\ entry   = [k \in Key |-> Blank]
    /\ told    = [k \in Key |-> {}]
    /\ carried = {}

\* Some entries are opened.
Open ==
    /\ entry' \in [Key -> Entry]
    /\ \A k \in Key : entry'[k] # entry[k] => entry[k] = Blank /\ entry'[k] = Opened
    /\ UNCHANGED <<told, carried>>

Tell(k, p) ==
    /\ told' = [told EXCEPT ![k] = @ \cup {p}]
    /\ UNCHANGED <<entry, carried>>

CarryOut(k) ==
    /\ k \notin carried
    /\ carried' = carried \cup {k}
    /\ UNCHANGED <<entry, told>>

\* The outcome of a try is recorded: the entry is closed, or stays pending.
Record(k) ==
    /\ entry[k].status = "PENDING"
    /\ entry' \in [Key -> Entry]
    /\ entry'[k].status # "absent"
    /\ entry'[k].status = "SENT" /\ k \in BuiltinKey => told[k] # {}
    /\ \A x \in Key \ {k} : entry'[x] = entry[x]
    /\ UNCHANGED <<told, carried>>

Next ==
    \/ Open
    \/ \E k \in Key : CarryOut(k) \/ Record(k) \/ \E p \in Person : Tell(k, p)

Spec == Init /\ [][Next]_ledger
=============================================================================
