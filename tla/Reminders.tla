------------------------------ MODULE Reminders ------------------------------
(***************************************************************************)
(* Scheduled due-date reminders (src/lib/tasks/task-reminders.ts), with    *)
(* the job lease they run under (jobs.ts) and the runs of the automation   *)
(* rules they start (automations.ts).                                      *)
(*                                                                         *)
(* Every server process has its own timer and the database is all they     *)
(* share.  A process may crash anywhere, be suspended for longer than its  *)
(* lease, or see a query fail; one action is one query or one transaction. *)
(* Time is relative: the lease keeps the ticks it has left and a rule run  *)
(* its age, since nothing else is compared.                                *)
(***************************************************************************)
EXTENDS Integers

CONSTANTS
    Instance,       \* server processes
    Person,         \* people a task may be assigned to
    Task,
    Kind,           \* kinds of reminders: Builtin and the rules
    Builtin,
    Ahead,          \* days before the due date a rule asks for
    LastDay,        \* bound: the days of the model are 1..LastDay
    TTL,            \* ticks of a lease
    MaxAttempts,    \* MAX_ATTEMPTS
    MaxFaults,      \* bound: crashes, suspensions and failed queries
    None

ASSUME RemindersAssumption ==
    /\ Ahead \in Nat /\ LastDay \in Nat \ {0} /\ TTL \in Nat /\ MaxFaults \in Nat
    /\ MaxAttempts \in Nat \ {0}
    /\ None \notin Instance \cup Person

VARIABLES
    \* what people change
    due,        \* due day of a task, 0 for none
    open,       \* neither completed nor in the trash
    assignee,   \* of a task, or None
    rule,       \* "on"; "off": deleted, disabled or of a project of the trash;
                \* "powerless": its author may not act on the task any more
    today,      \* the calendar day in the zone of the application
    \* the database
    lease,      \* row of job_leases: its holder and the ticks it has left
    row,        \* task_reminders, by reminder_key
    notified,   \* notifications of a dedupe_key, by recipient; at None, a history:
                \* whether a delivery found that the assignee takes none
    run,        \* automation_runs, by event_key
    acted,      \* times the actions of the rule were carried out for a key
    \* the processes
    pc,
    day,        \* the day the run computed when it started
    queue,      \* rows it read and has still to deliver, as it read them
    cur,        \* the one it is delivering, and the assignee it read
    result,     \* what it will write: status of the row or of the rule run
    faults,     \* crashes, suspensions and failed queries so far
    stalls      \* suspensions among them

people == <<due, open, assignee, rule>>
db     == <<lease, row, notified, run, acted>>
local  == <<pc, day, queue, cur, result>>
vars   == <<people, today, db, local, faults, stalls>>

Day == 1..LastDay
Key == [task : Task, kind : Kind, due : Day]

\* None: an assignee without access, inactive or who turned the notification off.
Recipient == Person \cup {None}

Absent == [status |-> "absent", attempts |-> 0]

Init ==
    /\ due      \in [Task -> {0} \cup Day]
    /\ open     = [t \in Task |-> TRUE]
    /\ assignee \in [Task -> Person \cup {None}]
    /\ rule     \in [Kind \ {Builtin} -> {"on", "off"}]
    /\ today    = 1
    /\ lease    = [by |-> None, left |-> -1]
    /\ row      = [k \in Key |-> Absent]
    /\ notified = [k \in Key |-> [p \in Recipient |-> 0]]
    /\ run      = [k \in Key |-> [status |-> "absent", age |-> 0]]
    /\ acted    = [k \in Key |-> 0]
    /\ pc       = [i \in Instance |-> "idle"]
    /\ day      = [i \in Instance |-> 1]
    /\ queue    = [i \in Instance |-> {}]
    /\ cur      = [i \in Instance |-> None]
    /\ result   = [i \in Instance |-> None]
    /\ faults   = 0
    /\ stalls   = 0

Goto(i, label) == pc' = [pc EXCEPT ![i] = label]

\* The key being delivered.
CurKey(i) == cur[i].key

-----------------------------------------------------------------------------
(* People and time.                                                        *)

ChangeDue(t, d) ==
    /\ due[t] # d
    /\ due' = [due EXCEPT ![t] = d]
    /\ UNCHANGED <<open, assignee, rule, today, db, local, faults, stalls>>

CompleteOrReopen(t) ==
    /\ open' = [open EXCEPT ![t] = ~@]
    /\ UNCHANGED <<due, assignee, rule, today, db, local, faults, stalls>>

Assign(t, p) ==
    /\ assignee[t] # p
    /\ assignee' = [assignee EXCEPT ![t] = p]
    /\ UNCHANGED <<due, open, rule, today, db, local, faults, stalls>>

ChangeRule(r, s) ==
    /\ rule[r] # s
    /\ rule' = [rule EXCEPT ![r] = s]
    /\ UNCHANGED <<due, open, assignee, today, db, local, faults, stalls>>

NextDay ==
    /\ today < LastDay
    /\ today' = today + 1
    /\ UNCHANGED <<people, db, local, faults, stalls>>

\* A tick of the clock.  When the lease of a working process expires, the
\* process was suspended.
Tick ==
    LET stall == lease.left = 0 /\ lease.by # None /\ pc[lease.by] # "idle" IN
    /\ stall => faults < MaxFaults
    /\ lease'  = IF lease.left < 0 THEN lease ELSE [lease EXCEPT !.left = @ - 1]
    /\ run'    = [k \in Key |-> IF run[k].status = "RUNNING" /\ run[k].age <= TTL
                                THEN [run[k] EXCEPT !.age = @ + 1] ELSE run[k]]
    /\ faults' = IF stall THEN faults + 1 ELSE faults
    /\ stalls' = IF stall THEN stalls + 1 ELSE stalls
    /\ UNCHANGED <<people, today, row, notified, acted, local>>

-----------------------------------------------------------------------------
(* The lease.                                                              *)

\* Seeded fault: an abandoned lease does not expire.
AcquireFree(i) ==
    /\ pc[i] = "idle"
    /\ lease.by = None
    /\ lease' = [by |-> i, left |-> TTL]
    /\ day'   = [day EXCEPT ![i] = today]
    /\ Goto(i, "plan")
    /\ UNCHANGED <<people, today, row, notified, run, acted, queue, cur, result, faults, stalls>>

\* Start of a run: the lease is free or has expired.  Otherwise the timer does
\* nothing until its next period.
Acquire(i) ==
    /\ pc[i] = "idle"
    /\ lease.by = None \/ lease.left < 0
    /\ lease' = [by |-> i, left |-> TTL]
    /\ day'   = [day EXCEPT ![i] = today]
    /\ Goto(i, "plan")
    /\ UNCHANGED <<people, today, row, notified, run, acted, queue, cur, result, faults, stalls>>

Free == [by |-> None, left |-> -1]

\* Only by the process that holds it.
Release(i) == IF lease.by = i THEN Free ELSE lease

-----------------------------------------------------------------------------
(* A run: plan, read what is pending, deliver row by row.                  *)

\* Seeded fault: a day-before reminder that was missed is not caught up.
DueKeysTomorrow(d) ==
    {k \in Key :
        /\ due[k.task] = k.due /\ open[k.task]
        /\ k.due = d + 1
        /\ k.kind = Builtin => assignee[k.task] # None}

\* Reminders due on day d: today or tomorrow for the assignee, up to Ahead days
\* before for a rule.
DueKeys(d) ==
    {k \in Key :
        /\ due[k.task] = k.due /\ open[k.task]
        /\ k.due >= d
        /\ IF k.kind = Builtin THEN k.due <= d + 1 /\ assignee[k.task] # None
                               ELSE k.due <= d + Ahead /\ rule[k.kind] # "off"}

\* planReminders: one row per key, ever.
Plan(i) ==
    /\ pc[i] = "plan"
    /\ row' = [k \in Key |-> IF k \in DueKeys(day[i]) /\ row[k] = Absent
                             THEN [status |-> "PENDING", attempts |-> 0] ELSE row[k]]
    /\ Goto(i, "fetch")
    /\ UNCHANGED <<people, today, lease, notified, run, acted, day, queue, cur, result,
                   faults, stalls>>

Fetch(i) ==
    /\ pc[i] = "fetch"
    /\ queue' = [queue EXCEPT ![i] =
                    {[key |-> k, attempts |-> row[k].attempts] :
                        k \in {x \in Key : row[x].status = "PENDING"
                                           /\ row[x].attempts < MaxAttempts}}]
    /\ Goto(i, "next")
    /\ UNCHANGED <<people, today, db, day, cur, result, faults, stalls>>

\* The lease is extended before every delivery.
NextRow(i) ==
    /\ pc[i] = "next" /\ lease.by = i /\ lease.left >= 0
    /\ \E q \in queue[i] :
          /\ cur'   = [cur EXCEPT ![i] = [key |-> q.key, attempts |-> q.attempts, to |-> None]]
          /\ queue' = [queue EXCEPT ![i] = @ \ {q}]
    /\ lease' = [lease EXCEPT !.left = TTL]
    /\ Goto(i, "check")
    /\ UNCHANGED <<people, today, row, notified, run, acted, day, result, faults, stalls>>

\* The process forgets everything.
Forget(i) ==
    /\ Goto(i, "idle")
    /\ queue'  = [queue EXCEPT ![i] = {}]
    /\ cur'    = [cur EXCEPT ![i] = None]
    /\ result' = [result EXCEPT ![i] = None]
    /\ UNCHANGED day

\* The lease is lost: the run stops and releases nothing.
LostLease(i) ==
    /\ pc[i] = "next" /\ queue[i] # {}
    /\ ~(lease.by = i /\ lease.left >= 0)
    /\ Forget(i)
    /\ UNCHANGED <<people, today, db, faults, stalls>>

EndRun(i) ==
    /\ pc[i] = "next" /\ queue[i] = {}
    /\ lease' = Release(i)
    /\ Forget(i)
    /\ UNCHANGED <<people, today, row, notified, run, acted, faults, stalls>>

-----------------------------------------------------------------------------
(* Delivery of one row.                                                    *)

Outcome(i, status) ==
    /\ result' = [result EXCEPT ![i] = status]
    /\ Goto(i, "settle")

\* The row is checked again against the task before it is sent.
StillDue(i) ==
    LET k == CurKey(i) IN
    /\ k.due >= day[i]
    /\ open[k.task] /\ due[k.task] = k.due
    /\ k.kind = Builtin => assignee[k.task] # None

\* Seeded fault: the row is validated before its delivery.
CheckAndSettle(i) ==
    /\ pc[i] = "check" /\ StillDue(i)
    /\ row' = [row EXCEPT ![CurKey(i)].status = "SENT"]
    /\ cur' = [cur EXCEPT ![i].to = assignee[CurKey(i).task]]
    /\ Goto(i, IF CurKey(i).kind = Builtin THEN "notify" ELSE "find")
    /\ UNCHANGED <<people, today, lease, notified, run, acted, day, queue, result, faults, stalls>>

Check(i) ==
    /\ pc[i] = "check"
    /\ IF StillDue(i)
       THEN /\ Goto(i, IF CurKey(i).kind = Builtin THEN "notify" ELSE "find")
            /\ cur' = [cur EXCEPT ![i].to = assignee[CurKey(i).task]]
            /\ UNCHANGED result
       ELSE Outcome(i, "SKIPPED") /\ UNCHANGED cur
    /\ UNCHANGED <<people, today, db, day, queue, faults, stalls>>

\* Seeded fault: no dedupe_key.
InsertedTwice(k, p) == notified[k][p] + 1

\* createMany with skipDuplicates: (user, dedupe_key) is unique.
Inserted(k, p) == 1

\* The row is sent whether notify inserts something or filters its only recipient out.
Notify(i) ==
    /\ pc[i] = "notify"
    /\ \E p \in {cur[i].to, None} :
          notified' = [notified EXCEPT ![CurKey(i)][p] = Inserted(CurKey(i), p)]
    /\ Outcome(i, "SENT")
    /\ UNCHANGED <<people, today, lease, row, run, acted, day, queue, cur, faults, stalls>>

\* What the rule run of the key tells, if there is one.  A RUNNING one is taken
\* for interrupted when it is older than a lease.
FindRun(i) ==
    LET r == run[CurKey(i)] IN
    /\ pc[i] = "find"
    /\ \/ r.status = "RUNNING" /\ r.age > TTL /\ Goto(i, "mark") /\ UNCHANGED result
       \/ r.status \in {"SUCCESS", "ERROR"} /\ Outcome(i, "SENT")
       \/ /\ r.status = "absent" \/ (r.status = "RUNNING" /\ r.age <= TTL)
          /\ Goto(i, "run") /\ UNCHANGED result
    /\ UNCHANGED <<people, today, db, day, queue, cur, faults, stalls>>

MarkInterrupted(i) ==
    /\ pc[i] = "mark"
    /\ run' = [run EXCEPT ![CurKey(i)].status = "ERROR"]
    /\ Outcome(i, "SKIPPED")
    /\ UNCHANGED <<people, today, lease, row, notified, acted, day, queue, cur, faults, stalls>>

\* (rule_id, event_key) is unique.
MayReserve(k) == run[k].status = "absent"

\* runScheduledRule up to the reservation of the run.
StartRule(i) ==
    LET k == CurKey(i) IN
    /\ pc[i] = "run"
    /\ \/ /\ rule[k.kind] = "off"
          /\ Outcome(i, "SKIPPED") /\ UNCHANGED run
       \/ /\ rule[k.kind] = "powerless" \/ (rule[k.kind] = "on" /\ ~MayReserve(k))
          /\ Outcome(i, "SENT") /\ UNCHANGED run
       \/ /\ rule[k.kind] = "on" /\ MayReserve(k)
          /\ run' = [run EXCEPT ![k] = [status |-> "RUNNING", age |-> 0]]
          /\ Goto(i, "act") /\ UNCHANGED result
    /\ UNCHANGED <<people, today, lease, row, notified, acted, day, queue, cur, faults, stalls>>

\* The actions of the rule are carried out, or fail on the way, or its
\* conditions do not hold and there is nothing to do.
Act(i) ==
    LET k == CurKey(i) IN
    /\ pc[i] = "act"
    /\ \/ acted' = [acted EXCEPT ![k] = @ + 1]
          /\ \E s \in {"SUCCESS", "ERROR"} : result' = [result EXCEPT ![i] = s]
       \/ UNCHANGED acted /\ result' = [result EXCEPT ![i] = "SUCCESS"]
    /\ Goto(i, "finish")
    /\ UNCHANGED <<people, today, lease, row, notified, run, day, queue, cur, faults, stalls>>

FinishRule(i) ==
    /\ pc[i] = "finish"
    /\ run' = [run EXCEPT ![CurKey(i)].status = result[i]]
    /\ Outcome(i, "SENT")
    /\ UNCHANGED <<people, today, lease, row, notified, acted, day, queue, cur, faults, stalls>>

\* Seeded fault: a row is validated whatever its status.
MayWriteAlways(k) == TRUE

MayWrite(k) == row[k].status = "PENDING"

\* The row is validated, only if it is still pending.
Settle(i) ==
    LET k == CurKey(i) IN
    /\ pc[i] = "settle"
    /\ row' = IF MayWrite(k)
              THEN [row EXCEPT ![k] = [status |-> result[i], attempts |-> @.attempts + 1]]
              ELSE row
    /\ cur' = [cur EXCEPT ![i] = None]
    /\ result' = [result EXCEPT ![i] = None]
    /\ Goto(i, "next")
    /\ UNCHANGED <<people, today, lease, notified, run, acted, day, queue, faults, stalls>>

-----------------------------------------------------------------------------
(* Faults.                                                                 *)

Fault == faults < MaxFaults /\ faults' = faults + 1 /\ UNCHANGED stalls

\* A query of the delivery fails.
QueryFails(i) ==
    /\ pc[i] \in {"check", "notify", "find", "mark", "run", "finish", "settle"}
    /\ Fault
    /\ Goto(i, "failed")
    /\ UNCHANGED <<people, today, db, day, queue, cur, result>>

StatusAfter(attempts) == IF attempts >= MaxAttempts THEN "FAILED" ELSE "PENDING"

\* Counted from the attempts the run had read.
RecordFailure(i) ==
    LET k == CurKey(i)
        n == cur[i].attempts + 1 IN
    /\ pc[i] = "failed"
    /\ row' = IF MayWrite(k) THEN [row EXCEPT ![k] = [status |-> StatusAfter(n), attempts |-> n]]
                             ELSE row
    /\ cur' = [cur EXCEPT ![i] = None]
    /\ result' = [result EXCEPT ![i] = None]
    /\ Goto(i, "next")
    /\ UNCHANGED <<people, today, lease, notified, run, acted, day, queue, faults, stalls>>

\* A query of the run itself fails: it ends, and tries to release its lease.
RunFails(i) ==
    /\ pc[i] \in {"plan", "fetch", "next", "failed"}
    /\ Fault
    /\ lease' \in {lease, Release(i)}
    /\ Forget(i)
    /\ UNCHANGED <<people, today, row, notified, run, acted>>

\* The process is killed; it starts again with nothing.
Crash(i) ==
    /\ pc[i] # "idle"
    /\ Fault
    /\ Forget(i)
    /\ UNCHANGED <<people, today, db>>

-----------------------------------------------------------------------------
People ==
    \/ \E t \in Task : \/ \E d \in {0} \cup Day : ChangeDue(t, d)
                       \/ CompleteOrReopen(t)
                       \/ \E p \in Person \cup {None} : Assign(t, p)
    \/ \E r \in Kind \ {Builtin}, s \in {"on", "off", "powerless"} : ChangeRule(r, s)

\* What a live process does.
Step(i) ==
    \/ Acquire(i) \/ Plan(i) \/ Fetch(i) \/ NextRow(i) \/ LostLease(i) \/ EndRun(i)
    \/ Check(i) \/ Notify(i) \/ FindRun(i) \/ MarkInterrupted(i) \/ StartRule(i)
    \/ Act(i) \/ FinishRule(i) \/ Settle(i) \/ RecordFailure(i)

Next ==
    \/ People \/ NextDay \/ Tick
    \/ \E i \in Instance : Step(i) \/ QueryFails(i) \/ RunFails(i) \/ Crash(i)

Spec == Init /\ [][Next]_vars

\* The timer of every process fires for ever and time passes: setInterval, and
\* the restart policy of the container.
FairSpec == Spec /\ WF_vars(Tick) /\ \A i \in Instance : WF_vars(Step(i))

-----------------------------------------------------------------------------
(* Properties.                                                             *)

Settled == {"SENT", "SKIPPED", "FAILED"}

TypeOK ==
    /\ due \in [Task -> {0} \cup Day]
    /\ open \in [Task -> BOOLEAN] /\ assignee \in [Task -> Person \cup {None}]
    /\ rule \in [Kind \ {Builtin} -> {"on", "off", "powerless"}]
    /\ today \in Day
    /\ lease \in [by : Instance \cup {None}, left : -1..TTL]
    /\ row \in [Key -> [status : {"absent", "PENDING"} \cup Settled, attempts : Nat]]
    /\ notified \in [Key -> [Recipient -> Nat]] /\ acted \in [Key -> Nat]
    /\ run \in [Key -> [status : {"absent", "RUNNING", "SUCCESS", "ERROR"}, age : 0..TTL + 1]]
    /\ day \in [Instance -> Day]
    /\ queue \in [Instance -> SUBSET [key : Key, attempts : Nat]]
    /\ \A i \in Instance :
          cur[i] = None \/ cur[i] \in [key : Key, attempts : Nat, to : Person \cup {None}]

\* A person gets the notification of a key once, and the actions of a rule are carried
\* out once, although rows are delivered again after a crash or an error.
SentOnce == \A k \in Key : acted[k] <= 1 /\ \A p \in Person : notified[k][p] <= 1

\* As long as nothing fails, a key reaches one recipient: it takes an interrupted delivery
\* and a change of assignee for a second person to get the reminder of the first.
OneRecipient ==
    faults = 0 => \A k \in Key : \A p, q \in Recipient :
                     notified[k][p] > 0 /\ notified[k][q] > 0 => p = q

\* "A reminder is never sent twice, whatever the number of runs, instances or
\* retries" (docs/tasks.md).
NeverSentTwice == SentOnce /\ OneRecipient

\* Somebody was notified, or a delivery found that its recipient takes no notification.
Delivered(k) == \E p \in Recipient : notified[k][p] = 1

\* A built-in reminder recorded as sent was sent: no order of crash, retry and
\* takeover validates a row that was not delivered.
SentMeansDelivered ==
    \A k \in Key : k.kind = Builtin /\ row[k].status = "SENT" => Delivered(k)

\* "A lease lets a single run through" (docs/tasks.md): two processes work at
\* the same time only if one of them was suspended for longer than its lease.
OneRunAtATime ==
    stalls = 0 => \A i, j \in Instance : i # j => "idle" \in {pc[i], pc[j]}

\* The rows have their type, and both of the above hold.
DeliveryInv == TypeOK /\ SentMeansDelivered /\ OneRunAtATime

\* A process whose run of a rule is under way.
Executing(k) == \E i \in Instance : pc[i] \in {"act", "finish"} /\ CurKey(i) = k

\* "A rule run interrupted inside its actions [...] is marked ERROR and the
\* reminder SKIPPED" (docs/tasks.md): no reminder is recorded as sent while its
\* run stays RUNNING with nobody running it.
InterruptedIsVisible ==
    \A k \in Key : row[k].status = "SENT" /\ run[k].status = "RUNNING" => Executing(k)

\* A row is settled once: a process that comes back late from a suspension does
\* not rewrite what another one recorded.
SettledForGood ==
    [][\A k \in Key : row[k].status \in Settled => row'[k] = row[k]]_vars

\* What the ledger of reminders promises, in terms of the tables.
Ledger == INSTANCE ReminderLedger WITH
    BuiltinKey <- {k \in Key : k.kind = Builtin},
    entry   <- row,
    Person  <- Recipient,
    told    <- [k \in Key |-> {p \in Recipient : notified[k][p] > 0}],
    carried <- {k \in Key : acted[k] > 0}

\* The queries of all the processes, with their crashes, suspensions and retries,
\* amount to the steps of the ledger: an entry is opened once and closed for good, as
\* sent only if somebody was told or takes no notification, and a rule is carried out once.
KeepsLedger == Ledger!Spec

\* Every reserved reminder is sent, skipped or given up, whatever crashed while
\* delivering it.
PendingIsSettled ==
    \A k \in Key : (row[k].status = "PENDING") ~> (row[k].status \in Settled)

Wanted(k) == open[k.task] /\ assignee[k.task] # None /\ due[k.task] = k.due

\* A task due today or tomorrow that nobody touches gets its reminder, unless its
\* day passes first, every attempt failed or the recipient takes no notification.
UntouchedIsReminded ==
    \A k \in Key : k.kind = Builtin =>
        (Wanted(k) /\ row[k] = Absent /\ today \in {k.due - 1, k.due})
        ~> (Delivered(k) \/ row[k].status = "FAILED" \/ ~Wanted(k) \/ today > k.due)
=============================================================================
