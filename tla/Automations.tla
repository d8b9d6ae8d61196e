----------------------------- MODULE Automations ------------------------------
(***************************************************************************)
(* The rules of the work module (automations.ts, automation-model.ts): a   *)
(* change of status emits events, events run rules, and the actions of a   *)
(* rule are changes that emit events in turn, inside the request that      *)
(* started it all.  A request is a stack of levels, the user's first, then *)
(* a rule at work in each; requests interleave at every query.             *)
(***************************************************************************)
EXTENDS Naturals, FiniteSets, Sequences, SequencesExt

CONSTANTS
    Request,
    Rule, RuleOrder,  \* RuleOrder: the rules, the oldest first
    Task, Parent,     \* Parent: the task the others are subtasks of
    Status, Done,
    Project,
    NoProject,
    MaxDepth,         \* MAX_AUTOMATION_DEPTH
    RuleBooks,        \* bound: the sets of rules considered
    ProjectLists,     \* bound: the projects a task may be in
    MaxChanges        \* bound: changes made by users, of rules, rights and trash, crashes and failures

Trigger == {"STATUS_CHANGED", "TASK_COMPLETED", "SUBTASKS_COMPLETED"}
AnyStatus == "any"

ASSUME AutomationAssumption ==
    /\ RuleOrder \in Seq(Rule) /\ ToSet(RuleOrder) = Rule /\ Len(RuleOrder) = Cardinality(Rule)
    /\ ProjectLists \subseteq Seq(Project)
    /\ RuleBooks \subseteq [Rule -> [trigger : Trigger, to : Status \cup {AnyStatus},
                                    project : Project \cup {NoProject}, actions : Seq(Status)]]
    /\ Parent \in Task /\ Done \in Status /\ NoProject \notin Project
    /\ "none" \notin Rule
    /\ MaxDepth \in Nat /\ MaxChanges \in Nat

VARIABLES
    book,       \* the rules: trigger, project, the status the trigger asks for, the actions
    projects,   \* projects of the parent task; subtasks have none of their own
    status, version, trashed,
    enabled, entitled,   \* rules that are on; rules whose author may still edit
    stack,      \* levels of each request, the last one at work
    runs,       \* automation_runs
    lastId,     \* identifiers given to the changes of each request
    changes, world,
    due         \* history: the last open subtask was closed and nothing said so yet

rows == <<status, version>>
vars == <<book, projects, rows, trashed, enabled, entitled, stack, runs, lastId, changes, world, due>>

Subtasks == Task \ {Parent}

\* A level: who works in it, a user or a run of a rule, and what it is doing.
User == [rule |-> "none"]
Idle == [kind |-> "idle"]

Init ==
    /\ book \in RuleBooks
    /\ projects \in ProjectLists
    /\ status \in [Task -> Status \ {Done}]
    /\ version = [t \in Task |-> 0]
    /\ trashed = {} /\ enabled = Rule /\ entitled = Rule
    /\ stack = [q \in Request |-> <<>>]
    /\ runs = {} /\ lastId = [q \in Request |-> 0] /\ changes = 0 /\ world = 0
    /\ due = FALSE

Top(q)   == Last(stack[q])
Doing(q) == Top(q).doing
At(q, kind) == stack[q] # <<>> /\ Doing(q).kind = kind

\* The top level is now doing this.
Turn(s, doing) == [s EXCEPT ![Len(s)].doing = doing]

\* The top level has nothing left to do about a change: a request of a user ends.
Settle(s) == IF Len(s) = 1 THEN <<>> ELSE Turn(s, Idle)

(***************************************************************************)
(* A change of status: updateTaskFields                                    *)
(***************************************************************************)

Change(t, to) == [kind |-> "change", task |-> t, to |-> to]

UserChange(q, t, to) ==
    /\ stack[q] = <<>> /\ changes + world < MaxChanges
    /\ changes' = changes + 1
    /\ stack' = [stack EXCEPT ![q] = <<[work |-> User, doing |-> Change(t, to)]>>]
    /\ UNCHANGED <<book, projects, rows, trashed, enabled, entitled, runs, lastId, world, due>>

MayEdit(work, t) == t \notin trashed /\ (work.rule = "none" \/ work.rule \in entitled)

\* Seeded fault: a rule whose action failed starts again.
ThrownAgain(s) ==
    IF Len(s) = 1 THEN <<>>
    ELSE [s EXCEPT ![Len(s)] = [work  |-> [@.work EXCEPT !.todo = book[Last(s).work.rule].actions,
                                                         !.outcome = "ERROR"],
                                doing |-> Idle]]

\* What an exception becomes: the rule at work is over, in error; a request of a user ends.
Thrown(s) ==
    IF Len(s) = 1 THEN <<>>
    ELSE [s EXCEPT ![Len(s)] = [work  |-> [@.work EXCEPT !.todo = <<>>, !.outcome = "ERROR"],
                                doing |-> Idle]]

\* The rights and the row; nothing to do if the row already has the value.
Read(q) ==
    /\ At(q, "change")
    /\ LET f == Doing(q)
       IN  stack' = [stack EXCEPT ![q] =
              IF ~MayEdit(Top(q).work, f.task) THEN Thrown(@)
              ELSE IF status[f.task] = f.to THEN Settle(@)
              ELSE Turn(@, [kind |-> "write", task |-> f.task, to |-> f.to,
                            seen |-> version[f.task]])]
    /\ UNCHANGED <<book, projects, rows, trashed, enabled, entitled, runs, lastId, changes, world, due>>

AllDone(st) == \A s \in Subtasks \ trashed : st[s] = Done

\* The compare-and-set on the version of the row read.
Write(q) ==
    /\ At(q, "write")
    /\ LET f == Doing(q)
       IN  IF version[f.task] # f.seen
           THEN /\ stack' = [stack EXCEPT ![q] = Thrown(@)]
                /\ UNCHANGED <<rows, due>>
           ELSE /\ status' = [status EXCEPT ![f.task] = f.to]
                /\ version' = [version EXCEPT ![f.task] = @ + 1]
                /\ stack' = [stack EXCEPT ![q] =
                       Turn(@, [kind |-> "emit", task |-> f.task, to |-> f.to])]
                /\ due' = CASE f.task = Parent -> due /\ f.to # Done
                            [] f.task # Parent /\ f.to # Done -> FALSE
                            [] OTHER -> (AllDone(status') /\ status[Parent] # Done) \/ due
    /\ UNCHANGED <<book, projects, trashed, enabled, entitled, runs, lastId, changes, world>>

(***************************************************************************)
(* Events                                                                  *)
(***************************************************************************)

ProjectsOf(t) == IF t = Parent /\ projects # <<>> THEN projects ELSE <<NoProject>>

\* Seeded fault: what a rule does counts as done by a user.
ChainLost(work) == <<>>

\* makeEvent: the chain of the rules that led to the event.
Chain(work) == IF work.rule = "none" THEN <<>> ELSE Append(work.event.chain, work.rule)
Depth(work) == IF work.rule = "none" THEN 0 ELSE work.event.depth + 1

\* forEachProject: one event per project of the task, with one identifier.
Events(work, type, t, to, id) ==
    [i \in DOMAIN ProjectsOf(t) |->
        [id |-> id, type |-> type, task |-> t, project |-> ProjectsOf(t)[i], to |-> to,
         depth |-> Depth(work), chain |-> Chain(work)]]

\* Seeded fault: what a rule completes announces nothing for the parent.
ClosesAllByHand(f, work) ==
    f.task \in Subtasks /\ f.to = Done /\ AllDone(status) /\ status[Parent] # Done
    /\ work.rule = "none"

\* Open subtasks are counted after the write, whoever else is completing.
ClosesAll(f, work) ==
    f.task \in Subtasks /\ f.to = Done /\ AllDone(status) /\ status[Parent] # Done

\* An identifier of q's that has not been given yet.
Id(q, n) == <<q, lastId[q] + n>>

\* The events of a change.
EventsOf(q, f, work) ==
    Events(work, "STATUS_CHANGED", f.task, f.to, Id(q, 1))
    \o (IF f.to = Done THEN Events(work, "TASK_COMPLETED", f.task, f.to, Id(q, 2)) ELSE <<>>)
    \o (IF ClosesAll(f, work) THEN Events(work, "SUBTASKS_COMPLETED", Parent, Done, Id(q, 3)) ELSE <<>>)

\* processEvents goes through events, then through rules, the oldest first; these are the
\* pairs of places that concern each other, with the rules as they are when it starts.
Pairs(events, on) ==
    {x \in (DOMAIN events) \X (DOMAIN RuleOrder) :
        LET e == events[x[1]]
            r == RuleOrder[x[2]]
        IN  /\ r \in on /\ book[r].trigger = e.type
            /\ book[r].project = NoProject \/ e.project \in {NoProject, book[r].project}}

Before(x, y) == x[1] < y[1] \/ (x[1] = y[1] /\ x[2] < y[2])

\* The level is going through pairs; it is done with the change when none is left.
Process(s, events, todo) ==
    IF todo = {} THEN Settle(s) ELSE Turn(s, [kind |-> "process", events |-> events, todo |-> todo])

Emit(q) ==
    /\ At(q, "emit")
    /\ LET f == Doing(q)
           events == EventsOf(q, f, Top(q).work)
       IN  /\ stack' = [stack EXCEPT ![q] = Process(@, events, Pairs(events, enabled))]
           /\ due' = (due /\ ~ClosesAll(f, Top(q).work))
    /\ lastId' = [lastId EXCEPT ![q] = @ + 3]
    /\ UNCHANGED <<book, projects, rows, trashed, enabled, entitled, runs, changes, world>>

(***************************************************************************)
(* A rule on an event                                                      *)
(***************************************************************************)

TriggerMatches(r, e) == book[r].to \in {AnyStatus, e.to} \/ e.type # "STATUS_CHANGED"

\* A task of the project of the rule, or a subtask of one.
InProject(r, t) == book[r].project = NoProject \/ book[r].project \in ToSet(projects)

\* A rule of the workspace runs once for a change, a rule of a project once in its project.
RunKey(r, e) == IF book[r].project = NoProject THEN <<e.id, NoProject>> ELSE <<e.id, e.project>>

LoopGuard(r, e) == r \in ToSet(e.chain) \/ e.depth >= MaxDepth

\* Rights, scope and key.
RunsOn(r, e) ==
    /\ TriggerMatches(r, e) /\ r \in entitled /\ e.task \notin trashed /\ InProject(r, e.task)
    /\ \A run \in runs : ~(run.rule = r /\ run.key = RunKey(r, e))

Record(r, e, outcome) ==
    runs' = runs \cup {[rule |-> r, key |-> RunKey(r, e), id |-> e.id, status |-> outcome]}

Starting(r, e) ==
    [work |-> [rule |-> r, event |-> e, key |-> RunKey(r, e), todo |-> book[r].actions,
               outcome |-> "SUCCESS"],
     doing |-> Idle]

\* The next pair; the run is recorded before anything else, then the guard.
Examine(q) ==
    /\ At(q, "process")
    /\ \E x \in Doing(q).todo :
          LET e == Doing(q).events[x[1]]
              r == RuleOrder[x[2]]
              rest == Doing(q).todo \ {x}
              skip == stack' = [stack EXCEPT ![q] = Process(@, Doing(q).events, rest)]
          IN  /\ \A y \in rest : Before(x, y)
              /\ \/ ~RunsOn(r, e) /\ skip /\ UNCHANGED runs
                 \/ RunsOn(r, e) /\ LoopGuard(r, e) /\ skip /\ Record(r, e, "SKIPPED")
                 \/ /\ RunsOn(r, e) /\ ~LoopGuard(r, e) /\ Record(r, e, "RUNNING")
                    /\ stack' = [stack EXCEPT ![q] =
                           Append(Turn(@, [Doing(q) EXCEPT !.todo = rest]), Starting(r, e))]
    /\ UNCHANGED <<book, projects, rows, trashed, enabled, entitled, lastId, changes, world, due>>

\* executeAction: an action on a task of the trash does nothing.
Act(q) ==
    /\ At(q, "idle") /\ Top(q).work.todo # <<>>
    /\ LET w == Top(q).work
       IN  stack' = [stack EXCEPT ![q] =
              [@ EXCEPT ![Len(@)] = [work  |-> [w EXCEPT !.todo = Tail(@)],
                                     doing |-> IF w.event.task \in trashed THEN Idle
                                               ELSE Change(w.event.task, Head(w.todo))]]]
    /\ UNCHANGED <<book, projects, rows, trashed, enabled, entitled, runs, lastId, changes, world, due>>

\* The level that started the run goes on with its pairs.
Resume(s) == Process(s, Last(s).doing.events, Last(s).doing.todo)

FinishRun(q) ==
    /\ At(q, "idle") /\ Top(q).work.todo = <<>>
    /\ LET w == Top(q).work
       IN  runs' = {IF run.rule = w.rule /\ run.key = w.key THEN [run EXCEPT !.status = w.outcome]
                    ELSE run : run \in runs}
    /\ stack' = [stack EXCEPT ![q] = Resume(Front(@))]
    /\ UNCHANGED <<book, projects, rows, trashed, enabled, entitled, lastId, changes, world, due>>

(***************************************************************************)
(* What others do meanwhile                                                *)
(***************************************************************************)

Meanwhile ==
    /\ changes + world < MaxChanges /\ world' = world + 1
    /\ \/ \E r \in Rule : enabled' = enabled \ {r} /\ r \in enabled /\ UNCHANGED <<entitled, trashed>>
       \/ \E r \in Rule : entitled' = entitled \ {r} /\ r \in entitled /\ UNCHANGED <<enabled, trashed>>
       \/ trashed' = Task /\ trashed = {} /\ UNCHANGED <<enabled, entitled>>
    /\ UNCHANGED <<book, projects, rows, stack, runs, lastId, changes, due>>

\* The process stops.
Crash(q) ==
    /\ changes + world < MaxChanges /\ world' = world + 1
    /\ stack[q] # <<>>
    /\ stack' = [stack EXCEPT ![q] = <<>>]
    /\ due' = FALSE
    /\ UNCHANGED <<book, projects, rows, trashed, enabled, entitled, runs, lastId, changes>>

\* dispatch: a query of the engine fails, while it reserves a run or ends one, and what is
\* left to do about the change is dropped; the change itself stands.
EngineFails(q) ==
    /\ changes + world < MaxChanges /\ world' = world + 1
    /\ \/ At(q, "process") /\ stack' = [stack EXCEPT ![q] = Settle(@)]
       \/ At(q, "idle") /\ Top(q).work.todo = <<>> /\ stack' = [stack EXCEPT ![q] = Settle(Front(@))]
    /\ UNCHANGED <<book, projects, rows, trashed, enabled, entitled, runs, lastId, changes, due>>

Step(q) == Read(q) \/ Write(q) \/ Emit(q) \/ Examine(q) \/ Act(q) \/ FinishRun(q)

Next ==
    \/ \E q \in Request : Step(q) \/ Crash(q) \/ EngineFails(q)
                         \/ \E t \in Task, to \in Status : UserChange(q, t, to)
    \/ Meanwhile

Spec == Init /\ [][Next]_vars /\ \A q \in Request : WF_vars(Step(q))

(***************************************************************************)
(* Properties                                                              *)
(***************************************************************************)

\* The rules at work in a request, from the one the user's change started.
AtWork(q) == [i \in 1..(Len(stack[q]) - 1) |-> stack[q][i + 1].work]

\* The chain an event carries is the rules at work below it, so that a rule never works
\* inside itself and rules never nest deeper than the bound.
ChainIsTheStack ==
    \A q \in Request :
        LET at == AtWork(q)
        IN  /\ Len(at) <= MaxDepth
            /\ \A i \in DOMAIN at : at[i].event.chain = [j \in 1..(i - 1) |-> at[j].rule]
            /\ \A i, j \in DOMAIN at : i # j => at[i].rule # at[j].rule

\* A run that is recorded as running is at work in a request that is, unless a process
\* has stopped or the query that ends the run has failed.
RunningIsAtWork ==
    world = 0 => \A run \in runs : run.status = "RUNNING" =>
                     \E q \in Request : \E i \in DOMAIN AtWork(q) :
                         AtWork(q)[i].rule = run.rule /\ AtWork(q)[i].key = run.key

\* A change runs a rule once, however many projects its task has.
OncePerChange ==
    \A a, b \in runs : a.rule = b.rule /\ a.id = b.id => a = b

RulesInv == ChainIsTheStack /\ RunningIsAtWork /\ OncePerChange

\* When the last open subtask is closed, by whatever interleaving of requests and rules,
\* the completion of all of them is announced for the parent.
CompletionAnnounced ==
    due => \E q \in Request : At(q, "emit")

\* Rules that start each other stop: every request ends.
EveryChangeEnds == \A q \in Request : [](stack[q] # <<>> => <>(stack[q] = <<>>))
=============================================================================
