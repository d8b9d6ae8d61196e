# nod-crm: a formal model of the work module and of what it shares its state with

TLA+ modules for the parts of nod-crm where state is shared and ordering matters:
where tasks live, how concurrent edits combine, dependencies under the structure lock,
reminders and rules, the windows of the browser, logins and sessions, files, and the
records of the CRM. TLC checks small instances; TLAPS proves most of the safety, and two
refinements, for any number of people, projects, tasks, requests, windows and files. Paths are relative to the
repository; lines of `service.ts` and `project-service.ts` are those of `src/lib/tasks/`.

## 1. The system and its components

One Next.js application, one PostgreSQL database, one directory of files. Requests are
server actions that run concurrently in one or more Node processes; all shared state is
in the database and in the file directory. There is no queue: the only background work
is the timer of `scheduler.ts`, in every process. The default isolation is READ
COMMITTED, so what a handler reads outside a transaction may be stale when it writes.

| Component | State | Operations | Interacts with | Modelled by |
|---|---|---|---|---|
| Task structure and trash (`service.ts`, `project-service.ts`) | `projects`, `project_members`, `tasks` (parent, deleted_at, deleted_with_project_id, deleted_by), `task_projects`, collaborators | create, copy, move, reparent, trash, restore, purge; members, owners, assignees | access rules read it; every write takes the structure lock | `WorkStructure` |
| Access rules (`access.ts`) | none | who reads, edits, manages, restores, purges | guards of everything else | `TaskAccess` |
| Structure lock, dependencies (`structure.ts`, `graph.ts`, `service.ts`) | advisory lock, `task_dependencies` | three attempts to lock; add or remove a dependency | all structural writes | `DependencyGraph`, `Dependencies` |
| Positions, sections, manual order (`positions.ts`, `service.ts`, `project-service.ts`) | positions of tasks and sections | create, copy, move, renumber, delete a section | structure | `Order` |
| Edits, approval, recurrence (`updateTaskFields`, `spawnNextOccurrenceIn`, `recurrence.ts`) | fields of a task, `version`, `recurrence_origin_id` | patch, with the values the client saw or without; next due date | trash (concurrent), recurrence (same transaction) | `TaskUpdate`, `Recurrence` |
| Timeline (`timeline-view.tsx`, `graph.ts`) | dates of bars, cascade under way | drag, cascade over dependent tasks, bulk write | edits, dependencies | `Timeline` |
| Tags and custom fields (`settings-service.ts`, `service.ts`) | tags, options, values | tag a task, set a value, change or delete tags and fields | windows that show old settings | `Labels` |
| Client store and stream (`store.tsx`, `task-ops.ts`, `realtime.ts`, SSE route) | table of tasks of every window | optimistic edit, creation, removal, undo; reload | server actions, LISTEN/NOTIFY | `ClientStore` |
| Automation rules (`automations.ts`, `automation-model.ts`) | `automation_rules`, `automation_runs` | events, reservation by event key, loop guard, actions | edits, which emit events | `Automations` |
| Scheduled reminders (`task-reminders.ts`, `jobs.ts`, `scheduler.ts`) | `task_reminders`, `job_leases`, `notifications`, `automation_runs` | lease, plan, deliver, settle, retry | tasks, rules, notifications | `Reminders` |
| Attachments and photos (`settings-service.ts`, `lib/storage`, `photo-store.ts`) | files, rows that name them | file then row on upload, row then file on removal | purge | `Files` |
| Follow-ups, opportunities, contacts and import, organisations (`app/(app)/*/actions.ts`, `lib/follow-ups`, `lib/commerce`, `lib/contacts`) | rows of one owner | quick actions, transitions, forms, import, rename, archive | photos; follow-ups of an opportunity | `Crm` (on `Files`) |
| Login throttle (`auth/rate-limit.ts`, `login/actions.ts`) | `login_attempts` | claim, count, refuse, success, purge | login | `LoginThrottle` (in `Accounts`) |
| Links to the CRM (`crm-access.ts`, `service.ts`, `project-service.ts`) | contact, organisation, opportunity of a task or project | edit, copy, occurrence, deletion of an opportunity | edits; rows of one owner | `CrmLinks` |
| Backup scripts (`deploy/backup`) | two families of archives, the database, the files | dump, archive, prune, restore | photos | `Backups` |
| Sessions (`auth/session.ts`, `scripts/admin.mjs`) | `sessions`, cookies | read and refresh, login, logout, revocation | account state | `Sessions` (in `Accounts`) |
| Migrations of the work module (`prisma/migrations`) | assignee, creator, history, reconciliation notes | five corrective migrations between uses of V1.0 | edits | `LegacyTasks` |
| Queries, workload, CSV, today, cockpit | none | filter, sort, count, format | read everything | not modelled |
| RGPD register, comments, time entries | rows, single writer | create, update, archive | - | not modelled |
| Templates, forms, views, preferences | rows of one person | create, update, delete | create tasks | not modelled |
| Authorization, audit log | table of capabilities, append-only log | check, append | everything | not modelled |
| User interface, deployment | - | - | - | not modelled |

**Not modelled, and why.** Queries, workload, CSV, today and the cockpit read and compute
without keeping anything; their arithmetic has its unit tests. The RGPD register,
comments, time entries, templates, forms, views and preferences are one-row writes with
one author: two of them meet only on the last-writer-wins of a row, which the repository
does not claim to avoid. The audit log is append-only and written after the fact. About
17,000 of the implementation's lines are display (`*.tsx`): what their buttons send is the
input of the models (`MCTaskUpdate`, `MCSharing`), what their store does is `ClientStore`
and what dragging does is `Timeline`; the rest is layout. The share of lines the models
stand for is therefore about 13 % of the whole, and most of the core of `lib/tasks`.

### What is hard here, and what has to hold

- **Two trashes that overlap.** A task may be in several projects and be trashed by
  itself, with its parent or with a project; projects are trashed, restored and purged
  in any order, and a purge deletes memberships by cascade. A task must not come back
  while nobody can see it, wait for a project that is gone, become free (readable by its
  creator and assignee) by accident, or be erased while somebody still has it.
- **Visibility follows structure.** Reparenting, removing and restoring change the
  readers of a task; none may open it to new people unless that is their purpose.
- **Stale reads.** Handlers check, read, decide and only then write. What links the two
  differs: a compare-and-set on `version` (edits), a compare-and-set on the status
  (follow-ups), a lock and a second check (structure), or nothing (opportunities,
  custom values, sections).
- **A search spread over several queries.** The search for a loop of dependencies reads
  one level per query while dependencies are removed without the lock.
- **Rules that start each other**, inside the request that changed the task, with rights
  and rules that change meanwhile.
- **Exactly once by two mechanisms.** Reminders are delivered again after crashes; a
  built-in reminder is made unique by the notification's key, a rule by its run, which
  cannot be replayed. A suspended process wakes up after its lease was taken over.
- **Counting without a lock.** Concurrent logins insert their attempt, then count.
- **Optimistic windows.** What is shown is ahead of the server, reloads come back in any
  order, an answer may never come.
- **No transaction over a file and its row**, nor over a dump and the archive of the photos.
- **Links one may not see.** A shared task carries the record of one owner; whoever edits
  the task must not remove what the form does not show them.
- **Positions that run out of room**, calendars that do not have the day asked for,
  cascades that meet a task twice.
- **Liveness.** A reserved reminder is settled although runs die; every chain of rules
  and every attempt to lock ends; every window shows the database in the end.

`PROJECT.json` ("hazards") gives each of these at its line, with the properties that
watch it or the reason why none does.

## 2. The modules

| Module | Content | Instance |
|---|---|---|
| `TaskAccess` | the tables as variables, rights as operators (`CanRead`, `CanEdit`, `CanManage`, `CanRestore`, `CanPurge`, `Readers`, `MayRead`) | - |
| `WorkStructure` | one action per operation that changes where a task lives or who reads it | `MCWorkStructure`, `MCSharing` |
| `Order` | places of tasks and sections of a project | `MCSharing` |
| `Labels` | tags, options and values | `MCSharing` |
| `TaskUpdate` | a request as idle → sent → authorised → write, several at a time, on one task | `MCTaskUpdate` |
| `Timeline` | drag and cascade | `MCTaskUpdate` |
| `Recurrence` | calendar, next due date, chain of occurrences | `MCTaskUpdate` |
| `DependencyGraph` | abstract: a graph changed in one step each and never looped | - |
| `Dependencies` | the lock, the search, the write; implements `DependencyGraph` (`Implements`) | `MCDependencies` |
| `ReminderLedger` | abstract: entries opened once and closed for good, who was told, which rules were carried out | - |
| `Reminders` | processes, lease, reminder rows, rule runs, faults; implements `ReminderLedger` (`KeepsLedger`) | `MCReminders` |
| `Automations` | requests as stacks of levels, rules, runs | `MCAutomations` |
| `ClientStore` | windows, server, stream | `MCStore` |
| `LoginThrottle` | attempts and their two counters | `MCLogin` |
| `Sessions` | sessions of one account | `MCLogin` |
| `Accounts` | the two above: attempts, then the sessions they open | `MCLogin` |
| `LegacyTasks` | one task through the migrations | `MCLogin` |
| `CrmLinks` | the link of shared items to records of one owner | `MCTaskUpdate` |
| `Backups` | the backup scripts beside the application and a restore | `MCRecords` |
| `Files` | files and the rows that name them | `MCRecords` |
| `Crm` | follow-ups, opportunities, contacts, organisations, import; extends `Files` | `MCRecords` |
| `WorkStructureProofs` | theorems of `WorkStructure` and `Order` | - |
| `DependenciesProofs`, `RemindersProofs`, `AutomationsProofs` | theorems of the module of that name | - |
| `TaskUpdateProofs` | theorems of `TaskUpdate`, `Timeline`, `Labels` and `Recurrence` | - |
| `AccountsProofs` | theorems of `LoginThrottle`, `Sessions`, `Accounts` and `LegacyTasks` | - |
| `RecordsProofs` | theorems of `Files`, `Crm`, `CrmLinks` and `Backups` | - |
| `StoreProofs` | theorems of `ClientStore` | - |

An MC module that holds several components has a `scene` chosen in the initial state: the
components that share no state run side by side in one check, never in one behaviour.
A definition commented "Seeded fault" belongs to no behaviour: it is a plausible bug of
the definition below it, put in its place to see that a property notices.

### How the modules correspond to the code

**TaskAccess, WorkStructure.** A row is `unborn`, `active`, `trashed` or `erased`.
`memberOf` is `task_projects`, `role` is `project_members`, `deletedWith` and `deletedBy`
are the columns of that name. `deleted_at` is needed only to know whether a subtask was
deleted *with* its parent (restoreTask compares the two instants): `sameStamp` holds the
subtasks of which that is true. `preview[p]` is the purge scope (and its token) last shown
for project p, so that the confirmation of a stale preview is a behaviour of the model.
`Cascade` is `ON DELETE CASCADE` on `parent_id`, `Erase` the other foreign keys. Every
handler runs under the structure lock and re-reads its guards there, so it is one action
(`Dependencies` shows the lock at work). Two writes that do not take the lock
(collaborators, members) are single-row writes and are one action as well. `Copies` lets a
copy take any unborn rows (a one-to-one map from the task and its active subtasks). Left
out: activity, notifications, versions, and the acts of automation rules, which go through
the same operations with the rights of the rule's author.

**Order.** Places are integers and `PositionStep` a small number: the middle of two places
is found until the gap is used up and the list is numbered again, which takes two moves
here and thirty in the code. Moves, copies and occurrences hold the structure lock from
their reads to their write: one step. A creation reads its place before its write and the
deletion of a section reads its tasks before its transaction: two steps each. Left out:
`moveSubtask`, and two sections created or moved at the same instant.

**Labels.** `setTaskTags` keeps the first 30 tags it is asked for (`FirstOf`, in any order:
a window appends what it adds), locks the row of the task, reads the tags and applies the
difference between what the window showed and what it wants. `setCustomFieldValue`
checks the options, then writes: two steps. `saveCustomField` writes the options, lists
the values and cleans them row by row, one step each; it may be interrupted anywhere.

**TaskUpdate.** One task. `Authorise` is `requireTaskEdit` (812), `Read` the second read
and all that is decided on it (815-925), `Write` the transaction (943-959), between which
anything may happen: other requests, a trash or restore (both raise `version`), the purge
of the next occurrence. `base` holds the values the client says it saw, or none. `Abandon`
is the busy lock, a lost connection or a stopped process. Five fields are kept, those on
which the approval circuit and the occurrence depend; the others take the same path. The
rights are fixed (people who may edit; managers among them). The bypass of the approver
check for automation rules is left out.

**CrmLinks.** One kind of link. A request (`Form` or `Panel`) reads the item with its version,
checks that the link it takes away and the one it puts are to records of its author, and
writes if the version has not moved: five steps, between which other edits write, an
opportunity is deleted and items are created, copied or repeated. A project is read in two
queries. The rights on the item are left out: everyone may edit it. `LinksSpec` bounds neither edits nor
writes; the instance does.

**Backups.** A run is cut at each command that touches an archive. A photo is `new`, `stored`
(a file without a row), `shown`, `cleared` (the row is gone, not the file), `gone`, `broken`
(a row without a file) or `orphan`; the database is the set of photos its rows name. `Abort`
is any failure or kill, `Extract` the operator who puts the photos back as
docs/backup-restore.md says. The copy to another site and the rehearsal are left out.

**Timeline.** Days are numbers. `Drag` writes the bar; with the option ticked,
`CascadeShift` is one turn of the loop of `cascadeShift`, with the variables of that
function (`queue`, `guard`, `result`). The successors a turn appends are one element of
`queue`, a set, of which `Comes` takes the first in the order of the table. `BulkPatch` writes the moves and passes those the
user may not make. The limit of 200 moves is left out.

**Recurrence.** A day is a number with the month, day of the month and weekday of the
calendar. `NextOccurrence` translates `nextOccurrence`, `CatchUp` the loop of
`spawnNextOccurrenceIn`, and a chain of occurrences is completed early, in time or late. The
guard `Covered` is its bound: the occurrence is at most as many days late as the loop makes
turns (1000, `Passes`), each turn going a day later at least, and the calendar of `Months`
months holds the occurrence that follows. `LeapMonths` are the Februaries of 29 days, any of them.

**DependencyGraph, Dependencies.** A request checks that both tasks are active and
readable, tries the lock `MaxAttempts` times, checks again under it, loads the successors
one level per query (`seen`, `frontier`, `depth`, at most `MaxDepth` levels) and writes.
`removeDependency` takes no lock and may happen between two levels. Trash, restore, purge
and copy are other holders of the lock. A transaction that fails, or a connection that is
lost, gives the lock back and writes nothing (`Rollback`).

**Reminders.** One action is one query or transaction of `planReminders`,
`runTaskReminders`, `deliver`, `runRule` or the lease. Time is relative: the lease keeps
the ticks it has left, a rule run its age; the clocks of processes are taken to agree.
A delivery may find that `notify` filters its only recipient out (inactive, notification
turned off, no access any more): it inserts nothing and the row is SENT all the same, which
`notified[k][None]` remembers, so `SentMeansDelivered` says that a row recorded as sent was
handed to `notify` with the assignee of that moment. `Crash` loses
the local state; a suspended process lets time pass beyond its lease; `QueryFails` and
`RunFails` are failed queries. Left out: the limit of 500 rows per run, the order of
delivery (any order is possible in the model), rows that disappear because their task is
purged; the holder of a lease is identified with its process. `ReminderLedger` is what
docs/tasks.md promises of a reminder; the refinement mapping keeps the status and the
attempts of a row and forgets processes, lease and runs.

**Automations.** A request is a stack of levels: the user at the bottom, then the run of a
rule in each. A level is reading or writing a change, emitting its events, going through
the pairs of events and rules they concern (`processEvents`), or idle between two actions.
The chain and the depth travel with the events; a run is reserved by its key before its
actions, and pushes a level. The rights of the author and the task are read when the rule
runs, and may change between two steps. `EngineFails` is a query of the engine that fails:
`dispatch` drops the events left and the change stands. Rules here look at and set the
status of a parent task and its subtasks; conditions, and actions without events, are left
out.

**ClientStore.** Each window has rows shown (`shown`), temporary rows (`drafts`), edits
under way (`pending`), operations waiting for their answer one at a time (as Next.js
sends server actions), and reloads that read the server at one moment and are applied at a
later one. The stream marks a window `dirty`; a message may be lost and the focus reloads.
A request given up by its window may still run later (`late`).

**LoginThrottle.** An attempt inserts one row per scope, counts the rows of its window
scope by scope, deletes its own when refused, checks the password, and deletes the
account's rows when it succeeds. Ages are relative to the window.

**Sessions.** Each query of `readSession`, login, logout, and of the operator's two commands
is a step. A tick is longer than the five minutes within which a session is not
refreshed. A cookie is a token per browser.

**LegacyTasks.** One task from V0.x to the last migration, used between two deployments.
`dated` says whether `_prisma_migrations` knows when V1.0 was applied, `old` whether the
task is older; a note of the reconciliation knows whether its field changed before or
since. `meant` and `judged` are history: the last decision and what the migration took
the task for.

**Files.** A request is cut at every `await` between a file and its row: write, insert,
detach, erase, discard. Crashes leave what they leave; `lost` remembers the files no
request answers for, with `drawn` for the keys (a UUID is never drawn twice). The code takes
any error of a write for a refusal and discards the new file; `AnswerLost` is the write that
was committed and whose answer was lost, and `unacked` remembers the rows it leaves without
their file.

**Crm.** A request reads, then writes what it decided on that reading; any number at a time
(`CrmNext`; `MCRecords` enumerates those of a small instance and has two). Statuses, days, names and addresses are small sets. Amounts, labels and the parsing
of CSV files are left out.

## 3. The runs

`expect: pass` runs finish without error; every property has a seeded fault that breaks
it ("mutants" in `PROJECT.json`). Each takes between a few seconds and two minutes and a
half with two workers.

| Run | Instance | Shows |
|---|---|---|
| `trash` | 1 person, 2 projects, 3 tasks; scenes: the two trashes with everything in them; every operation in one project; the trashes from states an earlier version left | `SubtasksFollowTheirParent`, `TrashFollowsProjects`, `FamilyTrashedTogether`: nothing is stranded between the two trashes; `NeverFreedByAccident`; `OnlyTrashIsErased`, `ErasedAsAnnounced`: a purge erases what its dialog showed |
| `sharing` | 2 people, 2 projects, 2 tasks; order of 3 tasks and 3 sections; tags and values of 2 tasks | `NoWidening`: no structural change shows a task to new people; `ActiveTaskHasActiveProject`; `DropsLand`: an item lands where it was dropped and moves nothing else; `TagsMoveAsAsked`, `NoOrphanOption` |
| `updates` | 2 requests, 2 people, 2 writes; cascades over 4 bars; chains of occurrences of 10 rules; 2 edits of the link of 2 items | `ApprovalFollowsStatus`, `DecidedByApprover`, `NoBlindOverwrite`, `OneNextOccurrence` under interleaving; `CascadeInv`: a cascade only moves later and only for a reason; `FirstNamedDay`: no named day skipped or added; `OthersLinksStay`: nobody removes a link they cannot see |
| `dependencies` | 3 tasks, 2 requests with any operations, removals at any moment | `SearchInv`: a search over several queries stays true; `Implements`: the refinement of `DependencyGraph`; `EveryRequestEnds` |
| `reminders` | 2 processes, 2 people, 1 task; changes, or 2 faults, or 2 days | `DeliveryInv`, `NeverSentTwice`; `KeepsLedger`: the refinement of `ReminderLedger`; `PendingIsSettled` and `UntouchedIsReminded` in the end |
| `automations` | 2 requests, a task with 2 subtasks, 2 books of 3 rules that start each other, 2 changes by others | `RulesInv`: chains follow the rules at work, one run per rule and change; `CompletionAnnounced`; `EveryChangeEnds` |
| `store` | 2 windows, 2 rows, 2 operations, 1 loss | `StoreInv`: what is typed stays on screen; `NoSilentOverwrite`; `Converges` |
| `login` | 3 attempts on 2 accounts from 1 source; 2 tokens, 1 browser, 2 requests; one task through the migrations with 2 users | `AtMostMax`, `BlockedForCause`; `AccountsInv`: what ended is never served again, rows that count stand; `LegacyInv`: decisions stand and guesses are noted |
| `records` | 2 requests on 1 follow-up, 1 opportunity, 2 contacts and imports of 1 or 2 lines, or 3 files; 2 runs of the backup, or one beside a restore | `CrmInv`, `CrmSteps`: dates tell the status, a closed follow-up rests, an import only fills; `FilesStand`: every row has its file, but for one committed without an answer, every other file a known cause; `BackupsInv`: two archives of a run fit, pruning leaves enough |
| `nesting`, `interrupted`, `cascade` | as `trash`, `reminders`, `updates` | a disagreement between the documentation and the code (section 5) |

**Bounds and why they are enough.** Two projects are what it takes to share a task, delete
one, then the other, and bring them back in either order. Three tasks are a parent, a
subtask and another task to reparent under or away from. Two people are one who has access
and one who must not get it. In `trash` one purge dialog is open at a time (`OnePreview`),
and the scenes other than the first use `MaxTasks` = 2 tasks. In `sharing` the spaces that
share no state are scenes; `PositionStep` = 2 lets a list be numbered again after one move,
`MaxPlace` = 6 lets it be after several, and at most two requests are under way (`Busy`).
In `updates` two requests wait to write but one at a time is arriving (`OneArriving`): what
a third would do is what the second or the trash does, namely move the version; two writes
(`MaxVersion`) make a stale row and a row seen twice, and a completion after a completion
is reached because the task may start as one completed and reopened (`RecurringInit`). Four
bars are two paths of different lengths to the same task and one task behind it. The ten
rules cover the four frequencies, intervals, named days and days that a month lacks, from
due dates at the end of January and February, to day 75. In `dependencies` two requests
are what it takes to close a loop from both sides, three tasks a chain that takes two
levels to search, which is the limit there (`MaxDepth` = 2: the last level loaded is the last
that matters, and a limit of 1 lets a loop be closed); one operation other than an addition is under way at a time (`Few`) and
an operation that could do nothing is not sent (`Useful`). In `reminders` one kind of
reminder exists in a behaviour (`only`), and one of people, faults or days moves freely
(`more`). In `automations` `MaxDepth` = 2 is met by the ring of rules; the code's depth is
larger and the guard the same. In `store` three values tell whose write is on screen; one
loss of each kind is tried. In `login` a window of one tick is passed by the slowest attempt,
`OneStops` interrupts one of three; a session lives three ticks at most and two without
use, and `Horizon` is as long. In `records` one row of each table is where two requests
meet; the files have three keys, one for each of two requests and one stored before. At most
one insert is committed without an answer, which keeps the run short: the files alone pass
without this bound too. Two archives of earlier runs and two
new ones pass the minimum kept (`MinKept` = 3) by one; two photos are one that stays and one
that goes. Two people, a record of each and two items are what it takes to take somebody
else's link away; an edit reads an item before or after one write (`MaxReadVersion`). The
proofs of section 4 lift these bounds for what they cover.

**Deadlock** is checked in `reminders` and `records`. It is not in the others, which stop
at their bounds: rows erased are not reused, and operations, changes, days and attempts are
counted.

**Fairness.** `reminders`: weak fairness of every process's own next step and of time.
`setInterval` fires as long as the process lives, a process that dies is restarted
(`restart: unless-stopped`), every query returns or fails, and faults are bounded.
`dependencies`, `automations`: weak fairness of the steps of each request, since a query
returns or fails and a transaction has a timeout. `store`: the server answers, the answers
are received, reloads end, and every window comes back to the front again and again;
nothing is assumed of the stream, whose messages may all be lost. No fairness is assumed
of people.

## 4. What is proved

For any finite or infinite sets of people, projects, tasks, requests and files, and with
no assumption on the constants beyond those named in the modules (the order of a project
assumes its tasks and sections finitely many); the two theorems that need more say so in their statement.

- `WorkStructureProofs!TypeCorrect`: the types, and that a row that is gone keeps no
  parent, project or deletion mark. `TrashInvariant`, and from it `TrashFollows`,
  `SubtasksFollow`, `ActiveTasksAreSeen`, `FamiliesTogether`. None of the four is
  inductive alone. To see that a task sent to the trash with p is in p, one needs that its
  projects are all in the trash once p is (an active task has an active project); when a
  purge moves a kept task to another project one needs that this project is in the trash;
  for a subtask all this is said of its parent, which must not have a parent's project of
  its own; and a restore brings back with a task exactly the subtasks that wait with it,
  which needs families to be together. Their conjunction `TrashInv` is inductive without
  strengthening. The lemma `CascadeFacts` characterises deletion by cascade; there is one
  lemma per operation or group of operations that write the same columns.
- `TaskUpdateProofs!Invariant`: a request about to write has checked its patch on a row
  `seen` such that *if* `seen.version = task.version` *then* `seen = task` (`Checked`). It
  is kept because every write of the row raises the version. With it a write that goes
  through was checked on the row it replaces, and `ApprovalsFollowStatus`,
  `DecisionsByApprover`, `OverwritesAreSeen`, `CompletionsLeaveNext`,
  `AtMostOneOccurrence` (together `OneOccurrenceFollows`) follow by looking at one write.
- `DependenciesProofs!SearchCorrect`: the tasks a search has seen are closed under the
  dependencies of *now*, those of its last level apart (`SeenIsClosed`). It is kept because
  whoever could add a dependency needs the lock, and removals only make the graph smaller.
  `AddedBetweenActive`: what is checked under the lock stays true while it is held. From
  them, if the search loads at least one level less than there are tasks (`DeepEnough`: at most
  201 tasks reachable in the code, which stops after 200 levels): `NoLoops`, with the count that every level that does not end the
  search has seen another task (`DepthCounts`) and a lemma on graphs, that linking a to b
  makes no loop when a set closed under the edges holds b but not a; and `Refinement`, that
  `Dependencies` implements `DependencyGraph`: every step maps to one step of the graph or
  to none.
- `AccountsProofs`, attempts. `RowsAreCounted`: the row of an attempt stands as long as it can
  count for another (`RowsStand`). From it `AtMostMaxThrough`: of the attempts let through
  a counter in a window, the last one to count has counted all the others, so they are no
  more than the maximum, however many are made, interrupted or successful. `BlocksAreJust`:
  whoever is blocked was blocked by that many others, since a failure left in the table is of
  an attempt that neither was blocked, nor logged in, nor was forgiven (`FailuresAreOpen`).
- `AccountsProofs`, sessions. `SessionsInvariant`: `SessionsInv` needs to know, for each
  request, what its token and what it has read still say of the tables (`Sound`): a request
  that arrived after its token ended never finds a row again, because a token is drawn once
  (`TokensOnce`), and a row it read before is older than the end. From it `EndedIsOver`, and
  with the attempts `AccountsHold`.
- `AccountsProofs`, migrations. `LegacyInvariant`: at each migration a field has a reason
  (`Traced`): a value decided is there, or withdrawn by a note that holds it (`REVERTED`), or was
  taken back with a note that holds it (`UNDONE`); a value nobody decided is noted from the
  reconciliation on (`GuessNoted`), but for a task that was in use and not judged; and no note
  is of a migration to come (`Unnoted`). That the last three migrations run again change nothing
  is proved of any row, not only of those reached (`ReconcileTwice`, `RestoreTwice`,
  `ExplicitTwice`). From them `LegacyHolds`.
- `RecordsProofs!FilesInvariant`: the inductive invariant has seven parts: types, the shape of
  a request at each step, a new file known to the request that stored it only, rows that
  name different files, files to remove that no row names, and the two halves of
  `FilesStand`. There is one lemma per action and one step per part. From it
  `FilesTypeCorrect`, `EveryRowHasItsFile`, `OrphansExplained`, `FilesAlwaysStand`.
- `WorkStructureProofs`, action properties. The step is written as a formula of its own
  (`ErasedFromTrash`, `ErasedAsPreviewed`, `FreedOnPurpose`, `StaysNarrow`) and proved of each
  operation from `TrashInv` (`NextErases`, `NextReaders`). For the readers, an operation
  either keeps the place of every task (`KeepsPlaces`: most do), or moves one family, whose
  readers of after are told by its new projects and the rights of before (`WouldRead`). From
  them `OnlyTrashErased`, `ErasedAnnounced`, `NeverFreed` and `NobodyNew`.
- `WorkStructureProofs`, order. `OrderInvariant` gives the types, and that the tasks listed
  before a deletion are all different. `DropsLandHolds` rests on two facts: the place between
  two neighbours is strictly between them or there is none (`BetweenFacts`), and after a
  renumbering any two items in order are more than one apart (`RenumberingFacts`), so that there
  is always one (`RoomBetween`). `MoveToPlaced` and `MoveSectionPlaced` give what a move does in
  one form, renumbered or not; a deletion puts the tasks listed one step apart after the
  greatest place of the destination (`DeletionForms`), which exists because sections are finite
  (`GreatestPlace`). It holds for any step greater than one and any offset.
- `TaskUpdateProofs!CascadeHolds`: `CascadeInv` is inductive with the types, the bars being
  moved as a whole (`Spans`), all that waits or was looked at following the bar and never
  the bar itself (`Reasons`), and why a task looked at is late again (`Looked`). It uses that the dependencies make no
  loop, which is in the initial state and what `DependenciesProofs!NoLoops` is about.
- `TaskUpdateProofs!LabelsInvariant`, `NoOrphans`: a value that names an option no longer
  there belongs to a save not over, or to a request checked before it. `TagsAsAsked` needs
  only the types: a save of tags reads and writes under the lock of the row.
- `TaskUpdateProofs!FirstNamedDayHolds`: the starts of the months and the loop that catches up
  are recursive functions. That each exists is not assumed, and needs no induction over data:
  among the arguments at which it would not there would be a least one (`LeastNatural`), and
  the functions built below it extend to it (`SumsExist`, `ClimbExists`); for the loop, every
  turn goes to a later day. From this come the calendar (`StartsGrow`, `MonthFacts`,
  `AddMonthsFacts`), that one turn goes to the first day the rule names after an occurrence
  (`DailyFirst`, `WeeklyFirst`, `MonthlyFirst`) and keeps what the rule counts from (`DayKept`),
  and that the turns skip none (`CatchUpFacts`). It holds for any rule and any set of leap
  Februaries, as long as `Covered` is true. The rules that drift (section 5) are excepted.
- `RemindersProofs!DeliveryInvariant`: what a process has in hand at each step (`LocalInv`),
  that what is about to be recorded as sent was handed to `notify` (`SentInv`), that one process at
  most is about to carry out a rule and that it never was carried out (`ActInv`: the unique
  key of the run), and who has the lease as long as no process is suspended (`LeaseInv`).
  From it `DeliveryHolds`, `NeverTwice`, `SettledStays`, and `LedgerKept`: `Reminders`
  implements `ReminderLedger`, each action being one of the ledger's or a stutter.
  `NeverTwice` also needs `SmoothInv`: until a fault happens one process works, what it has
  in its queue or in hand is pending, and a key somebody was told of is settled or about to be.
- `RecordsProofs!LinksInvariant`: a request that passed a check owns the records checked or the
  version of the item has moved since (`Knows`), as in `TaskUpdate`; `LinksOfOthersStay`
  follows from it by looking at one write. `CrmInvariant`: the tables, the dates, and what
  each request read and has not written; `CrmHolds`, `ClosedOnesRest` (a quick action writes
  only the row it was decided on, by the compare-and-set on the status), `ImportFills` (an
  import completes a row as it is when it writes, field by field) and `CrmStepsHold`.
- `RecordsProofs!BackupsKeep`: a stamp is of one run (`StampsFresh`), and a photo of a dump whose
  archive is to come has its file, or its removal is known (`PicturesHeld`). For runs one after
  the other the archives kept are the newest of those written (`Newest`), dated in their order
  (`Dated`), all of them or enough (`Enough`); what is about to be removed is the oldest, no more
  than the surplus (`Removable`). A photo archive in the surplus has no dump left
  (`SurplusSpares`): the old dumps went first, and every photo archive not older has its dump
  kept, which are too many. How many the n oldest are (`OldestSize`) rests on least elements,
  from the well-founded order of the subsets of a finite set.
- `StoreProofs!StoreInvariant`: an edit sent carries what its user had on screen (`Sent`),
  only the first of a queue may have been begun alone (`OneFirst`), and the edits counted as
  under way on a row are those in the queue (`PendingCounts`, by counting positions). From it
  `StoreHolds` and `NothingOverwritten`.

- `AutomationsProofs!RulesInvariant`: every event a level goes through descends from the
  rules at work up to it, chain and depth (`Follows`, `Placed`), which `ChainBelow` and the
  lemmas on stacks (`Pushed`, `Popped`, `TopReplaced`) carry from step to step; the events
  under way have identifiers their request gave, one task for each (`Ids`), so that the key
  of a run is told by its change and the task alone (`Keys`, `KeyOfRun`); a run marked as
  running is at work (`Held`); and a completion not announced is at the request that is
  about to emit it, all being done (`Said`). From it `RulesHold` and `CompletionIsAnnounced`.

**Only model-checked**: liveness under fairness (`EveryRequestEnds`, `PendingIsSettled`,
`UntouchedIsReminded`, `Converges`, `EveryChangeEnds`), and ENABLED, which are out of the reach
of the proof system. Every invariant and every other property of the passing runs has a theorem.

## 5. Where documentation and code disagree

Each of these is a run that TLC must find violated; `PROJECT.json` ("findings") quotes both.

| Run | What happens |
|---|---|
| `nesting` | subtask C of A is deleted, A becomes a subtask of B, C is restored: two levels |
| `interrupted` | a crash inside a rule younger than the lease leaves its run RUNNING, and the reminder SENT |
| `cascade` | a task pushed again after the cascade has looked at it does not push its successors again |

Seen while modelling, without a run.

*Tasks.* A subtask of a free task, converted, is read by its own people and not by the
parent's (docs/tasks.md:480). The visibility check of a reparenting ignores the parent's
projects in the trash (service.ts:1744, docs/tasks.md:477). An approved request that is
done, set back to pending, stays done (service.ts:915); a patch may make a request of a
task that is done, or create one that is done, both pending; `{isApproval: false, status:
DONE}` completes a request in one patch; `{approvalStatus: APPROVED, status: TODO}` approves
without completing. A task trashed between the check of the rights and the read of its row
is completed, and its next occurrence is active (service.ts:812, 815). Bulk edits, custom
values and moves carry no base. A bulk deletion of a parent and its subtask counts the
subtask as refused. An owner's role can be lowered by `setProjectMember`. The search for
dependency loops stops after 200 levels.

*Order and settings.* A stale neighbour lands a task one step before the other one.
`deleteSection` reads the memberships outside its transaction and its lock
(project-service.ts:1040). `saveCustomField` cleans the values row by row without a lock
(settings-service.ts:120-131). The comparator of the manual order is not transitive on
mixed sections (query-engine.ts:281-287).

*Dates.* A monthly rule without a day of the month drifts (31 January, 28 February, 28
March), and a yearly one from 29 February; a monthly rule skips the named day of the
current month when the due date is before it; catching up stops after 1000 occurrences.
`bulkPatchAction` keeps the first 200 moves of a cascade and says nothing of the others.

*Windows.* After two failed edits of one row a value that nobody saved stays on screen until
the next reload (store.tsx:38, 362).

*Reminders and rules.* A reminder row SKIPPED because the task changed keeps its unique key,
so a task changed back is not reminded; a row delivered again after a reassignment reaches a
second person (only then: `OneRecipient`). A reminder whose assignee takes no notification is
SENT like the others. A workspace rule with a condition on the section is evaluated on the event of
the first project only; the action of a rule that loses the compare-and-set ends in ERROR
and is not tried again.

*Accounts.* A session deleted while it is refreshed makes its request fail; two logins of one
browser leave a session nobody uses until it expires. A reassignment made after the
reconciliation in a database that has no date for V1.0 is noted `ORIGIN_UNKNOWN` by
20261015090000 and emptied by 20261016090000, although a decision made since is to prevail
(docs/tasks.md:138-153); in the same databases a value inferred on a task in use is kept
without a note. History recorded late is acknowledged at docs/tasks.md:694-697.

*Backups.* Two runs of the backup at once may prune below the minimum, since the archives
are counted before they are listed (nod-crm-backup.sh:175). A run refused because the
application is stopped has already kept its dump, without photos (docs/backup-restore.md
announces no partial archive). A `docker stop` that fails is taken for an application
already stopped, which then works on a database half restored (nod-crm-restore.sh:158).

*Records.* Two nudges at once on a follow-up count twice when the due date is already the one
a nudge gives (follow-ups/actions.ts:194-197). A contact refused for its organisation leaves
its stored photo, two updates at once leave an orphan photo, and an attachment inserted
between the scan of a purge and its deletion leaves its file. An opportunity created closed
has no `closedAt` (schema.prisma:975); its status is written by id, so two requests can take
it from GAGNEE to PERDUE. The name of an organisation read outside the transaction that
renames it leaves a stale copy in a contact. Two imports at once create the same contact
twice. The import of tasks and the submission of a form report a row as skipped when
`createTask` fails after its commit. In the RGPD register the links of a processor are
checked before the transaction, and a stale form brings an archived treatment back.
A row whose commit is not acknowledged is taken for refused and its new file is removed
(settings-service.ts:696, contacts/actions.ts:129, 218): the contact or the attachment stays
and names a file that is gone.

## 6. Plan

Done: the modules of section 2 and the proofs of section 4. Next, in this order:

1. **The remaining single-row components**, if they gain a protocol: a module for the RGPD
   register, one for forms and the import of tasks, one for comments and time entries.
2. **What modelled components leave out**: `moveSubtask`, sections moved at the same
   instant, conditions of rules.
