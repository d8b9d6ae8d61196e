----------------------------- MODULE Dependencies -----------------------------
(***************************************************************************)
(* addDependency and removeDependency (service.ts) and the structure lock   *)
(* they share with every operation that moves, trashes, purges or copies    *)
(* tasks (structure.ts).  A request checks, tries the lock a few times,     *)
(* checks again under it, searches the graph one query per level and        *)
(* writes; removing a dependency takes no lock.                             *)
(***************************************************************************)
EXTENDS Naturals, FiniteSets

CONSTANTS
    Task,
    Request,      \* requests of any users and processes
    MaxDepth,     \* levels the search loads (200 in the code)
    MaxAttempts,  \* attempts to take the lock (three in the code)
    None

ASSUME DependenciesAssumption ==
    /\ MaxDepth \in Nat /\ MaxAttempts \in Nat \ {0}
    /\ None \notin Request

VARIABLES
    life,       \* state of the row of each task
    edge,       \* rows of task_dependencies: <<blocking, blocked>>
    holder,     \* request whose transaction holds the lock, or None
    pc,         \* where each request is
    op,         \* what each request does
    attempts,   \* attempts made to take the lock
    seen, frontier, depth  \* search of the request that holds the lock

vars == <<life, edge, holder, pc, op, attempts, seen, frontier, depth>>
search == <<seen, frontier, depth>>

\* The abstract graph, on the same rows.
Graph == INSTANCE DependencyGraph WITH life <- life, edge <- edge

\* A dependency to add, or an operation on one task or a project.
AddOp == [do : {"add"}, blocking : Task, blocked : Task]
OtherOp == [do : {"create", "trash", "restore", "purge"}, task : Task]
           \cup [do : {"copy"}, copies : UNION {[S -> Task] : S \in SUBSET Task}]
Op == AddOp \cup OtherOp

Active(t) == life[t] = "active"

\* requireTaskEdit on the blocked task, requireTaskRead on the blocking one.
MayAdd(o) == Active(o.blocking) /\ Active(o.blocked)

TypeOK ==
    /\ Graph!GraphTypeOK
    /\ holder \in Request \cup {None}
    /\ pc \in [Request -> {"idle", "waiting", "locked", "searching"}]
    /\ op \in [Request -> Op \cup {None}]
    /\ \A r \in Request : pc[r] # "idle" => op[r] \in Op
    /\ attempts \in [Request -> Nat]
    /\ seen \subseteq Task /\ frontier \subseteq seen /\ depth \in Nat

Init ==
    /\ Graph!Init
    /\ holder = None
    /\ pc = [r \in Request |-> "idle"]
    /\ op = [r \in Request |-> None]
    /\ attempts = [r \in Request |-> 0]
    /\ seen = {} /\ frontier = {} /\ depth = 0

\* A request is answered; what it knew is gone.
Leaves(r) ==
    /\ pc' = [pc EXCEPT ![r] = "idle"]
    /\ op' = [op EXCEPT ![r] = None]
    /\ attempts' = [attempts EXCEPT ![r] = 0]

\* The checks before the transaction.
Send(r, o) ==
    /\ pc[r] = "idle"
    /\ o.do = "add" => o.blocked # o.blocking /\ MayAdd(o)
    /\ pc' = [pc EXCEPT ![r] = "waiting"]
    /\ op' = [op EXCEPT ![r] = o]
    /\ UNCHANGED <<life, edge, holder, attempts, search>>

Lock(r) ==
    /\ pc[r] = "waiting"
    /\ holder = None
    /\ holder' = r
    /\ pc' = [pc EXCEPT ![r] = "locked"]
    /\ UNCHANGED <<life, edge, op, attempts, search>>

\* Seeded fault: it tries again for ever.
LockUnavailableAgain(r) ==
    /\ pc[r] = "waiting"
    /\ holder # None
    /\ UNCHANGED vars

\* The lock is held elsewhere: a pause and another attempt, or StructureBusyError.
LockUnavailable(r) ==
    /\ pc[r] = "waiting"
    /\ holder # None
    /\ IF attempts[r] + 1 = MaxAttempts
       THEN Leaves(r)
       ELSE /\ attempts' = [attempts EXCEPT ![r] = @ + 1]
            /\ UNCHANGED <<pc, op>>
    /\ UNCHANGED <<life, edge, holder, search>>

\* COMMIT or ROLLBACK: the lock goes with the transaction.
Ends(r) ==
    /\ holder' = None
    /\ Leaves(r)
    /\ seen' = {} /\ frontier' = {} /\ depth' = 0

\* A check fails under the lock, the transaction is cancelled after its timeout or
\* the process stops: nothing is written.
Rollback(r) ==
    /\ holder = r
    /\ Ends(r)
    /\ UNCHANGED <<life, edge>>

\* Seeded fault: what was checked before the lock is taken as still true.
StartSearchUnchecked(r) ==
    /\ pc[r] = "locked"
    /\ op[r].do = "add"
    /\ pc' = [pc EXCEPT ![r] = "searching"]
    /\ seen' = {op[r].blocked} /\ frontier' = {op[r].blocked} /\ depth' = 0
    /\ UNCHANGED <<life, edge, holder, op, attempts>>

\* collectEdges starts once the checks were made again.
StartSearch(r) ==
    /\ pc[r] = "locked"
    /\ op[r].do = "add"
    /\ MayAdd(op[r])
    /\ pc' = [pc EXCEPT ![r] = "searching"]
    /\ seen' = {op[r].blocked} /\ frontier' = {op[r].blocked} /\ depth' = 0
    /\ UNCHANGED <<life, edge, holder, op, attempts>>

\* Seeded fault: only the direct successors are looked at.
SearchLevelOnce(r) ==
    /\ pc[r] = "searching"
    /\ frontier # {} /\ depth < MaxDepth
    /\ seen' = seen \cup {e[2] : e \in {d \in edge : d[1] \in frontier}}
    /\ frontier' = {}
    /\ depth' = depth + 1
    /\ UNCHANGED <<life, edge, holder, pc, op, attempts>>

\* One level, one query: the tasks blocked by those of the last level.
SearchLevel(r) ==
    /\ pc[r] = "searching"
    /\ frontier # {} /\ depth < MaxDepth
    /\ LET rows == {e[2] : e \in {d \in edge : d[1] \in frontier}}
       IN  /\ frontier' = rows \ seen
           /\ seen' = seen \cup rows
    /\ depth' = depth + 1
    /\ UNCHANGED <<life, edge, holder, pc, op, attempts>>

SearchEnded == frontier = {} \/ depth = MaxDepth

\* wouldCreateCycle follows the edges collected from the blocked task, which lead
\* to the tasks seen.
WouldCreateCycle(o) == o.blocking \in seen

\* createMany with skipDuplicates.
AddDependency(r) ==
    /\ pc[r] = "searching"
    /\ SearchEnded
    /\ ~WouldCreateCycle(op[r])
    /\ edge' = edge \cup {<<op[r].blocking, op[r].blocked>>}
    /\ UNCHANGED life
    /\ Ends(r)

\* Seeded fault: erasing a task leaves the dependencies it is blocked by.
StructuralKeepingEdges(r) ==
    /\ pc[r] = "locked"
    /\ LET o == op[r] IN
          \/ o.do = "create" /\ Graph!Create(o.task)
          \/ o.do = "trash" /\ Graph!Trash(o.task)
          \/ o.do = "restore" /\ Graph!Restore(o.task)
          \/ /\ o.do = "purge"
             /\ life[o.task] = "trashed"
             /\ life' = [life EXCEPT ![o.task] = "gone"]
             /\ edge' = {e \in edge : e[1] # o.task}
          \/ o.do = "copy" /\ Graph!CopyProject(o.copies)
    /\ Ends(r)

\* The others do all they do in one transaction, under the lock.
Structural(r) ==
    /\ pc[r] = "locked"
    /\ LET o == op[r] IN
          \/ o.do = "create" /\ Graph!Create(o.task)
          \/ o.do = "trash" /\ Graph!Trash(o.task)
          \/ o.do = "restore" /\ Graph!Restore(o.task)
          \/ o.do = "purge" /\ Graph!Purge(o.task)
          \/ o.do = "copy" /\ Graph!CopyProject(o.copies)
    /\ Ends(r)

\* No lock: one DELETE, whatever became of the task since the right was checked.
RemoveDependency(e) ==
    /\ e \in edge
    /\ Graph!Remove(e)
    /\ UNCHANGED <<holder, pc, op, attempts, search>>

Step(r) ==
    \/ Lock(r) \/ LockUnavailable(r)
    \/ StartSearch(r) \/ SearchLevel(r) \/ AddDependency(r)
    \/ Structural(r) \/ Rollback(r)

Next ==
    \/ \E r \in Request : Step(r) \/ \E o \in Op : Send(r, o)
    \/ \E e \in edge : RemoveDependency(e)

Spec == Init /\ [][Next]_vars

(***************************************************************************)
(* Properties                                                              *)
(***************************************************************************)

\* The transaction that works under the lock is the one that holds it.
LockIsExclusive == \A r \in Request : pc[r] \in {"locked", "searching"} <=> holder = r

\* While a request searches, the tasks seen are closed under the dependencies of
\* now, those of the last level apart: only removals can have come in between.
SeenIsClosed ==
    \A r \in Request : pc[r] = "searching" =>
        /\ op[r].do = "add" /\ op[r].blocked \in seen
        /\ \A e \in edge : e[1] \in seen \ frontier => e[2] \in seen

\* Between its levels a search stays true of a graph that others make smaller.
SearchInv == TypeOK /\ LockIsExclusive /\ SeenIsClosed

\* addDependency joins two tasks that are active when it writes, although they may
\* have been trashed or purged after its first checks.
DependencyOfActiveTasks ==
    [][\A e \in edge' \ edge : life'[e[1]] = "active" /\ life'[e[2]] = "active"]_vars

\* Refinement: a graph changed one step at a time that never has a loop, although
\* opposite dependencies are added at the same time.
Implements == Graph!Spec

\* With every query answered, a request ends, done or refused, whoever holds the lock.
FairSpec == Spec /\ \A r \in Request : WF_vars(Step(r))
EveryRequestEnds == \A r \in Request : pc[r] = "waiting" ~> pc[r] = "idle"
=============================================================================
