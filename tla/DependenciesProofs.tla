-------------------------- MODULE DependenciesProofs --------------------------
(***************************************************************************)
(* Proofs about Dependencies, for any number of tasks, requests, attempts  *)
(* and, where the depth of the search matters, for a search deep enough.   *)
(*                                                                         *)
(* The search of a request spans several queries.  It stays right because  *)
(* everything that adds a dependency holds the lock: what it has seen is   *)
(* closed under the dependencies of now, the last level apart.             *)
(***************************************************************************)
EXTENDS Dependencies, FiniteSetTheorems, TLAPS

-----------------------------------------------------------------------------
(* Graphs.                                                                 *)

\* Linking a to b makes no loop when a set holds b and everything b blocks but
\* not a (the set of tasks collectEdges has seen).
LEMMA LinkKeepsLoopless ==
    ASSUME NEW E, NEW a, NEW b, NEW C \in SUBSET Task,
           Graph!Loopless(E), b \in C, a \notin C,
           \A x, y \in Task : <<x, y>> \in E /\ x \in C => y \in C
    PROVE  Graph!Loopless(E \cup {<<a, b>>})
<1> SUFFICES ASSUME NEW S \in SUBSET Task, S # {}
             PROVE  \E x \in S : \A y \in S : <<x, y>> \notin E \cup {<<a, b>>}
  BY DEF Graph!Loopless
<1>1. CASE S \cap C # {}
  <2>1. PICK x \in S \cap C : \A y \in S \cap C : <<x, y>> \notin E
    BY <1>1 DEF Graph!Loopless
  <2>2. \A y \in S : <<x, y>> \notin E
    BY <2>1
  <2> QED BY <2>1, <2>2
<1>2. CASE S \cap C = {}
  <2>1. PICK x \in S : \A y \in S : <<x, y>> \notin E
    BY DEF Graph!Loopless
  <2> QED BY <1>2, <2>1
<1> QED BY <1>1, <1>2

\* Fewer dependencies make no loop.
LEMMA FewerKeepsLoopless ==
    ASSUME NEW E, NEW F \in SUBSET E, Graph!Loopless(E)
    PROVE  Graph!Loopless(F)
<1> SUFFICES ASSUME NEW S \in SUBSET Task, S # {}
             PROVE  \E x \in S : \A y \in S : <<x, y>> \notin F
  BY DEF Graph!Loopless
<1>1. PICK x \in S : \A y \in S : <<x, y>> \notin E
  BY DEF Graph!Loopless
<1> QED BY <1>1

\* Copying tasks with the dependencies between them makes no loop when nothing was
\* linked to the copies (copyProjectContent).
LEMMA CopyKeepsLoopless ==
    ASSUME NEW E \in SUBSET (Task \X Task), Graph!Loopless(E),
           NEW D \in SUBSET Task, NEW f \in [D -> Task],
           \A t, u \in D : f[t] = f[u] => t = u,
           \A e \in E : \A t \in D : e[1] # f[t] /\ e[2] # f[t]
    PROVE  Graph!Loopless(E \cup Graph!Carried(E, f))
<1> DEFINE Copy == {f[t] : t \in D}
           E2 == Graph!Carried(E, f)
<1>1. \A x, y \in Task : <<x, y>> \in E2 =>
          \E t, u \in D : x = f[t] /\ y = f[u] /\ <<t, u>> \in E
  <2> SUFFICES ASSUME NEW x \in Task, NEW y \in Task, <<x, y>> \in E2
               PROVE  \E t, u \in D : x = f[t] /\ y = f[u] /\ <<t, u>> \in E
    OBVIOUS
  <2>1. PICK e \in E : e[1] \in D /\ e[2] \in D /\ <<x, y>> = <<f[e[1]], f[e[2]]>>
    BY DEF Graph!Carried
  <2>2. e = <<e[1], e[2]>>
    OBVIOUS
  <2>3. x = f[e[1]] /\ y = f[e[2]]
    BY <2>1
  <2>4. <<e[1], e[2]>> \in E
    BY <2>2
  <2> QED BY <2>1, <2>3, <2>4
<1> SUFFICES ASSUME NEW S \in SUBSET Task, S # {}
             PROVE  \E x \in S : \A y \in S : <<x, y>> \notin E \cup E2
  BY DEF Graph!Loopless
<1> HIDE DEF E2
<1>2. CASE S \ Copy # {}
  <2>1. PICK x \in S \ Copy : \A y \in S \ Copy : <<x, y>> \notin E
    BY <1>2 DEF Graph!Loopless
  <2>2. \A y \in Copy : <<x, y>> \notin E
    OBVIOUS
  <2>3. \A y \in Task : <<x, y>> \notin E2
    <3>1. SUFFICES ASSUME NEW y \in Task, <<x, y>> \in E2
                   PROVE  FALSE
      OBVIOUS
    <3>2. \E t \in D : x = f[t]
      BY <1>1, <3>1, x \in Task, Zenon
    <3> QED BY <2>1, <3>2
  <2> QED BY <2>1, <2>2, <2>3
<1>3. CASE S \subseteq Copy
  <2> DEFINE T == {t \in D : f[t] \in S}
  <2>1. T # {} /\ T \in SUBSET Task
    BY <1>3
  <2>2. PICK t \in T : \A u \in T : <<t, u>> \notin E
    BY <2>1 DEF Graph!Loopless
  <2>3. \A y \in S : <<f[t], y>> \notin E2
    <3>1. SUFFICES ASSUME NEW y \in S, <<f[t], y>> \in E2
                   PROVE  FALSE
      OBVIOUS
    <3>2. PICK v, u \in D : f[t] = f[v] /\ y = f[u] /\ <<v, u>> \in E
      BY <1>1, <3>1, f[t] \in Task, y \in Task, Zenon
    <3> QED BY <2>2, <3>2
  <2>4. \A y \in S : <<f[t], y>> \notin E
    OBVIOUS
  <2> QED BY <2>2, <2>3, <2>4
<1> QED BY <1>2, <1>3
-----------------------------------------------------------------------------
(* The search.                                                             *)

\* What a request sends is one operation, told by its name.
LEMMA AddHasEnds ==
    ASSUME NEW o \in Op, o.do = "add"
    PROVE  o.blocking \in Task /\ o.blocked \in Task
BY DEF Op, AddOp, OtherOp

\* The operation of a lock holder that is no addition keeps the types, and adds no
\* dependency but those of a copy.
LEMMA StructuralStep ==
    ASSUME TypeOK, NEW r \in Request, Structural(r)
    PROVE  /\ Graph!GraphTypeOK'
           /\ Graph!Next
           /\ Ends(r)
<1>1. op[r] \in Op
  BY DEF TypeOK, Structural
<1>2. CASE \E t \in Task : Graph!Create(t) \/ Graph!Trash(t) \/ Graph!Restore(t) \/ Graph!Purge(t)
  <2>1. Graph!GraphTypeOK'
    BY <1>2 DEF TypeOK, Graph!GraphTypeOK, Graph!Create, Graph!Trash, Graph!Restore,
                Graph!Purge, Graph!Without, Graph!Life
  <2>2. Graph!Next
    BY <1>2 DEF Graph!Next
  <2> QED BY <2>1, <2>2 DEF Structural
<1>3. CASE op[r].do = "copy" /\ Graph!CopyProject(op[r].copies)
  <2>1. PICK S \in SUBSET Task : op[r].copies \in [S -> Task]
    BY <1>1, <1>3 DEF Op, AddOp, OtherOp
  <2>2. life' \in [Task -> Graph!Life]
    BY <1>3 DEF TypeOK, Graph!GraphTypeOK, Graph!CopyProject, Graph!Life
  <2>3. Graph!Carried(edge, op[r].copies) \subseteq Task \X Task
    BY <2>1 DEF Graph!Carried
  <2>4. Graph!GraphTypeOK'
    BY <1>3, <2>2, <2>3 DEF TypeOK, Graph!GraphTypeOK, Graph!CopyProject
  <2>5. Graph!Next
    BY <1>3, <2>1 DEF Graph!Next
  <2> QED BY <2>4, <2>5 DEF Structural
<1>4. op[r].do # "add" /\ op[r].do # "copy" => op[r].task \in Task
  BY <1>1 DEF Op, AddOp, OtherOp
<1> QED BY <1>2, <1>3, <1>4 DEF Structural

\* What holds while requests search, steps and refusals included.
LEMMA SearchStep ==
    ASSUME SearchInv, [Next]_vars
    PROVE  SearchInv'
<1> USE DependenciesAssumption DEF SearchInv, Graph!GraphTypeOK
<1> DEFINE Rest ==
      /\ holder' \in Request \cup {None}
      /\ pc' \in [Request -> {"idle", "waiting", "locked", "searching"}]
      /\ op' \in [Request -> Op \cup {None}]
      /\ \A q \in Request : pc'[q] # "idle" => op'[q] \in Op
      /\ attempts' \in [Request -> Nat]
      /\ seen' \subseteq Task /\ frontier' \subseteq seen' /\ depth' \in Nat
      /\ LockIsExclusive'
<1>1. ASSUME NEW r \in Request, Ends(r), holder = r
      PROVE  Rest /\ SeenIsClosed'
  BY <1>1 DEF Ends, Leaves, TypeOK, LockIsExclusive, SeenIsClosed
<1>2. ASSUME NEW r \in Request, NEW o \in Op, Send(r, o)
      PROVE  SearchInv'
  BY <1>2 DEF Send, TypeOK, LockIsExclusive, SeenIsClosed, search
<1>3. ASSUME NEW r \in Request, Lock(r)
      PROVE  SearchInv'
  BY <1>3 DEF Lock, TypeOK, LockIsExclusive, SeenIsClosed, search
<1>4. ASSUME NEW r \in Request, LockUnavailable(r)
      PROVE  SearchInv'
  BY <1>4 DEF LockUnavailable, Leaves, TypeOK, LockIsExclusive, SeenIsClosed, search
<1>5. ASSUME NEW r \in Request, StartSearch(r)
      PROVE  SearchInv'
  <2>1. op[r].blocked \in Task
    BY <1>5, AddHasEnds DEF StartSearch, TypeOK
  <2> QED BY <1>5, <2>1 DEF StartSearch, TypeOK, LockIsExclusive, SeenIsClosed
<1>6. ASSUME NEW r \in Request, SearchLevel(r)
      PROVE  SearchInv'
  <2> DEFINE rows == {e[2] : e \in {d \in edge : d[1] \in frontier}}
  <2>1. rows \subseteq Task
    BY DEF TypeOK
  <2>2. \A e \in edge : e[1] \in frontier => e[2] \in rows
    OBVIOUS
  <2>3. seen' = seen \cup rows /\ frontier' = rows \ seen
    BY <1>6 DEF SearchLevel
  <2> HIDE DEF rows
  <2>4. SeenIsClosed'
    BY <1>6, <2>2, <2>3 DEF SearchLevel, SeenIsClosed, LockIsExclusive
  <2> QED BY <1>6, <2>1, <2>3, <2>4 DEF SearchLevel, TypeOK, LockIsExclusive
<1>7. ASSUME NEW r \in Request, AddDependency(r)
      PROVE  SearchInv'
  <2>1. op[r].blocking \in Task /\ op[r].blocked \in Task /\ holder = r
    BY <1>7, AddHasEnds DEF AddDependency, TypeOK, SeenIsClosed, LockIsExclusive
  <2>2. Graph!GraphTypeOK'
    BY <1>7, <2>1 DEF AddDependency, TypeOK
  <2> QED BY <1>1, <1>7, <2>1, <2>2 DEF AddDependency, TypeOK
<1>8. ASSUME NEW r \in Request, Structural(r)
      PROVE  SearchInv'
  <2>1. Graph!GraphTypeOK' /\ Ends(r)
    BY <1>8, StructuralStep
  <2>2. holder = r
    BY <1>8 DEF Structural, LockIsExclusive
  <2> QED BY <1>1, <2>1, <2>2 DEF TypeOK
<1>9. ASSUME NEW r \in Request, Rollback(r)
      PROVE  SearchInv'
  BY <1>1, <1>9 DEF Rollback, TypeOK
<1>10. ASSUME NEW e \in edge, RemoveDependency(e)
       PROVE  SearchInv'
  BY <1>10 DEF RemoveDependency, Graph!Remove, TypeOK, LockIsExclusive, SeenIsClosed, search
<1>11. CASE UNCHANGED vars
  BY <1>11 DEF vars, TypeOK, LockIsExclusive, SeenIsClosed
<1> QED BY <1>2, <1>3, <1>4, <1>5, <1>6, <1>7, <1>8, <1>9, <1>10, <1>11 DEF Next, Step

\* A search stays true of a graph that others make smaller between its levels.
THEOREM SearchCorrect == Spec => []SearchInv
<1>1. Init => SearchInv
  BY DependenciesAssumption DEF Init, SearchInv, TypeOK, LockIsExclusive, SeenIsClosed,
     Graph!Init, Graph!GraphTypeOK, Graph!Life
<1> QED BY <1>1, SearchStep, PTL DEF Spec
-----------------------------------------------------------------------------
(* The tasks of a dependency exist, and those of a new one are active.      *)

EdgesJoinRows == \A e \in edge : life[e[1]] \in {"active", "trashed"} /\ life[e[2]] \in {"active", "trashed"}

\* The checks made under the lock stay true while it is held.
CheckedUnderLock == \A r \in Request : pc[r] = "searching" => MayAdd(op[r])

RowInv == SearchInv /\ EdgesJoinRows /\ CheckedUnderLock

LEMMA RowStep ==
    ASSUME RowInv, [Next]_vars
    PROVE  RowInv'
<1> USE DEF RowInv
<1>0. SearchInv'
  BY SearchStep
<1> USE DEF EdgesJoinRows, CheckedUnderLock, MayAdd, Active
<1>1. ASSUME UNCHANGED <<life, edge>>, \A r \in Request : pc'[r] = "searching" => pc[r] = "searching" /\ op'[r] = op[r]
      PROVE  RowInv'
  BY <1>0, <1>1
<1>2. ASSUME NEW r \in Request,
             (\E o \in Op : Send(r, o)) \/ Lock(r) \/ LockUnavailable(r) \/ SearchLevel(r)
      PROVE  RowInv'
  BY <1>1, <1>2, DependenciesAssumption DEF SearchInv, TypeOK, Send, Lock, LockUnavailable, Leaves, SearchLevel
<1>3. ASSUME NEW r \in Request, StartSearch(r)
      PROVE  RowInv'
  BY <1>0, <1>3 DEF StartSearch, SearchInv, TypeOK, LockIsExclusive
<1>4. ASSUME NEW r \in Request, Ends(r), holder = r
      PROVE  \A q \in Request : pc'[q] # "searching"
  BY <1>4 DEF Ends, Leaves, SearchInv, TypeOK, LockIsExclusive
<1>5. ASSUME NEW r \in Request, AddDependency(r)
      PROVE  RowInv'
  <2>1. holder = r
    BY <1>5 DEF AddDependency, SearchInv, LockIsExclusive
  <2> QED BY <1>0, <1>4, <1>5, <2>1 DEF AddDependency
<1>6. ASSUME NEW r \in Request, Structural(r)
      PROVE  RowInv'
  <2>1. holder = r /\ Ends(r)
    BY <1>6 DEF Structural, SearchInv, LockIsExclusive
  <2>2. op[r] \in Op
    BY <1>6 DEF Structural, SearchInv, TypeOK
  <2>3. life \in [Task -> Graph!Life] /\ edge \subseteq Task \X Task
    BY DEF SearchInv, TypeOK, Graph!GraphTypeOK
  <2>4. CASE op[r].do = "copy" /\ Graph!CopyProject(op[r].copies)
    <3>1. PICK S \in SUBSET Task : op[r].copies \in [S -> Task]
      BY <2>2, <2>4 DEF Op, AddOp, OtherOp
    <3>2. \A e \in edge : life'[e[1]] = life[e[1]] /\ life'[e[2]] = life[e[2]]
      BY <2>3, <2>4, <3>1 DEF Graph!CopyProject
    <3>3. \A e \in Graph!Carried(edge, op[r].copies) : life'[e[1]] = "active" /\ life'[e[2]] = "active"
      BY <2>3, <2>4, <3>1 DEF Graph!CopyProject, Graph!Carried
    <3>4. EdgesJoinRows'
      BY <2>4, <3>2, <3>3 DEF Graph!CopyProject
    <3> QED BY <1>0, <1>4, <2>1, <3>4
  <2>5. op[r].do # "add" /\ op[r].do # "copy" => op[r].task \in Task
    BY <2>2 DEF Op, AddOp, OtherOp
  <2>6. CASE \E t \in Task : Graph!Create(t) \/ Graph!Trash(t) \/ Graph!Restore(t) \/ Graph!Purge(t)
    <3>1. EdgesJoinRows'
      BY <2>3, <2>6 DEF Graph!Create, Graph!Trash, Graph!Restore, Graph!Purge, Graph!Without
    <3> QED BY <1>0, <1>4, <2>1, <3>1
  <2> QED BY <1>6, <2>4, <2>5, <2>6 DEF Structural
<1>7. ASSUME NEW r \in Request, Rollback(r)
      PROVE  RowInv'
  BY <1>0, <1>4, <1>7 DEF Rollback
<1>8. ASSUME NEW e \in edge, RemoveDependency(e)
      PROVE  RowInv'
  BY <1>0, <1>8 DEF RemoveDependency, Graph!Remove
<1>9. CASE UNCHANGED vars
  BY <1>1, <1>9 DEF vars
<1> QED BY <1>2, <1>3, <1>5, <1>6, <1>7, <1>8, <1>9 DEF Next, Step

LEMMA RowInvHolds == Spec => []RowInv
<1>1. Init => RowInv
  <2> SUFFICES ASSUME Init PROVE RowInv
    OBVIOUS
  <2>1. SearchInv
    BY DependenciesAssumption DEF Init, SearchInv, TypeOK, LockIsExclusive, SeenIsClosed,
       Graph!Init, Graph!GraphTypeOK, Graph!Life
  <2> QED BY <2>1 DEF Init, Graph!Init, RowInv, EdgesJoinRows, CheckedUnderLock
<1> QED BY <1>1, RowStep, PTL DEF Spec

\* A dependency is added between tasks that are active at that moment, although they
\* were checked several queries before.
THEOREM AddedBetweenActive == Spec => DependencyOfActiveTasks
<1>1. RowInv /\ [Next]_vars => [\A e \in edge' \ edge : life'[e[1]] = "active" /\ life'[e[2]] = "active"]_vars
  <2> SUFFICES ASSUME RowInv, Next, NEW e \in edge' \ edge
               PROVE  life'[e[1]] = "active" /\ life'[e[2]] = "active"
    BY DEF vars
  <2>1. CASE \E r \in Request : AddDependency(r)
    BY <2>1 DEF AddDependency, RowInv, CheckedUnderLock, MayAdd, Active
  <2>2. CASE \E r \in Request : Structural(r)
    <3>1. PICK r \in Request : Structural(r)
      BY <2>2
    <3>2. op[r].do = "copy" /\ Graph!CopyProject(op[r].copies)
      BY <3>1 DEF Structural, Graph!Create, Graph!Trash, Graph!Restore, Graph!Purge, Graph!Without
    <3>3. PICK S \in SUBSET Task : op[r].copies \in [S -> Task]
      BY <3>1, <3>2 DEF Structural, RowInv, SearchInv, TypeOK, Op, AddOp, OtherOp
    <3> QED BY <3>2, <3>3 DEF Graph!CopyProject, Graph!Carried, RowInv, SearchInv, TypeOK, Graph!GraphTypeOK
  <2> QED BY <2>1, <2>2 DEF Next, Step, Send, Lock, LockUnavailable, StartSearch, SearchLevel,
             Rollback, RemoveDependency, Graph!Remove
<1> QED BY <1>1, RowInvHolds, PTL DEF Spec, DependencyOfActiveTasks
-----------------------------------------------------------------------------
(* A search deep enough for the tasks there are sees all it has to see.  A  *)
(* chain of MaxDepth + 1 tasks is the longest whose end it loads.           *)

DeepEnough == IsFiniteSet(Task) /\ Cardinality(Task) <= MaxDepth + 1

\* Every level that does not end the search has seen another task.
DepthCounts ==
    \A r \in Request : pc[r] = "searching" =>
        Cardinality(seen) >= depth + (IF frontier = {} THEN 0 ELSE 1)

DepthInv == RowInv /\ DepthCounts

LEMMA DepthStep ==
    ASSUME DeepEnough, DepthInv, [Next]_vars
    PROVE  DepthInv'
<1> USE DEF DepthInv, DepthCounts, RowInv
<1>0. RowInv'
  BY RowStep
<1>1. ASSUME NEW r \in Request, StartSearch(r)
      PROVE  DepthInv'
  <2>1. Cardinality(seen') = 1
    BY <1>1, FS_Singleton DEF StartSearch
  <2> QED BY <1>0, <1>1, <2>1 DEF StartSearch
<1>2. ASSUME NEW r \in Request, SearchLevel(r)
      PROVE  DepthInv'
  <2>1. /\ seen \subseteq Task /\ seen' \subseteq Task /\ depth \in Nat
        /\ seen \subseteq seen' /\ frontier' = seen' \ seen /\ depth' = depth + 1
    BY <1>0, <1>2 DEF SearchLevel, SearchInv, TypeOK
  <2>2. /\ IsFiniteSet(seen) /\ IsFiniteSet(seen')
        /\ Cardinality(seen) \in Nat /\ Cardinality(seen') \in Nat
    BY <2>1, FS_Subset, FS_CardinalityType DEF DeepEnough
  <2>3. Cardinality(seen) >= depth + 1
    BY <1>2 DEF SearchLevel
  <2>4. /\ Cardinality(seen) <= Cardinality(seen')
        /\ frontier' # {} => Cardinality(seen) # Cardinality(seen')
    BY <2>1, <2>2, FS_Subset
  <2>5. Cardinality(seen') >= depth' + (IF frontier' = {} THEN 0 ELSE 1)
    BY <2>1, <2>2, <2>3, <2>4
  <2> QED BY <1>0, <2>5
<1>3. ASSUME NEW r \in Request, (\E o \in Op : Send(r, o)) \/ Lock(r) \/ LockUnavailable(r)
      PROVE  DepthInv'
  BY <1>0, <1>3 DEF Send, Lock, LockUnavailable, Leaves, search, SearchInv, TypeOK
<1>4. ASSUME NEW r \in Request, AddDependency(r) \/ Structural(r) \/ Rollback(r)
      PROVE  DepthInv'
  <2>1. Ends(r) /\ holder = r
    BY <1>4 DEF AddDependency, Structural, Rollback, SearchInv, LockIsExclusive
  <2>2. \A q \in Request : pc'[q] # "searching"
    BY <2>1 DEF Ends, Leaves, SearchInv, TypeOK, LockIsExclusive
  <2> QED BY <1>0, <2>2
<1>5. CASE (\E e \in edge : RemoveDependency(e)) \/ UNCHANGED vars
  BY <1>0, <1>5 DEF RemoveDependency, search, vars
<1> QED BY <1>1, <1>2, <1>3, <1>4, <1>5 DEF Next, Step

\* When the search ends without having met the blocking task, the tasks seen are all
\* that the blocked one blocks, directly or not.
LEMMA SearchSeesAll ==
    ASSUME DeepEnough, DepthInv, NEW r \in Request, pc[r] = "searching", SearchEnded
    PROVE  \A x, y \in Task : <<x, y>> \in edge /\ x \in seen => y \in seen
<1> USE DEF DepthInv, RowInv, SearchInv
<1>1. CASE frontier = {}
  BY <1>1 DEF SeenIsClosed
<1>2. CASE frontier # {}
  <2>1. depth = MaxDepth /\ Cardinality(seen) >= depth + 1
    BY <1>2 DEF SearchEnded, DepthCounts
  <2>2. /\ Cardinality(seen) <= Cardinality(Task)
        /\ Cardinality(seen) = Cardinality(Task) => seen = Task
        /\ Cardinality(seen) \in Nat /\ Cardinality(Task) \in Nat
    BY FS_Subset, FS_CardinalityType DEF DeepEnough, TypeOK
  <2>3. seen = Task
    BY <2>1, <2>2, DependenciesAssumption DEF DeepEnough
  <2> QED BY <2>3
<1> QED BY <1>1, <1>2

LoopInv == DepthInv /\ Graph!NoLoop

LEMMA LoopStep ==
    ASSUME DeepEnough, LoopInv, [Next]_vars
    PROVE  LoopInv' /\ [Graph!Next]_(Graph!gvars)
<1> USE DEF LoopInv, Graph!NoLoop, Graph!gvars
<1>0. DepthInv'
  BY DepthStep
<1>1. edge \subseteq Task \X Task /\ life \in [Task -> Graph!Life]
  BY DEF DepthInv, RowInv, SearchInv, TypeOK, Graph!GraphTypeOK
<1>2. CASE UNCHANGED <<life, edge>>
  BY <1>0, <1>2
<1>3. ASSUME NEW r \in Request, AddDependency(r)
      PROVE  LoopInv' /\ Graph!Next
  <2> DEFINE a == op[r].blocking
             b == op[r].blocked
  <2>1. a \in Task /\ b \in Task /\ b \in seen /\ seen \in SUBSET Task
    BY <1>3, AddHasEnds DEF AddDependency, DepthInv, RowInv, SearchInv, SeenIsClosed, TypeOK
  <2>2. a \notin seen /\ edge' = edge \cup {<<a, b>>} /\ UNCHANGED life
    BY <1>3 DEF AddDependency, WouldCreateCycle
  <2>3. life[a] = "active" /\ life[b] = "active"
    BY <1>3 DEF AddDependency, DepthInv, RowInv, CheckedUnderLock, MayAdd, Active
  <2>4. \A x, y \in Task : <<x, y>> \in edge /\ x \in seen => y \in seen
    BY <1>3, SearchSeesAll DEF AddDependency
  <2> HIDE DEF a, b
  <2>5. Graph!Loopless(edge \cup {<<a, b>>})
    BY <2>1, <2>2, <2>4, LinkKeepsLoopless
  <2>6. Graph!Add(a, b)
    BY <2>2, <2>3, <2>5 DEF Graph!Add
  <2> QED BY <1>0, <2>1, <2>2, <2>5, <2>6 DEF Graph!Next
<1>4. ASSUME NEW r \in Request, Structural(r)
      PROVE  LoopInv' /\ Graph!Next
  <2>1. Graph!Next
    BY <1>4, StructuralStep DEF DepthInv, RowInv, SearchInv
  <2>2. CASE op[r].do = "copy" /\ Graph!CopyProject(op[r].copies)
    <3>1. PICK S \in SUBSET Task : op[r].copies \in [S -> Task]
      BY <1>4, <2>2 DEF Structural, DepthInv, RowInv, SearchInv, TypeOK, Op, AddOp, OtherOp
    <3> DEFINE f == op[r].copies
    <3>2. \A e \in edge : \A t \in S : e[1] # f[t] /\ e[2] # f[t]
      BY <2>2, <3>1 DEF Graph!CopyProject, DepthInv, RowInv, EdgesJoinRows
    <3>3. \A t, u \in S : f[t] = f[u] => t = u
      BY <2>2, <3>1 DEF Graph!CopyProject
    <3>4. Graph!Loopless(edge \cup Graph!Carried(edge, f))
      BY <1>1, <3>1, <3>2, <3>3, CopyKeepsLoopless
    <3> QED BY <1>0, <2>1, <2>2, <3>4 DEF Graph!CopyProject
  <2>3. CASE op[r].do # "copy"
    <3>1. edge' \subseteq edge
      BY <1>4, <2>3 DEF Structural, Graph!Create, Graph!Trash, Graph!Restore, Graph!Purge, Graph!Without
    <3> QED BY <1>0, <2>1, <3>1, FewerKeepsLoopless
  <2> QED BY <1>4, <2>2, <2>3 DEF Structural
<1>5. ASSUME NEW e \in edge, RemoveDependency(e)
      PROVE  LoopInv' /\ Graph!Next
  <2>1. edge' \subseteq edge
    BY <1>5 DEF RemoveDependency, Graph!Remove
  <2> QED BY <1>0, <1>5, <2>1, FewerKeepsLoopless DEF RemoveDependency, Graph!Next
<1> QED BY <1>2, <1>3, <1>4, <1>5 DEF Next, Step, Send, Lock, LockUnavailable, StartSearch,
           SearchLevel, Rollback, vars

LEMMA LoopInit == Init => LoopInv
<1> SUFFICES ASSUME Init PROVE LoopInv
  OBVIOUS
<1>1. SearchInv
  BY DependenciesAssumption DEF Init, SearchInv, TypeOK, LockIsExclusive, SeenIsClosed,
     Graph!Init, Graph!GraphTypeOK, Graph!Life
<1>2. DepthInv
  BY <1>1 DEF Init, Graph!Init, DepthInv, RowInv, EdgesJoinRows, CheckedUnderLock, DepthCounts
<1> QED BY <1>2 DEF Init, Graph!Init, LoopInv, Graph!NoLoop, Graph!Loopless

\* No chain of dependencies comes back to its first task, whatever requests add,
\* remove, trash, erase and copy at the same time.
THEOREM NoLoops == ASSUME DeepEnough PROVE Spec => []Graph!NoLoop
<1>1. LoopInv /\ [Next]_vars => LoopInv'
  BY LoopStep
<1>2. LoopInv => Graph!NoLoop
  BY DEF LoopInv
<1> QED BY <1>1, <1>2, LoopInit, PTL DEF Spec

\* Requests that search and write under the lock behave as a graph changed one step at
\* a time.
THEOREM Refinement == ASSUME DeepEnough PROVE Spec => Implements
<1>1. LoopInv /\ [Next]_vars => LoopInv' /\ [Graph!Next]_(Graph!gvars)
  BY LoopStep
<1>2. Init => Graph!Init
  BY DEF Init
<1> QED BY <1>1, <1>2, LoopInit, PTL DEF Spec, Implements, Graph!Spec
=============================================================================
