--------------------------- MODULE DependencyGraph ---------------------------
(***************************************************************************)
(* What the dependencies of tasks promise: a graph that operations change  *)
(* in one step each and that never has a loop.  Dependencies, where a      *)
(* request takes the structure lock, searches and writes, implements it.   *)
(***************************************************************************)
CONSTANT Task

VARIABLES
    life,   \* state of the row of each task
    edge    \* rows of task_dependencies: <<blocking, blocked>>

gvars == <<life, edge>>

\* "unborn" is a row not inserted yet, "gone" a row erased.
Life == {"unborn", "active", "trashed", "gone"}

GraphTypeOK ==
    /\ life \in [Task -> Life]
    /\ edge \subseteq Task \X Task

\* E has no loop: every set of tasks has one that blocks none of the set.
Loopless(E) ==
    \A S \in SUBSET Task : S # {} => \E x \in S : \A y \in S : <<x, y>> \notin E

\* A chain of dependencies never comes back to its first task (addDependency
\* refuses "les boucles et l'auto-dépendance").
NoLoop == Loopless(edge)

Init ==
    /\ life = [t \in Task |-> "unborn"]
    /\ edge = {}

Create(t) ==
    /\ life[t] = "unborn"
    /\ life' = [life EXCEPT ![t] = "active"]
    /\ UNCHANGED edge

Add(blocking, blocked) ==
    /\ life[blocking] = "active" /\ life[blocked] = "active"
    /\ Loopless(edge \cup {<<blocking, blocked>>})
    /\ edge' = edge \cup {<<blocking, blocked>>}
    /\ UNCHANGED life

Remove(e) ==
    /\ edge' = edge \ {e}
    /\ UNCHANGED life

Trash(t) ==
    /\ life[t] = "active"
    /\ life' = [life EXCEPT ![t] = "trashed"]
    /\ UNCHANGED edge

Restore(t) ==
    /\ life[t] = "trashed"
    /\ life' = [life EXCEPT ![t] = "active"]
    /\ UNCHANGED edge

\* ON DELETE CASCADE on both columns.
Without(E, t) == {e \in E : e[1] # t /\ e[2] # t}

Purge(t) ==
    /\ life[t] = "trashed"
    /\ life' = [life EXCEPT ![t] = "gone"]
    /\ edge' = Without(edge, t)

\* The dependencies of a copied project are those between its tasks, carried to
\* the copies.
Carried(E, f) ==
    {<<f[e[1]], f[e[2]]>> : e \in {d \in E : d[1] \in DOMAIN f /\ d[2] \in DOMAIN f}}

\* f gives the copy of each active task of the project.
CopyProject(f) ==
    /\ \A t \in DOMAIN f : life[t] = "active" /\ life[f[t]] = "unborn"
    /\ \A t, u \in DOMAIN f : f[t] = f[u] => t = u
    /\ life' = [t \in Task |-> IF \E u \in DOMAIN f : f[u] = t THEN "active" ELSE life[t]]
    /\ edge' = edge \cup Carried(edge, f)

Next ==
    \/ \E t \in Task : Create(t) \/ Trash(t) \/ Restore(t) \/ Purge(t)
    \/ \E a, b \in Task : Add(a, b)
    \/ \E e \in edge : Remove(e)
    \/ \E S \in SUBSET Task : \E f \in [S -> Task] : CopyProject(f)

Spec == Init /\ [][Next]_gvars
=============================================================================
