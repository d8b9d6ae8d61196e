--------------------------------- MODULE Order ---------------------------------
(***************************************************************************)
(* The manual order of one project: its sections, the place of its tasks   *)
(* in them, and the place of the sections themselves. A place is a number; *)
(* an item dropped between two others takes the middle of their places,    *)
(* and when the gap is used up the list is numbered again.                 *)
(*                                                                         *)
(* Moves, copies and occurrences hold the structure lock from their reads  *)
(* to their write: one step. A new task reads its place before its write,  *)
(* and the deletion of a section reads the tasks to move before its        *)
(* transaction, both without the lock: two steps each. Sections are        *)
(* created and moved without a transaction; two people who do so at the    *)
(* same instant are left out, and so is the order of the subtasks of a     *)
(* task (moveSubtask).                                                     *)
(***************************************************************************)
EXTENDS Integers, FiniteSets, Sequences

CONSTANTS
    Item,           \* tasks the project may hold
    Section,
    Nil,            \* « Sans section »; also: no neighbour, nothing in progress
    Out,            \* section of a task the project does not hold
    PositionStep,   \* distance between two items of a fresh list (1024 in the code)
    SpawnOffset,    \* distance of an occurrence from its task (0.5)
    Nudge           \* distance when no place is left between two tasks (0.0001)
    \* The smallest gap that can be halved (a little over 1e-6) is 2.

ASSUME OrderAssumption ==
    /\ IsFiniteSet(Item) /\ IsFiniteSet(Section) /\ Item # {} /\ Section # {}
    /\ Nil \notin Item \cup Section \cup Int /\ Out \notin Section \cup Int \cup {Nil}
    /\ PositionStep \in Int /\ PositionStep > 1 /\ SpawnOffset \in Int /\ Nudge \in Int

VARIABLES
    section,    \* of each task, or Out
    pos,        \* place of each task in its section
    place,      \* place of each section, or Out
    creating,   \* tasks whose place has been read: [task, section, pos]
    deleting    \* deletion under way: [section, target, tasks], or Nil

orderVars == <<section, pos, place, creating, deleting>>

Sections == {s \in Section : place[s] # Out}
In(s) == {t \in Item : section[t] = s}

\* positionBetween: Nil where there is no neighbour, and as a result when the
\* gap is used up.
PositionBetween(before, after) ==
    CASE before = Nil /\ after = Nil -> PositionStep
      [] before = Nil /\ after # Nil -> after - PositionStep
      [] before # Nil /\ after = Nil -> before + PositionStep
      [] OTHER -> IF after - before > 1 THEN before + (after - before) \div 2 ELSE Nil

Largest(S)  == CHOOSE x \in S : \A y \in S : y <= x
Smallest(S) == CHOOSE x \in S : \A y \in S : x <= y

\* The place that follows x among places P, or Nil.
NextPlace(x, P) == IF \E y \in P : y > x THEN Smallest({y \in P : y > x}) ELSE Nil

Places(s) == {pos[t] : t \in In(s)}

\* nextMembershipPosition
Bottom(s) == IF In(s) = {} THEN PositionStep ELSE Largest(Places(s)) + PositionStep
Top(s)    == IF In(s) = {} THEN PositionStep ELSE Smallest(Places(s)) - PositionStep

\* Seeded fault: the rows are renumbered in the order the database returns them.
RenumberingsUnsorted(S, old) ==
    {f \in [S -> {PositionStep * i : i \in 1..Cardinality(S)}] : \A x, y \in S : x # y => f[x] # f[y]}

\* renumberSection: new places that keep the order of the old ones; items at the
\* same place are taken in any order (that of their creation).
Renumberings(S, old) ==
    {f \in [S -> {PositionStep * i : i \in 1..Cardinality(S)}] :
        \A x, y \in S : x # y => f[x] # f[y] /\ (old[x] < old[y] => f[x] < f[y])}

OrderInit ==
    /\ section = [t \in Item |-> Out]
    /\ pos = [t \in Item |-> 0]
    /\ place = [s \in Section |-> Out]
    /\ creating = {} /\ deleting = Nil

-----------------------------------------------------------------------------
(* New tasks.                                                              *)

\* createTask up to the lock: at the top, at the bottom, or after another task of
\* the project, whose section need not be the one asked.
ReadPlace(t, s, where, anchor) ==
    /\ section[t] = Out /\ \A c \in creating : c.task # t
    /\ s = Nil \/ s \in Sections
    /\ LET p == CASE where = "top" -> Top(s)
                  [] where = "after" /\ section[anchor] # Out ->
                        LET between == PositionBetween(pos[anchor], NextPlace(pos[anchor], Places(section[anchor])))
                        IN  IF between = Nil THEN pos[anchor] + Nudge ELSE between
                  [] OTHER -> Bottom(s)
       IN  creating' = creating \cup {[task |-> t, section |-> s, pos |-> p]}
    /\ UNCHANGED <<section, pos, place, deleting>>

\* The write, refused by the foreign key when the section is gone.
CreateTaskRow(c) ==
    /\ creating' = creating \ {c}
    /\ IF c.section = Nil \/ c.section \in Sections
       THEN /\ section' = [section EXCEPT ![c.task] = c.section]
            /\ pos' = [pos EXCEPT ![c.task] = c.pos]
       ELSE UNCHANGED <<section, pos>>
    /\ UNCHANGED <<place, deleting>>

\* spawnNextOccurrence
SpawnOccurrence(t, n) ==
    /\ section[t] # Out /\ section[n] = Out /\ \A c \in creating : c.task # n
    /\ section' = [section EXCEPT ![n] = section[t]]
    /\ pos' = [pos EXCEPT ![n] = pos[t] + SpawnOffset]
    /\ UNCHANGED <<place, creating, deleting>>

\* duplicateTask: under its source, or just after it when the gap is used up.
Duplicate(t, n) ==
    /\ section[t] # Out /\ section[n] = Out /\ \A c \in creating : c.task # n
    /\ section' = [section EXCEPT ![n] = section[t]]
    /\ LET between == PositionBetween(pos[t], NextPlace(pos[t], Places(section[t])))
       IN  pos' = [pos EXCEPT ![n] = IF between = Nil THEN pos[t] + Nudge ELSE between]
    /\ UNCHANGED <<place, creating, deleting>>

-----------------------------------------------------------------------------
(* Moves.                                                                  *)

\* A neighbour counts only if it is in the section of destination.
Neighbour(n, s) == IF n # Nil /\ section[n] = s THEN pos[n] ELSE Nil

MoveTo(t, s, before, after) ==
    LET b == IF before = Nil /\ after = Nil /\ In(s) \ {t} # {}
             THEN Largest({pos[x] : x \in In(s) \ {t}})
             ELSE Neighbour(before, s)
        a == Neighbour(after, s)
        p == PositionBetween(b, a)
        \* A section numbered again gives the places of the neighbours asked for.
        again(f) ==
            LET known(n) == IF n # Nil /\ n \in DOMAIN f THEN f[n] ELSE Nil
                q == PositionBetween(known(before), known(after))
            IN  IF q = Nil THEN PositionStep ELSE q
    IN  IF p # Nil
        THEN pos' = [pos EXCEPT ![t] = p]
        ELSE \E f \in Renumberings(In(s), pos) :
                pos' = [x \in Item |-> IF x = t THEN again(f) ELSE IF x \in In(s) THEN f[x] ELSE pos[x]]

\* moveTask: adds the task to the project where it was not.
MoveTaskTo(t, s, before, after) ==
    /\ s = Nil \/ s \in Sections
    /\ t \notin {before, after} /\ \A c \in creating : c.task # t
    /\ section' = [section EXCEPT ![t] = s]
    /\ UNCHANGED <<place, creating, deleting>>
    /\ MoveTo(t, s, before, after)

\* removeTaskFromProject, or the purge of the task.
LeaveProject(t) ==
    /\ section[t] # Out
    /\ section' = [section EXCEPT ![t] = Out]
    /\ pos' = [pos EXCEPT ![t] = 0]
    /\ UNCHANGED <<place, creating, deleting>>

-----------------------------------------------------------------------------
(* Sections.                                                               *)

SectionPlaces == {place[s] : s \in Sections}

\* createSection: at the end, or after another section.
CreateSection(s, anchor) ==
    /\ place[s] = Out
    /\ LET between == PositionBetween(place[anchor], NextPlace(place[anchor], SectionPlaces))
           p == CASE anchor # Nil /\ anchor \notin Sections -> PositionStep
                  [] anchor \in Sections -> IF between = Nil THEN place[anchor] + Nudge ELSE between
                  [] anchor = Nil /\ Sections = {} -> PositionStep
                  [] OTHER -> Largest(SectionPlaces) + PositionStep
       IN  place' = [place EXCEPT ![s] = p]
    /\ UNCHANGED <<section, pos, creating, deleting>>

\* moveSection: neighbours are read again after a renumbering.
MoveSection(s, before, after) ==
    /\ s \in Sections /\ s \notin {before, after}
    /\ LET at(n, f) == IF n \in Sections THEN f[n] ELSE Nil
           p == PositionBetween(at(before, place), at(after, place))
           again(f) == LET q == PositionBetween(at(before, f), at(after, f)) IN IF q = Nil THEN PositionStep ELSE q
       IN  IF p # Nil
           THEN place' = [place EXCEPT ![s] = p]
           ELSE \E f \in Renumberings(Sections, place) :
                   place' = [x \in Section |-> IF x = s THEN again(f) ELSE IF x \in Sections THEN f[x] ELSE place[x]]
    /\ UNCHANGED <<section, pos, creating, deleting>>

\* Tasks of a section in their order; tasks at the same place in any order.
Listings(s) ==
    {l \in [1..Cardinality(In(s)) -> In(s)] :
        \A i, j \in DOMAIN l : i < j => l[i] # l[j] /\ pos[l[i]] <= pos[l[j]]}

\* deleteSection up to its transaction.
ReadSection(s, target) ==
    /\ deleting = Nil
    /\ s \in Sections /\ target \in (Sections \ {s}) \cup {Nil}
    /\ \E l \in Listings(s) : deleting' = [section |-> s, target |-> target, tasks |-> l]
    /\ UNCHANGED <<section, pos, place, creating>>

\* Its transaction: refused when a section or a membership read has gone; a task
\* that came to the section since is left without one by the foreign key.
DeleteSectionRows ==
    /\ deleting # Nil
    /\ deleting' = Nil
    /\ LET d == deleting
           moved == {d.tasks[i] : i \in DOMAIN d.tasks}
           last == IF In(d.target) = {} THEN 0 ELSE Largest(Places(d.target))
           rank(t) == CHOOSE i \in DOMAIN d.tasks : d.tasks[i] = t
       IN  IF d.section \in Sections /\ (moved = {} \/ d.target \in Sections \cup {Nil})
              /\ \A t \in moved : section[t] # Out
           THEN /\ section' = [t \in Item |-> IF t \in moved THEN d.target
                                              ELSE IF section[t] = d.section THEN Nil ELSE section[t]]
                /\ pos' = [t \in Item |-> IF t \in moved THEN last + PositionStep * rank(t) ELSE pos[t]]
                /\ place' = [place EXCEPT ![d.section] = Out]
           ELSE UNCHANGED <<section, pos, place>>
    /\ UNCHANGED creating

OrderNext ==
    \/ \E t \in Item :
          \/ \E s \in Section \cup {Nil} :
                \/ \E where \in {"top", "bottom"} : ReadPlace(t, s, where, t)
                \/ \E anchor \in Item \ {t} : ReadPlace(t, s, "after", anchor)
                \/ \E before, after \in Item \cup {Nil} : MoveTaskTo(t, s, before, after)
          \/ \E n \in Item : SpawnOccurrence(t, n) \/ Duplicate(t, n)
          \/ LeaveProject(t)
    \/ \E c \in creating : CreateTaskRow(c)
    \/ \E s \in Section :
          \/ \E n \in Section \cup {Nil} : CreateSection(s, n) \/ ReadSection(s, n)
          \/ \E before, after \in Section \cup {Nil} : MoveSection(s, before, after)
    \/ DeleteSectionRows

OrderSpec == OrderInit /\ [][OrderNext]_orderVars

-----------------------------------------------------------------------------
(* Properties.                                                             *)

\* Two items in this order in list S, at places p, and still after at places q.
SameOrder(S, p, q) == \A x, y \in S : p[x] < p[y] => q[x] < q[y]

\* The item is between its neighbours among S, at places q, if they were in this order at p.
Dropped(item, before, after, S, p, q) ==
    LET b == before \in S
        a == after \in S
    IN  ~(b /\ a /\ p[before] >= p[after]) => (b => q[before] < q[item]) /\ (a => q[item] < q[after])

\* A move puts the item where it was dropped: strictly between its neighbours, after
\* the one above or before the one below when only one of them is still in the
\* section, also when the section had to be numbered again. Where a late screen
\* names them in the wrong order, nothing is promised.
LandsBetween ==
    UNCHANGED <<creating, deleting>> =>
        /\ \A t \in {x \in Item : pos'[x] # pos[x]} : \A before, after \in In(section'[t]) \cup {Nil} :
              MoveTaskTo(t, section'[t], before, after) => Dropped(t, before, after, In(section'[t]), pos, pos')
        /\ \A s \in Sections : \A before, after \in Sections \cup {Nil} :
              MoveSection(s, before, after) => Dropped(s, before, after, Sections, place, place')

PlacedBetween == [][LandsBetween]_orderVars

\* A step moves one item at most: the other tasks that stay in a section, and the
\* other sections, keep their order whatever is created, copied, moved, numbered
\* again or deleted; the tasks of a deleted section arrive in the order it had when
\* they were read, after those already at the destination.
MovesOne ==
    LET gone == {s \in Sections : place'[s] = Out}
        carried == IF gone = {} THEN {} ELSE {deleting.tasks[i] : i \in DOMAIN deleting.tasks}
    IN  /\ \E moved \in Item : \A s \in Section \cup {Nil} :
              SameOrder({t \in In(s) : section'[t] = s /\ t \notin carried \cup {moved}}, pos, pos')
        /\ \E moved \in Section : SameOrder(Sections \ (gone \cup {moved}), place, place')
        /\ gone # {} =>
              /\ \A i, j \in DOMAIN deleting.tasks :
                    i < j => pos'[deleting.tasks[i]] < pos'[deleting.tasks[j]]
              /\ \A t \in In(deleting.target) \ carried, c \in carried : pos'[t] < pos'[c]

OthersKeepTheirOrder == [][MovesOne]_orderVars

\* An item lands where it was dropped and the others keep their order (the two above).
DropsLand == PlacedBetween /\ OthersKeepTheirOrder
=============================================================================
