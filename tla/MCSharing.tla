------------------------------ MODULE MCSharing ------------------------------
(***************************************************************************)
(* Instances of WorkStructure, Order and Labels for TLC: two people who    *)
(* share projects, the manual order of a project, and what its tasks are   *)
(* labelled with.                                                          *)
(***************************************************************************)
EXTENDS WorkStructure, Order, Labels, TLC

CONSTANT MaxPlace   \* bound: places go from 0 to this one

\* "projects", "rights", "tasks", "sections", "tags" or "values".
VARIABLE scene

sharingVars == <<vars, orderVars, labelVars, scene>>

Symmetry == Permutations(Task) \cup Permutations(Project) \cup Permutations(User)

-----------------------------------------------------------------------------
(* Two people.                                                             *)

Structure(u) ==
    \/ \E p \in Project :
          \/ \E members \in SUBSET User : CreateProject(u, p, u, members)
          \/ DeleteProject(u, p)
          \/ RestoreProject(u, p)
    \/ \E t \in Task :
          \/ \E par \in Task \cup {None}, p \in Project \cup {None}, a \in User \cup {None} :
                CreateTask(u, t, par, p, a, {})
          \/ \E p \in Project : MoveTask(u, t, p)
          \/ \E p \in Project : RemoveTaskFromProject(u, t, p)
          \/ \E q \in Task : MakeSubtask(u, t, q)
          \/ MakeTask(u, t)
          \/ DeleteTask(u, t)
          \/ RestoreTask(u, t)

\* Members come and go, tasks are reassigned.
Rights(u) ==
    \/ \E p \in Project, v \in User, r \in Role \cup {None} : SetProjectMember(u, p, v, r)
    \/ \E t \in Task, v \in User : AssignTask(u, t, v)

\* Bound: either there are two projects, or the rights change as well.
SharingStep == \E u \in User :
    /\ Structure(u) \/ (scene = "rights" /\ Rights(u))
    /\ scene = "rights" => \E p \in Project : project'[p] = "unborn"

-----------------------------------------------------------------------------
(* The order of a project.                                                 *)

Held == {t \in Item : section[t] # Out}

\* Tasks are interchangeable: the next to enter the project is always the same.
Entering ==
    LET free == {t \in Item \ Held : \A c \in creating : c.task # t}
    IN  IF free = {} THEN {} ELSE {CHOOSE t \in free : TRUE}

\* Neighbours a window may name: of the section, or both gone from it.
Neighbours(s) ==
    {<<b, a>> \in (In(s) \cup {Nil}) \X (In(s) \cup {Nil}) : b # a \/ b = Nil}
    \cup {<<x, x>> : x \in Held \ In(s)}

TaskOrderStep ==
    \/ \E t \in Entering, s \in Sections \cup {Nil} :
          \/ \E where \in {"top", "bottom"} : ReadPlace(t, s, where, t)
          \/ \E anchor \in Held : ReadPlace(t, s, "after", anchor)
    \/ \E c \in creating : CreateTaskRow(c)
    \/ \E t \in Held, n \in Entering : SpawnOccurrence(t, n) \/ Duplicate(t, n)
    \/ \E t \in Held : LeaveProject(t)
    \/ \E t \in Held \cup Entering, s \in Sections \cup {Nil} :
          \E n \in Neighbours(s) : MoveTaskTo(t, s, n[1], n[2])

DeletionStep ==
    \/ \E s \in Section, target \in Section \cup {Nil} : ReadSection(s, target)
    \/ DeleteSectionRows

SectionOrderStep ==
    \E s \in Section, a \in Section \cup {Nil} :
       CreateSection(s, a) \/ \E b \in Section \cup {Nil} : MoveSection(s, a, b)

\* Bounds: on the places; one creation or one deletion under way, the deletion among two tasks.
OrderStep ==
    /\ \/ scene = "tasks" /\ TaskOrderStep
       \/ scene = "sections" /\ SectionOrderStep
       \/ DeletionStep
    /\ \A t \in Item : pos'[t] \in 0..MaxPlace
    /\ \A s \in Section : place'[s] = Out \/ place'[s] \in 0..MaxPlace
    /\ Cardinality(creating') <= 1
    /\ deleting' # Nil => creating' = {} /\ Cardinality({t \in Item : section'[t] # Out}) <= 2

\* Tasks are ordered in one section and outside it, sections without tasks.
OneSection ==
    /\ section = [t \in Item |-> Out] /\ pos = [t \in Item |-> 0]
    /\ place = [s \in Section |-> IF s = CHOOSE x \in Section : TRUE THEN PositionStep ELSE Out]
    /\ creating = {} /\ deleting = Nil

-----------------------------------------------------------------------------
(* Tags and values.                                                        *)

\* Bounds: two requests under way, the tags of one task.
Busy == Cardinality({e \in Editor : edit[e] # Unset}) + Cardinality({s \in Saver : save[s] # Unset})

OneCard == {CHOOSE c \in Card : TRUE}

TagStep ==
    \/ \E e \in Editor :
          \/ \E c \in OneCard : \E shown \in {taskTags[c], {}, Unset} : OpenTags(e, c, shown)
          \/ \E g \in SUBSET Tag : CheckTags(e, g)
          \/ ApplyTags(e)
    \/ \E g \in Tag : CreateTag(g) \/ DeleteTag(g)

ValueStep ==
    \/ \E e \in Editor : WriteValue(e) \/ \E c \in Card, o \in SUBSET Option : CheckValue(e, c, o)
    \/ \E s \in Saver :
          \/ \E o \in SUBSET Option : SaveOptions(s, o)
          \/ ListValues(s) \/ SaveAnswers(s) \/ SaveStops(s)
          \/ save[s] # Unset /\ save[s].rows # Unset /\ \E row \in save[s].rows : CleanRow(s, row)
    \/ DeleteField

LabelStep ==
    /\ \/ scene = "tags" /\ TagStep
       \/ scene = "values" /\ ValueStep
    /\ Busy' <= 2

-----------------------------------------------------------------------------
SharingInit ==
    /\ Init /\ LabelsInit
    /\ \/ scene \in {"projects", "rights", "sections", "values"} /\ tags = {} /\ OrderInit
       \/ scene = "tasks" /\ tags = {} /\ OneSection
       \/ scene = "tags" /\ OrderInit

SharingNext ==
    /\ UNCHANGED scene
    /\ \/ scene \in {"projects", "rights"} /\ SharingStep /\ UNCHANGED <<orderVars, labelVars>>
       \/ scene \in {"tasks", "sections"} /\ OrderStep /\ UNCHANGED <<vars, labelVars>>
       \/ LabelStep /\ UNCHANGED <<vars, orderVars>>

SharingSpec == SharingInit /\ [][SharingNext]_sharingVars
=============================================================================
