-------------------------------- MODULE Timeline --------------------------------
(***************************************************************************)
(* Dragging a bar of the timeline (timeline-view.tsx) with the option      *)
(* « Décaler les tâches dépendantes »: the new dates are written, the      *)
(* window computes which dependent tasks go later (cascadeShift of         *)
(* graph.ts, one task of its queue at a time), then writes them, one by    *)
(* one.  Days are numbers.  What others change meanwhile is the subject of *)
(* ClientStore and TaskUpdate.                                             *)
(***************************************************************************)
EXTENDS Integers, Sequences, FiniteSets

CONSTANTS
    Bar,        \* tasks of the window
    Table,      \* the same, in the order of the store
    LastDay,    \* bound: days a bar may be dragged to
    Nil

ASSUME TimelineAssumption ==
    /\ LastDay \in Nat /\ Nil \notin Int /\ Nil \notin Bar /\ IsFiniteSet(Bar)
    /\ Table \in Seq(Bar) /\ \A b \in Bar : \E i \in DOMAIN Table : Table[i] = b
    /\ \A i, j \in DOMAIN Table : Table[i] = Table[j] => i = j

VARIABLES
    dates,      \* of each task: its start and its due date
    blocks,     \* pairs: the first blocks the second
    editable,   \* tasks the user may edit
    moved,      \* the bar dragged while its cascade is under way, or Nil
    queue,      \* of cascadeShift: what each task pushed, in the order of the store
    guard, result,  \* variables of cascadeShift
    seenDue     \* history: the due date the loop used for each task of guard

timelineVars == <<dates, blocks, editable, moved, queue, guard, result, seenDue>>

Dated(start, due) == [start |-> start, due |-> due]

\* A task without a start begins on its due date.
Begin(d) == IF d.start # Nil THEN d.start ELSE d.due

Shift(day, delta) == IF day = Nil THEN Nil ELSE day + delta

\* updateTaskFields refuses a start after the due date.
InOrder(d) == d.start = Nil \/ d.due = Nil \/ d.start <= d.due

Current(t) == IF t \in DOMAIN result THEN result[t] ELSE dates[t]

\* Dependencies make no loop (see Dependencies): what follows a task does not hold it.
NoLoop ==
    \A t \in Bar : \E after \in SUBSET (Bar \ {t}) :
        \A u \in after \cup {t}, s \in Bar : <<u, s>> \in blocks => s \in after

TimelineInit ==
    /\ dates \in [Bar -> {d \in [start : (1..LastDay) \cup {Nil}, due : (1..LastDay) \cup {Nil}] : InOrder(d)}]
    /\ blocks \in SUBSET (Bar \X Bar) /\ NoLoop
    /\ editable \in SUBSET Bar
    /\ moved = Nil /\ queue = <<>> /\ guard = {} /\ result = <<>> /\ seenDue = <<>>

\* Where a drag by delta leaves a bar, by its middle or by one of its ends.
Dragged(t, mode, delta) ==
    LET d == dates[t] IN
    CASE mode = "move" -> Dated(Shift(d.start, delta), Shift(d.due, delta))
      [] mode = "start" ->
            LET next == Begin(d) + delta
            IN  Dated(IF d.due # Nil /\ next > d.due THEN d.due ELSE next, d.due)
      [] mode = "due" ->
            LET next == d.due + delta
            IN  Dated(d.start, IF d.start # Nil /\ next < d.start THEN d.start ELSE next)

\* A bar that begins and ends the same day without a start gets none.
Written(t, d) == IF d.start = d.due /\ dates[t].start = Nil THEN [d EXCEPT !.start = Nil] ELSE d

\* The bar is written; with the option ticked, its cascade begins.
Drag(t, mode, delta, cascade) ==
    /\ moved = Nil
    /\ t \in editable /\ Begin(dates[t]) # Nil
    /\ mode = "due" => dates[t].due # Nil
    /\ LET next == Dragged(t, mode, delta) IN
         /\ next # dates[t]
         /\ {next.start, next.due} \subseteq (1..LastDay) \cup {Nil}
         /\ dates' = [dates EXCEPT ![t] = Written(t, next)]
    /\ IF cascade
       THEN moved' = t /\ queue' = <<{t}>> /\ guard' = {} /\ result' = <<>> /\ seenDue' = <<>>
       ELSE UNCHANGED <<moved, queue, guard, result, seenDue>>
    /\ UNCHANGED <<blocks, editable>>

\* Seeded fault: what the cascade has pushed already is forgotten.
LateAtFirst(t) ==
    {s \in Bar : /\ <<t, s>> \in blocks /\ Begin(dates[s]) # Nil
                 /\ Begin(dates[s]) <= Current(t).due}

\* Successors that begin on the due date or before: they go to the day after.
Late(t) ==
    {s \in Bar : /\ <<t, s>> \in blocks /\ Begin(Current(s)) # Nil
                 /\ Begin(Current(s)) <= Current(t).due}

Pushed(t, s) ==
    LET d == Current(s)
        delta == Current(t).due - Begin(d) + 1
    IN  Dated(Shift(d.start, delta), Shift(d.due, delta))

\* The queue without its first task t, and the same with what t pushes behind.
Comes(t) ==
    /\ t \in Head(queue)
    /\ \A u \in Head(queue) \ {t} : \E i, j \in DOMAIN Table : i < j /\ Table[i] = t /\ Table[j] = u

Rest(t) == IF Head(queue) = {t} THEN Tail(queue) ELSE <<Head(queue) \ {t}>> \o Tail(queue)

ShiftSuccessors(t) ==
    /\ result' = [s \in DOMAIN result \cup Late(t) |-> IF s \in Late(t) THEN Pushed(t, s) ELSE result[s]]
    /\ queue' = IF Late(t) = {} THEN Rest(t) ELSE Append(Rest(t), Late(t))
    /\ seenDue' = [x \in DOMAIN seenDue \cup {t} |-> IF x = t THEN Current(t).due ELSE seenDue[x]]

\* One turn of the loop of cascadeShift: a task is looked at once.
CascadeShift ==
    /\ queue # <<>>
    /\ \E t \in Bar :
         /\ Comes(t)
         /\ guard' = guard \cup {t}
         /\ IF t \in guard \/ Current(t).due = Nil
            THEN queue' = Rest(t) /\ UNCHANGED <<result, seenDue>>
            ELSE ShiftSuccessors(t)
    /\ UNCHANGED <<dates, blocks, editable, moved>>

\* bulkPatchAction writes the moves but that of the bar itself, and passes those refused.
BulkPatch ==
    /\ moved # Nil /\ queue = <<>>
    /\ dates' = [t \in Bar |-> IF t # moved /\ t \in editable \cap DOMAIN result THEN result[t] ELSE dates[t]]
    /\ moved' = Nil /\ guard' = {} /\ result' = <<>> /\ seenDue' = <<>>
    /\ UNCHANGED <<queue, blocks, editable>>

TimelineNext ==
    \/ \E t \in Bar, mode \in {"move", "start", "due"}, delta \in {-1, 1, 2}, cascade \in BOOLEAN :
          Drag(t, mode, delta, cascade)
    \/ CascadeShift
    \/ BulkPatch

TimelineSpec == TimelineInit /\ [][TimelineNext]_timelineVars

-----------------------------------------------------------------------------
(* Properties.                                                             *)

Clash(t, s) ==
    /\ <<t, s>> \in blocks
    /\ Current(t).due # Nil /\ Begin(Current(s)) # Nil
    /\ Begin(Current(s)) <= Current(t).due

\* Blockers the cascade has gone through.
Through(t) == {b \in guard : <<b, t>> \in blocks}

\* A cascade moves tasks later and as a whole, whatever the paths that lead to them; a task
\* it has looked at leaves a successor in conflict only if it was pushed again since, by
\* another of its blockers.
CascadeInv ==
    /\ \A t \in DOMAIN result :
          /\ InOrder(result[t])
          /\ Begin(result[t]) > Begin(dates[t])
          /\ result[t].due # Nil /\ dates[t].start # Nil =>
                result[t].due - result[t].start = dates[t].due - dates[t].start
          /\ \E b \in DOMAIN seenDue : <<b, t>> \in blocks
    /\ \A t \in guard, s \in Bar :
          Clash(t, s) => Current(t).due > seenDue[t] /\ Cardinality(Through(t)) >= 2
    /\ \A t \in Bar : InOrder(dates[t])

\* What the comment of cascadeShift promises: each successor that begins before the new
\* end of its blocker is pushed, in cascade.
WholeCascade ==
    moved # Nil /\ queue = <<>> =>
        \A t \in guard, s \in Bar :
            <<t, s>> \in blocks /\ Current(t).due # Nil /\ Begin(Current(s)) # Nil =>
                Begin(Current(s)) >= Current(t).due
=============================================================================
