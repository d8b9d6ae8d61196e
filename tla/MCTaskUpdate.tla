---------------------------- MODULE MCTaskUpdate ----------------------------
(***************************************************************************)
(* Instances of TaskUpdate, CrmLinks, Timeline and Recurrence for TLC: the  *)
(* edits of a task, its link to the CRM, a cascade of dates, a chain of     *)
(* occurrences, one per scene.                                             *)
(***************************************************************************)
EXTENDS TaskUpdate, CrmLinks, Timeline, Recurrence, TLC

CONSTANTS p1, p2, todo, b1, b2, b3, b4, i1, i2, x1, x2,
    LastSource      \* bound: the last day a chain goes on from

VARIABLE scene

updateVars == <<vars, linkVars, timelineVars, recurrenceVars, scene>>

\* Edit is Request: the scenes do not meet.
Symmetry == Permutations(Request)

Nothing == [f \in Field |-> Keep]
One(f, v) == [Nothing EXCEPT ![f] = v]

\* What the buttons of the task panel send, and edits of two fields that the API
\* accepts as well.
SomePatches ==
    {One("status", s) : s \in {todo, "DONE"}}
    \cup {One("isApproval", b) : b \in BOOLEAN}
    \cup {One("approval", a) : a \in Approval}
    \cup {One("assignee", a) : a \in {p2, None}}
    \cup {[One("status", "DONE") EXCEPT !["isApproval"] = FALSE],
          [One("status", todo) EXCEPT !["approval"] = "APPROVED"],
          [One("assignee", p2) EXCEPT !["approval"] = "CHANGES_REQUESTED"]}

\* Bounds: the task recurs (without, there is nothing to create), one that was
\* completed before has its next occurrence, and the manager is not its assignee.
RecurringInit ==
    /\ Init
    /\ task.recurring /\ task.assignee # p1
    /\ occurrences = 0 <=> task.lastActive = None

\* A task for the scenes that change none.
NoEdits == RecurringInit /\ task.status = todo /\ task.lastActive = None
           /\ task.assignee = None /\ ~task.isApproval

\* Bound: one request is arriving at a time; the others wait to write.
OneArriving == Cardinality({r \in Request : pc[r] \in {"sent", "authorised"}}) <= 1

-----------------------------------------------------------------------------
StoreOrder == <<b1, b2, b3, b4>>

SomeDates == {Dated(Nil, Nil), Dated(Nil, 1), Dated(1, 2)}

\* Bounds: four bars without dates, or of a day or two; the user may not edit b3; b1
\* blocks b2, and the other pairs make a diamond in either direction, without loop.
Bars ==
    /\ dates \in [Bar -> SomeDates] /\ dates[b1] = Dated(Nil, 1)
    /\ editable = Bar \ {b3}
    /\ blocks \in {{<<b1, b2>>} \cup g : g \in SUBSET {<<b1, b3>>, <<b2, b3>>, <<b3, b2>>, <<b2, b4>>, <<b3, b4>>}}
    /\ ~{<<b2, b3>>, <<b3, b2>>} \subseteq blocks
    /\ moved = Nil /\ queue = <<>> /\ guard = {} /\ result = <<>> /\ seenDue = <<>>
    /\ TimelineInit

NoBars ==
    /\ dates = [b \in Bar |-> Dated(Nil, Nil)] /\ blocks = {} /\ editable = {}
    /\ moved = Nil /\ queue = <<>> /\ guard = {} /\ result = <<>> /\ seenDue = <<>>

-----------------------------------------------------------------------------
R(f, i, w, m) == [freq |-> f, interval |-> i, weekdays |-> w, monthDay |-> m]

SomeRules ==
    {R("DAILY", 1, {}, 0), R("DAILY", 3, {}, 0),
     R("WEEKLY", 1, {}, 0), R("WEEKLY", 1, {1, 4}, 0), R("WEEKLY", 2, {2, 6}, 0), R("WEEKLY", 2, {7}, 0),
     R("MONTHLY", 1, {}, 0), R("MONTHLY", 1, {}, 31), R("MONTHLY", 2, {}, 30), R("YEARLY", 1, {}, 0)}

\* Bounds: due at the end of January or of a February of 29 days, of one day or two;
\* today before or after.
Chains ==
    /\ rule \in SomeRules /\ day \in {24, 40}
    /\ due \in (24..36) \cup {58, 59, 60, NoDue}
    /\ start \in IF due = NoDue THEN {NoDue} ELSE {NoDue, due - 1}

NoChain == rule = R("DAILY", 1, {}, 0) /\ day = 24 /\ due = NoDue /\ start = NoDue

ChainStep ==
    /\ Source <= LastSource
    /\ RecurrenceNext
    /\ day' <= LastSource

-----------------------------------------------------------------------------
\* Two records, of two people.
CardOwner == x1 :> p1 @@ x2 :> p2

Born == {i \in LinkedItem : link[i] # Unborn}

\* Bounds: one item to begin with, two in the end; i2 is a copy or an occurrence of
\* i1, and is not edited.
Linked == LinksInit /\ Cardinality(Born) = 1 /\ i2 \notin Born

LinkStep ==
    /\ LinksNext
    /\ Cardinality(Born') <= 2
    /\ i1 \in Born' <=> i1 \in Born
    /\ i1 \notin Born => i2 \notin Born'
    /\ \A e \in Edit : edit'[e] # NoEdit => edit'[e].item # i2

NoLinks == LinksInit /\ kind = "contact" /\ \A i \in LinkedItem : link[i] = NoLink

-----------------------------------------------------------------------------
UpdateInit ==
    \/ scene = "requests" /\ RecurringInit /\ NoLinks /\ NoBars /\ NoChain
    \/ scene = "links" /\ NoEdits /\ Linked /\ NoBars /\ NoChain
    \/ scene = "timeline" /\ NoEdits /\ NoLinks /\ Bars /\ NoChain
    \/ scene = "chain" /\ NoEdits /\ NoLinks /\ NoBars /\ Chains

UpdateNext ==
    /\ UNCHANGED scene
    /\ \/ scene = "requests" /\ Next /\ UNCHANGED <<linkVars, timelineVars, recurrenceVars>>
       \/ scene = "links" /\ LinkStep /\ UNCHANGED <<vars, timelineVars, recurrenceVars>>
       \/ scene = "timeline" /\ TimelineNext /\ UNCHANGED <<vars, linkVars, recurrenceVars>>
       \/ scene = "chain" /\ ChainStep /\ UNCHANGED <<vars, linkVars, timelineVars>>

UpdateSpec == UpdateInit /\ [][UpdateNext]_updateVars

\* The timeline alone.
TimelineAlone == UpdateInit /\ scene = "timeline" /\ [][UpdateNext]_updateVars
=============================================================================
