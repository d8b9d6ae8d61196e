------------------------------- MODULE CrmLinks --------------------------------
(***************************************************************************)
(* The link from a shared task or project to a record of the CRM, which    *)
(* has one owner (service.ts, project-service.ts, app/(app)/tasks).  Who    *)
(* does not own the record sees that there is one, not which; a form of    *)
(* theirs sends the field empty.                                           *)
(*                                                                         *)
(* One link of one kind: a contact is never deleted, an opportunity is,    *)
(* which empties the links to it (ON DELETE SET NULL) and changes no       *)
(* version.  Rights on the item itself are those of TaskAccess.            *)
(***************************************************************************)
EXTENDS Naturals

CONSTANTS
    Editor, Card,       \* who may edit; records of the CRM
    TaskItem, ProjectItem,  \* items that carry a link
    Edit,               \* edits under way
    NoLink, Unborn,     \* the item is linked to nothing; it does not exist yet
    OwnerOf,            \* [Card -> Editor]
    MaxReadVersion          \* bound: no edit reads an item written so many times

ASSUME LinksAssumption ==
    /\ Unborn \notin Card \cup {NoLink}
    /\ OwnerOf \in [Card -> Editor]

VARIABLES
    kind,       \* of the link: "contact" or "opportunity"
    cards,      \* the records that exist
    link,       \* of each item
    version,
    edit        \* what each request knows

linkVars == <<kind, cards, link, version, edit>>

LinkedItem == TaskItem \cup ProjectItem
NoEdit == [at |-> "idle"]
Link == Card \cup {NoLink}

LinksInit ==
    /\ kind \in {"contact", "opportunity"}
    /\ cards = Card
    /\ link \in [LinkedItem -> Link \cup {Unborn}]
    /\ version = [i \in LinkedItem |-> 0]
    /\ edit = [e \in Edit |-> NoEdit]

-----------------------------------------------------------------------------
\* crmReadableWhere: one's own records, if they still exist.
Owned(p) == {c \in cards : OwnerOf[c] = p}

\* keepOwnedCrmLinks
KeepOwned(p, l) == IF l \in Owned(p) THEN l ELSE NoLink

\* assertCrmLinksEditable: the link to be replaced is to a record of the actor.
Editable(p, l) == l = NoLink \/ l \in Owned(p)

\* assertCrmLinks
Linkable(p, l) == l = NoLink \/ l \in Owned(p)

\* updateTask, the edit form of a task: an empty contact is not sent when the
\* task has a contact of somebody else.  The service is called next.
Form(e, p, t, l) ==
    /\ kind = "contact" /\ edit[e] = NoEdit /\ link[t] # Unborn
    /\ Linkable(p, l)
    /\ edit' = [edit EXCEPT ![e] = [at |-> "sent", by |-> p, item |-> t,
           asks |-> ~(l = NoLink /\ link[t] # NoLink /\ OwnerOf[link[t]] # p), new |-> l]]
    /\ UNCHANGED <<kind, cards, link, version>>

\* updateTaskAction and updateProjectAction: the panel sends the fields it changed.
Panel(e, p, i, l, asks) ==
    /\ edit[e] = NoEdit /\ link[i] # Unborn
    /\ edit' = [edit EXCEPT ![e] = [at |-> "sent", by |-> p, item |-> i, asks |-> asks, new |-> l]]
    /\ UNCHANGED <<kind, cards, link, version>>

\* updateTaskFields reads the row, version included; updateProject reads the project
\* and its version with its rights, and its links in a second query.
ReadItem(e) ==
    LET i == edit[e].item IN
    /\ edit[e].at = "sent" /\ version[i] < MaxReadVersion
    /\ edit' = [edit EXCEPT ![e] = [at |-> IF i \in TaskItem THEN "read" ELSE "versioned", by |-> @.by, item |-> i,
                                    asks |-> @.asks, new |-> @.new, seen |-> link[i], base |-> version[i]]]
    /\ UNCHANGED <<kind, cards, link, version>>

ReadLinks(e) ==
    /\ edit[e].at = "versioned"
    /\ edit' = [edit EXCEPT ![e].at = "read", ![e].seen = link[edit[e].item]]
    /\ UNCHANGED <<kind, cards, link, version>>

\* Only a link that changes is checked, and written.
LinkChanges(e) == edit[e].asks /\ edit[e].new # edit[e].seen

CheckCurrent(e) ==
    /\ edit[e].at = "read"
    /\ LinkChanges(e) => Editable(edit[e].by, edit[e].seen)
    /\ edit' = [edit EXCEPT ![e].at = "editable"]
    /\ UNCHANGED <<kind, cards, link, version>>

CheckNew(e) ==
    /\ edit[e].at = "editable"
    /\ LinkChanges(e) => Linkable(edit[e].by, edit[e].new)
    /\ edit' = [edit EXCEPT ![e].at = "checked"]
    /\ UNCHANGED <<kind, cards, link, version>>

\* Seeded fault of StillCurrent: links are written without the version.
AlwaysCurrent(e) == edit[e].item \in LinkedItem

\* The compare-and-set of both.
StillCurrent(e) == version[edit[e].item] = edit[e].base

\* The record linked to must still exist (foreign key).
WriteLink(e) ==
    LET i == edit[e].item IN
    /\ edit[e].at = "checked" /\ StillCurrent(e)
    /\ LinkChanges(e) => edit[e].new \in cards \cup {NoLink}
    /\ link' = [link EXCEPT ![i] = IF LinkChanges(e) THEN edit[e].new ELSE @]
    /\ version' = [version EXCEPT ![i] = @ + 1]
    /\ edit' = [edit EXCEPT ![e] = NoEdit]
    /\ UNCHANGED <<kind, cards>>

\* A check, the rights, the values the client saw or the version refuse.
Refused(e) ==
    /\ edit[e] # NoEdit
    /\ edit' = [edit EXCEPT ![e] = NoEdit]
    /\ UNCHANGED <<kind, cards, link, version>>

-----------------------------------------------------------------------------
(* Items made with a link, or from another one, and the end of a record.   *)

\* createTask, createProject
CreateLinked(p, i, l) ==
    /\ link[i] = Unborn /\ Linkable(p, l)
    /\ link' = [link EXCEPT ![i] = l]
    /\ UNCHANGED <<kind, cards, version, edit>>

SameKind(i, j) == i \in TaskItem <=> j \in TaskItem

\* duplicateTask, duplicateProject: the copy keeps the links of its maker only.
DuplicateLinked(p, i, j) ==
    /\ SameKind(i, j) /\ link[i] # Unborn /\ link[j] = Unborn
    /\ link' = [link EXCEPT ![j] = KeepOwned(p, link[i])]
    /\ UNCHANGED <<kind, cards, version, edit>>

\* spawnNextOccurrenceIn, in the transaction of the write that completes the task:
\* the occurrence has the links of the task, whoever completes it.
WriteAndRepeat(e, j) ==
    LET i == edit[e].item
        after == IF LinkChanges(e) THEN edit[e].new ELSE link[i]
    IN
    /\ edit[e].at = "checked" /\ StillCurrent(e)
    /\ i \in TaskItem /\ j \in TaskItem /\ link[j] = Unborn
    /\ LinkChanges(e) => edit[e].new \in cards \cup {NoLink}
    /\ link' = [link EXCEPT ![i] = after, ![j] = after]
    /\ version' = [version EXCEPT ![i] = @ + 1]
    /\ edit' = [edit EXCEPT ![e] = NoEdit]
    /\ UNCHANGED <<kind, cards>>

\* deleteOpportunity
DeleteCard(c) ==
    /\ kind = "opportunity" /\ c \in cards
    /\ cards' = cards \ {c}
    /\ link' = [i \in LinkedItem |-> IF link[i] = c THEN NoLink ELSE link[i]]
    /\ UNCHANGED <<kind, version, edit>>

EditSteps(e) ==
    \/ \E p \in Editor, l \in Link :
          \/ \E t \in TaskItem : Form(e, p, t, l)
          \/ \E i \in LinkedItem, asks \in BOOLEAN : (~asks => l = NoLink) /\ Panel(e, p, i, l, asks)
    \/ ReadItem(e) \/ ReadLinks(e) \/ CheckCurrent(e) \/ CheckNew(e) \/ WriteLink(e) \/ Refused(e)
    \/ \E j \in TaskItem : WriteAndRepeat(e, j)

LinksNext ==
    \/ \E e \in Edit : EditSteps(e)
    \/ \E p \in Editor, i \in LinkedItem :
          (\E l \in Link : CreateLinked(p, i, l)) \/ (\E j \in LinkedItem : DuplicateLinked(p, i, j))
    \/ \E c \in Card : DeleteCard(c)

LinksSpec == LinksInit /\ [][LinksNext]_linkVars

-----------------------------------------------------------------------------
OwnOrNone(p) == {NoLink} \cup {c \in Card : OwnerOf[c] = p}

\* The write of an edit by p on item i.
Writes(e, i, p) ==
    edit[e].at = "checked" /\ edit[e].item = i /\ edit[e].by = p /\ edit'[e] = NoEdit

\* A link that is there changes only by an edit of the owner of the record it leaves and
\* of the record it takes, or because its record is deleted: nobody removes or replaces
\* the link of somebody else, not even one set after they read the item ("vous ne pouvez
\* ni le modifier ni le retirer").
OthersLinksStay ==
    [][\A i \in LinkedItem : link[i] # Unborn /\ link'[i] # link[i] =>
          \/ link[i] \in cards \ cards'
          \/ \E e \in Edit, p \in Editor : Writes(e, i, p) /\ {link[i], link'[i]} \subseteq OwnOrNone(p)]_linkVars
=============================================================================
