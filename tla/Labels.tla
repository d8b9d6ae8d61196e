-------------------------------- MODULE Labels --------------------------------
(***************************************************************************)
(* The tags of tasks and the values of one custom field with options:      *)
(* edits by several windows and rules (setTaskTags and setCustomFieldValue *)
(* in src/lib/tasks/service.ts), and the settings that create and delete   *)
(* tags, and change or delete the field (settings-service.ts).             *)
(*                                                                         *)
(* The tags of a task are read and written under the lock of its row. A    *)
(* value is checked and written without a lock, and a saved field cleans   *)
(* the values one row at a time. Everyone here may do everything: the      *)
(* rights are those of TaskAccess.                                         *)
(***************************************************************************)
EXTENDS Naturals, FiniteSets

CONSTANTS
    Card,       \* tasks
    Tag, Option,
    Editor,     \* requests on tasks
    Saver,      \* requests on the field
    TagLimit,   \* tags of a task at most (30)
    Unset         \* nothing in progress; an edit without base; the field deleted

\* A request on a task, a value listed by a save, and a save under way.
Asked == [kind : {"open", "tags", "value"}, card : Card, base : (SUBSET Tag) \cup {Unset},
          wanted : (SUBSET Tag) \cup (SUBSET Option)]
Listed == [card : Card, ids : SUBSET Option]
Saved == [kept : SUBSET Option, rows : (SUBSET Listed) \cup {Unset}]

ASSUME LabelsAssumption ==
    /\ Editor \cap Saver = {}
    /\ IsFiniteSet(Tag) /\ TagLimit \in Nat
    /\ Unset \notin Asked /\ Unset \notin Saved
    /\ (\A o \in SUBSET Option : o # Unset) /\ \A l \in SUBSET Listed : l # Unset

VARIABLES
    tags,       \* tags of the workspace
    taskTags,
    options,    \* options of the field, or Unset once it is deleted
    value,      \* options chosen for each task: {} when it has no row
    edit,       \* [kind, card, base, wanted: what was kept of the request], or Unset
    save,       \* [kept, rows]: rows is Unset until the values have been listed
    \* History: requests that checked against options changed since, and tasks left with
    \* an option that is gone by one of them, or by a save that was interrupted.
    outdated, left

labelVars == <<tags, taskTags, options, value, edit, save, outdated, left>>

LabelsInit ==
    /\ tags \in SUBSET Tag
    /\ taskTags = [c \in Card |-> {}]
    /\ options = Option
    /\ value = [c \in Card |-> {}]
    /\ edit = [e \in Editor |-> Unset] /\ save = [s \in Saver |-> Unset]
    /\ outdated = {} /\ left = {}

fieldVars == <<options, value, save, outdated, left>>
tagVars   == <<tags, taskTags>>

-----------------------------------------------------------------------------
(* Tags.                                                                   *)

\* A window opens the tags of a task; a rule that adds one asks with an empty base, and
\* a call may give none.
OpenTags(e, c, base) ==
    /\ edit[e] = Unset
    /\ base \in {taskTags[c], {}, Unset}
    /\ edit' = [edit EXCEPT ![e] = [kind |-> "open", card |-> c, base |-> base, wanted |-> {}]]
    /\ UNCHANGED <<tagVars, fieldVars>>

\* A request keeps its first TagLimit tags. A window lists what it showed and then what it
\* adds; another caller may list them in any order, and all are allowed here.
FirstOf(asked) ==
    IF Cardinality(asked) <= TagLimit THEN {asked}
    ELSE {first \in SUBSET asked : Cardinality(first) = TagLimit}

\* setTaskTags up to the lock: every tag kept of those asked for exists.
CheckTags(e, asked) ==
    /\ edit[e] # Unset /\ edit[e].kind = "open"
    /\ \E wanted \in FirstOf(asked) :
          /\ wanted \subseteq tags
          /\ edit' = [edit EXCEPT ![e].kind = "tags", ![e].wanted = wanted]
    /\ UNCHANGED <<tagVars, fieldVars>>

\* Seeded fault: the difference is applied to what the window showed.
TargetFromScreen(e, current) == edit[e].wanted

\* Only the difference the window wants is applied to the tags of now.
Target(e, current) ==
    LET base == edit[e].base IN
    IF base = Unset THEN edit[e].wanted
    ELSE (current \cup (edit[e].wanted \ base)) \ (base \ edit[e].wanted)

\* Under the lock of the row; a tag deleted since the check is not put.
ApplyTags(e) ==
    /\ edit[e] # Unset /\ edit[e].kind = "tags"
    /\ LET c == edit[e].card
           target == Target(e, taskTags[c])
       IN  taskTags' = IF Cardinality(target) > TagLimit THEN taskTags
                       ELSE [taskTags EXCEPT ![c] = target \cap tags]
    /\ edit' = [edit EXCEPT ![e] = Unset]
    /\ UNCHANGED <<tags, fieldVars>>

CreateTag(g) ==
    /\ tags' = tags \cup {g}
    /\ UNCHANGED <<taskTags, edit, fieldVars>>

DeleteTag(g) ==
    /\ g \in tags
    /\ tags' = tags \ {g}
    /\ taskTags' = [c \in Card |-> taskTags[c] \ {g}]
    /\ UNCHANGED <<edit, fieldVars>>

-----------------------------------------------------------------------------
(* Values of the field.                                                    *)

Orphans(v, o) == {c \in Card : v[c] # {} /\ ~(v[c] \subseteq o)}

\* Values v are written, and tasks S have an excuse for an option that is gone.
WriteValues(v, S) ==
    /\ value' = v
    /\ left' = (left \cup S) \cap Orphans(v, options)

\* writeCustomValue up to its write: options of the field, and of a single one when
\* the field takes one (left to the inputs).
CheckValue(e, c, wanted) ==
    /\ edit[e] = Unset /\ options # Unset
    /\ wanted \subseteq options
    /\ edit' = [edit EXCEPT ![e] = [kind |-> "value", card |-> c, base |-> Unset, wanted |-> wanted]]
    /\ UNCHANGED <<tagVars, fieldVars>>

\* No option: no row. The foreign key refuses a row of a field deleted meanwhile.
WriteValue(e) ==
    /\ edit[e] # Unset /\ edit[e].kind = "value"
    /\ edit' = [edit EXCEPT ![e] = Unset]
    /\ outdated' = outdated \ {e}
    /\ IF options = Unset THEN UNCHANGED <<value, left>>
       ELSE WriteValues([value EXCEPT ![edit[e].card] = edit[e].wanted],
                        IF e \in outdated THEN {edit[e].card} ELSE {})
    /\ UNCHANGED <<tagVars, options, save>>

\* saveCustomField: the options are replaced...
SaveOptions(s, kept) ==
    /\ save[s] = Unset /\ options # Unset /\ kept # {}
    /\ options' = kept
    /\ save' = [save EXCEPT ![s] = [kept |-> kept, rows |-> Unset]]
    /\ outdated' = outdated \cup {e \in Editor : edit[e] # Unset /\ edit[e].kind = "value"}
                            \cup {x \in Saver : save[x] # Unset}
    /\ left' = left \cap Orphans(value, kept)
    /\ UNCHANGED <<tagVars, value, edit>>

\* ... then the values are listed...
ListValues(s) ==
    /\ save[s] # Unset /\ save[s].rows = Unset
    /\ save' = [save EXCEPT ![s].rows = {[card |-> c, ids |-> value[c]] : c \in {x \in Card : value[x] # {}}}]
    /\ UNCHANGED <<tagVars, options, value, edit, outdated, left>>

EndSave(s) == save' = [save EXCEPT ![s] = Unset] /\ outdated' = outdated \ {s}

\* Tasks whose values the save has still to clean.
Uncleaned(s) == IF save[s].rows = Unset THEN Card ELSE {row.card : row \in save[s].rows}

\* Seeded fault: a value that loses all its options is not deleted.
CleanRowUnlessEmpty(s, row) ==
    LET next == row.ids \cap save[s].kept
        more == [save EXCEPT ![s].rows = @ \ {row}]
    IN  /\ row \in save[s].rows
        /\ UNCHANGED <<tagVars, options, edit, outdated>>
        /\ save' = more
        /\ IF next \in {row.ids, {}} \/ value[row.card] = {}
           THEN UNCHANGED <<value, left>>
           ELSE WriteValues([value EXCEPT ![row.card] = next], {})

\* ... and written back without the options removed, one row at a time, as they were
\* listed. A row that is gone makes the write fail, and the save with it.
CleanRow(s, row) ==
    LET next == row.ids \cap save[s].kept IN
    /\ row \in save[s].rows
    /\ UNCHANGED <<tagVars, options, edit>>
    /\ CASE next = row.ids ->
               /\ save' = [save EXCEPT ![s].rows = @ \ {row}]
               /\ UNCHANGED <<value, outdated, left>>
         [] next # row.ids /\ value[row.card] # {} ->
               /\ save' = [save EXCEPT ![s].rows = @ \ {row}]
               /\ UNCHANGED outdated
               /\ WriteValues([value EXCEPT ![row.card] = next], IF s \in outdated THEN {row.card} ELSE {})
         [] OTHER ->
               /\ EndSave(s)
               /\ IF options = Unset THEN UNCHANGED <<value, left>> ELSE WriteValues(value, Uncleaned(s))

SaveAnswers(s) ==
    /\ save[s] # Unset /\ save[s].rows = {}
    /\ EndSave(s)
    /\ UNCHANGED <<tagVars, options, value, edit, left>>

\* The process stops in the middle of the save.
SaveStops(s) ==
    /\ save[s] # Unset /\ save[s].rows # {}
    /\ EndSave(s)
    /\ IF options = Unset THEN UNCHANGED <<value, left>> ELSE WriteValues(value, Uncleaned(s))
    /\ UNCHANGED <<tagVars, options, edit>>

\* deleteCustomField, and its values by cascade.
DeleteField ==
    /\ options # Unset
    /\ options' = Unset
    /\ value' = [c \in Card |-> {}]
    /\ left' = {}
    /\ UNCHANGED <<tagVars, edit, save, outdated>>

LabelsNext ==
    \/ \E e \in Editor :
          \/ \E c \in Card :
                \/ OpenTags(e, c, taskTags[c]) \/ OpenTags(e, c, {}) \/ OpenTags(e, c, Unset)
                \/ \E o \in SUBSET Option : CheckValue(e, c, o)
          \/ \E g \in SUBSET Tag : CheckTags(e, g)
          \/ ApplyTags(e) \/ WriteValue(e)
    \/ \E g \in Tag : CreateTag(g) \/ DeleteTag(g)
    \/ \E s \in Saver :
          \/ \E o \in SUBSET Option : SaveOptions(s, o)
          \/ ListValues(s) \/ SaveAnswers(s) \/ SaveStops(s)
          \/ save[s] # Unset /\ save[s].rows # Unset /\ \E row \in save[s].rows : CleanRow(s, row)
    \/ DeleteField

LabelsSpec == LabelsInit /\ [][LabelsNext]_labelVars

-----------------------------------------------------------------------------
(* Properties.                                                             *)

\* Each change of the tags of a task is one its author asked for.
TagsMove ==
    \A c \in Card :
        /\ taskTags'[c] \subseteq tags' /\ Cardinality(taskTags'[c]) <= TagLimit
        /\ \A g \in (taskTags[c] \ taskTags'[c]) \cap tags' :
              \E e \in Editor : /\ edit[e] # Unset /\ edit[e].card = c /\ edit'[e] = Unset
                                /\ g \notin edit[e].wanted
                                /\ edit[e].base = Unset \/ g \in edit[e].base
        /\ \A g \in taskTags'[c] \ taskTags[c] :
              \E e \in Editor : /\ edit[e] # Unset /\ edit[e].card = c /\ edit'[e] = Unset
                                /\ g \in edit[e].wanted
                                /\ edit[e].base = Unset \/ g \notin edit[e].base

\* A late save of the tags of a task takes nothing away that its window did not show
\* ("une sauvegarde tardive n'efface pas un tag ajouté entre-temps"), puts nothing back
\* that was there already, never a deleted tag, and never goes over the limit.
TagsMoveAsAsked == [][TagsMove]_labelVars

\* Once a save of the field has answered, no value keeps an option it removed ("pour ne
\* pas laisser d'orphelins"), but where a request that had checked the older options
\* wrote after it, or where a save did not reach its end.
NoOrphanOption ==
    options # Unset =>
        \A c \in Orphans(value, options) \ left :
           \E s \in Saver : save[s] # Unset /\ s \notin outdated /\ c \in Uncleaned(s)
=============================================================================
