-------------------------------- MODULE Files --------------------------------
(***************************************************************************)
(* The object store and the rows that name its files: photos of contacts   *)
(* (app/(app)/contacts/actions.ts, lib/contacts/photo-store.ts) and        *)
(* attachments of tasks (lib/tasks/settings-service.ts), with the purges   *)
(* that erase the tasks (service.ts, project-service.ts).  No transaction  *)
(* covers a file and its row: each request is cut where it awaits.         *)
(***************************************************************************)
CONSTANTS
    Contact, Task, Key, Request,
    ParentOf,       \* the parent of each task, None for a main task
    None

ASSUME NotNone == None \notin Contact \cup Task \cup Key
ASSUME ParentType == ParentOf \in [Task -> Task \cup {None}]

VARIABLES
    stored,         \* files of the object store, by key
    drawn,          \* keys drawn so far: a UUID is never drawn twice
    photo,          \* photoKey of each contact
    attachedTo,     \* task of each attachment row, None without a row
    task,           \* "active", "trashed" or "gone"
    req,            \* what each request has in hand
    lost,           \* history: files that no request answers for any more
    unacked         \* history: keys of rows taken for refused, whose file was removed

fileVars == <<stored, drawn, photo, attachedTo, task, req, lost, unacked>>

Step == {"idle", "create", "update", "write", "insert", "detach", "erase", "discard"}

Resting == [step |-> "idle", of |-> None, key |-> None, seen |-> None, doomed |-> {}]

Begin(step, of, key, seen, doomed) ==
    [step |-> step, of |-> of, key |-> key, seen |-> seen, doomed |-> doomed]

FilesTypeOK ==
    /\ stored \subseteq drawn
    /\ drawn \subseteq Key
    /\ photo \in [Contact -> drawn \cup {None}]
    /\ attachedTo \in [Key -> Task \cup {None}]
    /\ task \in [Task -> {"active", "trashed", "gone"}]
    /\ req \in [Request -> [step: Step, of: Contact \cup Task \cup {None}, key: drawn \cup {None},
                            seen: drawn \cup {None}, doomed: SUBSET drawn]]
    /\ lost \subseteq drawn /\ unacked \subseteq drawn

FilesInit ==
    /\ stored = {} /\ drawn = {} /\ lost = {} /\ unacked = {}
    /\ photo = [c \in Contact |-> None]
    /\ attachedTo = [k \in Key |-> None]
    /\ task = [t \in Task |-> "active"]
    /\ req = [r \in Request |-> Resting]

Family(t) == {t} \cup {s \in Task : ParentOf[s] = t}

AttachmentsOf(ts) == {k \in Key : attachedTo[k] \in ts}

IsPhoto(k) == \E c \in Contact : photo[c] = k

\* The keys that some row names.
Row == {k \in Key : attachedTo[k] # None \/ IsPhoto(k)}

\* A purge has scanned the files of a task and holds the lock on the structure.
LockHeld == \E r \in Request : req[r].step = "erase"

At(r, step) == req[r].step = step

Finishes(r) == req' = [req EXCEPT ![r] = Resting]

\* What is left to remove; a request with nothing left is over.
ToRemove(keys) == IF keys = {} THEN Resting ELSE Begin("discard", None, None, None, keys)

\* put: the file is written under a key nobody ever had.
Put(k) ==
    /\ k \in Key \ drawn
    /\ drawn' = drawn \cup {k}
    /\ stored' = stored \cup {k}

\* discardPhoto and its like: the removal may fail, and only the log says so.
Discard(keys, removed) ==
    /\ stored' = stored \ removed
    /\ lost' = lost \cup (keys \ removed)

-----------------------------------------------------------------------------
(* Photos of contacts.                                                     *)

\* createContact stores the photo before anything is checked in the database.
CreateStore(r, c, k) ==
    /\ At(r, "idle")
    /\ photo[c] = None
    /\ Put(k)
    /\ req' = [req EXCEPT ![r] = Begin("create", c, k, None, {})]
    /\ UNCHANGED <<photo, attachedTo, task, lost, unacked>>

\* The organisation is not found: the answer leaves before the try block.
CreateRefused(r) ==
    /\ At(r, "create")
    /\ lost' = lost \cup {req[r].key}
    /\ Finishes(r)
    /\ UNCHANGED <<stored, drawn, photo, attachedTo, task, unacked>>

CreateInsert(r) ==
    /\ At(r, "create")
    /\ photo[req[r].of] = None
    /\ photo' = [photo EXCEPT ![req[r].of] = req[r].key]
    /\ Finishes(r)
    /\ UNCHANGED <<stored, drawn, attachedTo, task, lost, unacked>>

\* updateContact: the row is read, then the file is stored.
UpdateRead(r, c) ==
    /\ At(r, "idle")
    /\ req' = [req EXCEPT ![r] = Begin("update", c, None, photo[c], {})]
    /\ UNCHANGED <<stored, drawn, photo, attachedTo, task, lost, unacked>>

UpdateStore(r, k) ==
    /\ At(r, "update")
    /\ Put(k)
    /\ req' = [req EXCEPT ![r].step = "write", ![r].key = k]
    /\ UNCHANGED <<photo, attachedTo, task, lost, unacked>>

ClearFirst(r) ==   \* seeded fault: the file leaves before the row
    /\ At(r, "update")
    /\ stored' = stored \ {req[r].seen}
    /\ req' = [req EXCEPT ![r].step = "write"]
    /\ UNCHANGED <<drawn, photo, attachedTo, task, lost, unacked>>

\* removePhoto without a new file.
UpdateClear(r) ==
    /\ At(r, "update")
    /\ req' = [req EXCEPT ![r].step = "write"]
    /\ UNCHANGED <<stored, drawn, photo, attachedTo, task, lost, unacked>>

\* Neither a new photo nor a removal (or a refused file): no key is touched.
UpdateKeeps(r) ==
    /\ At(r, "update")
    /\ Finishes(r)
    /\ UNCHANGED <<stored, drawn, photo, attachedTo, task, lost, unacked>>

\* The old file leaves after the row. A photo written since the row was read
\* is replaced unseen.
UpdateWrite(r) ==
    LET c == req[r].of IN
    /\ At(r, "write")
    /\ photo' = [photo EXCEPT ![c] = req[r].key]
    /\ lost' = lost \cup ({photo[c]} \ {None, req[r].seen})
    /\ req' = [req EXCEPT ![r] = ToRemove({req[r].seen} \ {None})]
    /\ UNCHANGED <<stored, drawn, attachedTo, task, unacked>>

\* The database refuses the row, new or changed: the new file is discarded.
WriteFails(r) ==
    /\ At(r, "create") \/ At(r, "write")
    /\ \E removed \in SUBSET ({req[r].key} \ {None}) : Discard({req[r].key} \ {None}, removed)
    /\ Finishes(r)
    /\ UNCHANGED <<drawn, photo, attachedTo, task, unacked>>

-----------------------------------------------------------------------------
(* Attachments of tasks.                                                   *)

\* addAttachment: the right to edit (which an active task gives), then the file.
AttachStore(r, t, k) ==
    /\ At(r, "idle")
    /\ task[t] = "active"
    /\ Put(k)
    /\ req' = [req EXCEPT ![r] = Begin("insert", t, k, None, {})]
    /\ UNCHANGED <<photo, attachedTo, task, lost, unacked>>

\* The row is inserted whatever became of the task, as long as it exists.
AttachInsert(r) ==
    /\ At(r, "insert")
    /\ task[req[r].of] # "gone"
    /\ attachedTo' = [attachedTo EXCEPT ![req[r].key] = req[r].of]
    /\ Finishes(r)
    /\ UNCHANGED <<stored, drawn, photo, task, lost, unacked>>

AttachForgets(r) ==   \* seeded fault: a failed insertion leaves its file
    /\ At(r, "insert")
    /\ Finishes(r)
    /\ UNCHANGED <<stored, drawn, photo, attachedTo, task, lost, unacked>>

\* The transaction fails, as it must when the task is gone.
AttachFails(r) ==
    /\ At(r, "insert")
    /\ \E removed \in SUBSET {req[r].key} : Discard({req[r].key}, removed)
    /\ Finishes(r)
    /\ UNCHANGED <<drawn, photo, attachedTo, task, unacked>>

DetachRead(r, k) ==
    /\ At(r, "idle")
    /\ attachedTo[k] # None
    /\ task[attachedTo[k]] = "active"
    /\ req' = [req EXCEPT ![r] = Begin("detach", attachedTo[k], None, k, {})]
    /\ UNCHANGED <<stored, drawn, photo, attachedTo, task, lost, unacked>>

\* The row is deleted, then its file is to be removed; a row already gone ends
\* the request.
DetachDelete(r) ==
    LET k == req[r].seen IN
    /\ At(r, "detach")
    /\ attachedTo' = [attachedTo EXCEPT ![k] = None]
    /\ req' = [req EXCEPT ![r] = IF attachedTo[k] = None THEN Resting ELSE ToRemove({k})]
    /\ UNCHANGED <<stored, drawn, photo, task, lost, unacked>>

-----------------------------------------------------------------------------

\* The row is committed and the answer of the database never comes: the request takes it
\* for refused and discards the new file, and an old photo keeps its file without a row.
AnswerLost(r) ==
    LET k == req[r].key
        c == req[r].of IN
    /\ \/ /\ At(r, "write") \/ (At(r, "create") /\ photo[c] = None)
          /\ photo' = [photo EXCEPT ![c] = k]
          /\ UNCHANGED attachedTo
       \/ /\ At(r, "insert") /\ task[c] # "gone"
          /\ attachedTo' = [attachedTo EXCEPT ![k] = c]
          /\ UNCHANGED photo
    /\ \E removed \in SUBSET ({k} \ {None}) :
          stored' = stored \ removed /\ unacked' = unacked \cup removed
    /\ lost' = lost \cup {x \in Key : IsPhoto(x) /\ \A y \in Contact : photo'[y] # x}
    /\ Finishes(r)
    /\ UNCHANGED <<drawn, task>>

-----------------------------------------------------------------------------
(* Trash and purges.                                                       *)

DeleteTask(t) ==
    /\ ~LockHeld
    /\ task[t] = "active"
    /\ task' = [s \in Task |-> IF s \in Family(t) /\ task[s] = "active" THEN "trashed" ELSE task[s]]
    /\ UNCHANGED <<stored, drawn, photo, attachedTo, req, lost, unacked>>

RestoreTask(t) ==
    /\ ~LockHeld
    /\ task[t] = "trashed"
    /\ ParentOf[t] # None => task[ParentOf[t]] = "active"
    /\ task' = [s \in Task |-> IF s \in Family(t) /\ task[s] = "trashed" THEN "active" ELSE task[s]]
    /\ UNCHANGED <<stored, drawn, photo, attachedTo, req, lost, unacked>>

\* purgeTask reads the keys, then deletes: the task row is not locked in between.
PurgeScan(r, t) ==
    /\ At(r, "idle") /\ ~LockHeld
    /\ task[t] = "trashed"
    /\ req' = [req EXCEPT ![r] = Begin("erase", t, None, None, AttachmentsOf(Family(t)))]
    /\ UNCHANGED <<stored, drawn, photo, attachedTo, task, lost, unacked>>

Erase(ts) ==
    /\ task' = [s \in Task |-> IF s \in ts THEN "gone" ELSE task[s]]
    /\ attachedTo' = [k \in Key |-> IF attachedTo[k] \in ts THEN None ELSE attachedTo[k]]

\* Rows inserted since the scan go with the task, and their files stay.
PurgeDelete(r) ==
    LET ts == Family(req[r].of) IN
    /\ At(r, "erase")
    /\ Erase(ts)
    /\ lost' = lost \cup (AttachmentsOf(ts) \ req[r].doomed)
    /\ req' = [req EXCEPT ![r] = ToRemove(req[r].doomed)]
    /\ UNCHANGED <<stored, drawn, photo, unacked>>

\* purgeProject locks the rows of the tasks first: nothing is inserted in between.
PurgeProject(r, ts) ==
    /\ At(r, "idle") /\ ~LockHeld
    /\ \A t \in ts : task[t] # "gone" /\ Family(t) \subseteq ts
    /\ Erase(ts)
    /\ req' = [req EXCEPT ![r] = ToRemove(AttachmentsOf(ts))]
    /\ UNCHANGED <<stored, drawn, photo, lost, unacked>>

-----------------------------------------------------------------------------

\* One file after the other; a removal that fails is forgotten.
RemoveFile(r, k) ==
    /\ At(r, "discard")
    /\ k \in req[r].doomed
    /\ \E removed \in SUBSET {k} : Discard({k} \cap stored, removed)
    /\ req' = [req EXCEPT ![r] = ToRemove(req[r].doomed \ {k})]
    /\ UNCHANGED <<drawn, photo, attachedTo, task, unacked>>

\* The process stops: the transaction of a purge is rolled back, and nobody
\* remembers the files that were in hand.
Crash(r) ==
    /\ ~At(r, "idle")
    /\ lost' = lost \cup (CASE At(r, "erase") -> {}
                            [] At(r, "discard") -> req[r].doomed \cap stored
                            [] OTHER -> {req[r].key} \ {None})
    /\ Finishes(r)
    /\ UNCHANGED <<stored, drawn, photo, attachedTo, task, unacked>>

FilesNext ==
    \/ \E r \in Request :
          \/ \E c \in Contact, k \in Key : CreateStore(r, c, k)
          \/ CreateRefused(r)
          \/ CreateInsert(r)
          \/ \E c \in Contact : UpdateRead(r, c)
          \/ \E k \in Key : UpdateStore(r, k)
          \/ UpdateClear(r)
          \/ UpdateKeeps(r)
          \/ UpdateWrite(r)
          \/ WriteFails(r)
          \/ \E t \in Task, k \in Key : AttachStore(r, t, k)
          \/ AttachInsert(r)
          \/ AttachFails(r)
          \/ AnswerLost(r)
          \/ \E k \in Key : DetachRead(r, k)
          \/ DetachDelete(r)
          \/ \E t \in Task : PurgeScan(r, t)
          \/ PurgeDelete(r)
          \/ \E ts \in SUBSET Task : PurgeProject(r, ts)
          \/ \E k \in Key : RemoveFile(r, k)
          \/ Crash(r)
    \/ \E t \in Task : DeleteTask(t) \/ RestoreTask(t)

FilesSpec == FilesInit /\ [][FilesNext]_fileVars

-----------------------------------------------------------------------------

\* Every row names a file that is there: no contact points at an erased photo
\* (contacts/actions.ts:231) and no attachment of a task that exists, restored
\* ones included, has lost its file (service.ts:1352), but for a row whose own
\* insertion was committed without an answer.
RowsHaveFiles == Row \subseteq stored \cup unacked

\* A file that no row names is in the hands of a request, or was lost in one of
\* the ways known: a process stopped, a removal that failed, a creation refused
\* for its organisation, a photo replaced unseen or by a request that took itself
\* for refused, an attachment added while its task was being purged.
OrphansAreAccidents ==
    \A k \in stored \ Row :
       k \in lost \/ \E r \in Request : k = req[r].key \/ (At(r, "discard") /\ k \in req[r].doomed)

\* A file and its row come and go together, but for the accidents above.
FilesStand == RowsHaveFiles /\ OrphansAreAccidents
=============================================================================
