---------------------------- MODULE RecordsProofs -----------------------------
(***************************************************************************)
(* Proofs about the records of the CRM, for any number of rows, files,     *)
(* people and requests.                                                    *)
(* Files: no row ever names a file that is gone, and no file is left       *)
(* without a row but by a known accident.                                  *)
(* CrmLinks: the compare-and-set of an item protects what was checked on   *)
(* its link.  Crm: what a request has read and not written yet is kept     *)
(* beside the tables (WorkOK), and decides of each write.  Backups: the    *)
(* archives kept are the newest, and a run that is alone removes the       *)
(* oldest of the surplus only (Removable).                                 *)
(***************************************************************************)
EXTENDS Crm, CrmLinks, Backups, FiniteSetTheorems, WellFoundedInduction, TLAPS

(* Files.                                                                  *)

Storing == {"create", "write", "insert"}

\* What each step has in hand.
Shape ==
    \A r \in Request :
       /\ req[r].key # None => req[r].step \in Storing
       /\ req[r].step \in {"create", "insert"} => req[r].key # None
       /\ req[r].step \in {"create", "update", "write"} => req[r].of \in Contact
       /\ req[r].step \in {"insert", "erase"} => req[r].of \in Task
       /\ req[r].step = "detach" => req[r].seen # None
       /\ req[r].seen # None => req[r].step \in {"update", "write", "detach"}
       /\ req[r].doomed # {} => req[r].step \in {"erase", "discard"}

\* A file in hand is there, and only the request that stored it knows it.
InHandIsNew ==
    \A r \in Request : req[r].key # None =>
       /\ req[r].key \in stored \ Row
       /\ \A q \in Request :
             /\ q # r => req[q].key # req[r].key
             /\ req[q].seen # req[r].key
             /\ req[r].key \notin req[q].doomed

\* Two rows never name the same file.
RowsApart ==
    /\ \A k \in Key : IsPhoto(k) => attachedTo[k] = None
    /\ \A c, d \in Contact : c # d /\ photo[c] # None => photo[c] # photo[d]

\* What a request is to remove is named by no row, or by the row it deletes first.
DoomedIsFree ==
    \A r \in Request :
       /\ req[r].step \in {"update", "write"} /\ req[r].seen # None =>
             /\ attachedTo[req[r].seen] = None
             /\ \A c \in Contact : c # req[r].of => photo[c] # req[r].seen
       /\ req[r].step = "detach" => ~IsPhoto(req[r].seen)
       /\ req[r].step = "erase" =>
             \A k \in req[r].doomed : ~IsPhoto(k) /\ attachedTo[k] \in Family(req[r].of) \cup {None}
       /\ req[r].step = "discard" => req[r].doomed \cap Row = {}

FilesIInv ==
    /\ FilesTypeOK
    /\ Shape
    /\ InHandIsNew
    /\ RowsApart
    /\ DoomedIsFree
    /\ RowsHaveFiles
    /\ OrphansAreAccidents

Hand(keys) == [step: Step, of: Contact \cup Task \cup {None}, key: keys \cup {None},
               seen: keys \cup {None}, doomed: SUBSET keys]

\* The records a request goes through have their type.
LEMMA HandTypes ==
    ASSUME NEW keys
    PROVE  /\ Resting \in Hand(keys)
           /\ \A step \in Step, of \in Contact \cup Task \cup {None}, key \in keys \cup {None},
                 seen \in keys \cup {None}, doomed \in SUBSET keys :
                    Begin(step, of, key, seen, doomed) \in Hand(keys)
           /\ \A doomed \in SUBSET keys : ToRemove(doomed) \in Hand(keys)
  BY DEF Resting, Begin, ToRemove, Hand, Step

\* The new file is in the hands of its request alone.
LEMMA CreateStoreKeeps ==
    ASSUME FilesIInv, NEW r \in Request, NEW c \in Contact, NEW k \in Key, CreateStore(r, c, k)
    PROVE  FilesIInv'
<1> USE NotNone, ParentType DEF FilesIInv
<1>1. FilesTypeOK'
  BY DEF CreateStore, At, Put, Begin, Step, FilesTypeOK
<1>2. Shape'
  BY DEF CreateStore, At, Put, Begin, Storing, Step, FilesTypeOK, Shape
<1>3. InHandIsNew'
  <2>1. k \notin Row /\ \A q \in Request : req[q].key # k /\ req[q].seen # k /\ k \notin req[q].doomed
    BY DEF RowsHaveFiles, FilesTypeOK, Put, CreateStore
  <2>2. Row' = Row /\ stored \subseteq stored' /\ k \in stored'
    BY DEF Row, IsPhoto, Put, CreateStore
  <2>3. \A q \in Request : q # r => req'[q] = req[q]
    BY DEF FilesTypeOK, CreateStore
  <2>4. req'[r].key = k /\ req'[r].seen = None /\ req'[r].doomed = {} /\ k # None
    BY DEF FilesTypeOK, Begin, Put, CreateStore
  <2> QED BY <2>1, <2>2, <2>3, <2>4 DEF InHandIsNew
<1>4. RowsApart'
  BY DEF CreateStore, At, Put, Begin, IsPhoto, InHandIsNew, Row, Shape, Storing, FilesTypeOK, RowsApart
<1>5. DoomedIsFree'
  BY DEF CreateStore, At, Put, Begin, Row, IsPhoto, InHandIsNew, Shape, Storing, RowsApart, Family, FilesTypeOK, DoomedIsFree
<1>6. RowsHaveFiles'
  BY DEF CreateStore, At, Put, Begin, Row, IsPhoto, InHandIsNew, DoomedIsFree, Shape, FilesTypeOK, RowsHaveFiles
<1>7. OrphansAreAccidents'
  BY DEF CreateStore, At, Put, Begin, Row, IsPhoto, Shape, Storing, InHandIsNew, DoomedIsFree, FilesTypeOK, OrphansAreAccidents
<1> QED BY <1>1, <1>2, <1>3, <1>4, <1>5, <1>6, <1>7

\* The file of a refused creation is lost, and nobody's row.
LEMMA CreateRefusedKeeps ==
    ASSUME FilesIInv, NEW r \in Request, CreateRefused(r)
    PROVE  FilesIInv'
<1> USE NotNone, ParentType DEF FilesIInv
<1>1. FilesTypeOK'
  <2>1. Resting \in Hand(drawn)
    BY HandTypes DEF FilesTypeOK, Step, RowsHaveFiles, Row, Shape, Storing, CreateRefused, At, Finishes
  <2>2. req' \in [Request -> Hand(drawn')]
    BY <2>1 DEF FilesTypeOK, Hand, CreateRefused, At, Finishes
  <2>3. /\ stored' \subseteq drawn' /\ drawn' \subseteq Key /\ lost' \subseteq drawn' /\ unacked' \subseteq drawn'
        /\ photo' \in [Contact -> drawn' \cup {None}]
    BY DEF FilesTypeOK, Shape, Storing, InHandIsNew, RowsHaveFiles, Row, CreateRefused, At, Finishes
  <2>4. /\ attachedTo' \in [Key -> Task \cup {None}]
        /\ task' \in [Task -> {"active", "trashed", "gone"}]
    BY DEF FilesTypeOK, Shape, CreateRefused, At, Finishes
  <2> QED BY <2>2, <2>3, <2>4 DEF FilesTypeOK, Hand
<1>2. Shape'
  BY DEF CreateRefused, At, Finishes, Resting, Storing, Step, FilesTypeOK, Shape
<1>3. InHandIsNew'
  BY DEF CreateRefused, At, Finishes, Resting, Row, IsPhoto, Shape, Storing, FilesTypeOK, InHandIsNew
<1>4. RowsApart'
  BY DEF CreateRefused, At, Finishes, Resting, IsPhoto, InHandIsNew, Row, Shape, Storing, FilesTypeOK, RowsApart
<1>5. DoomedIsFree'
  BY DEF CreateRefused, At, Finishes, Resting, Row, IsPhoto, InHandIsNew, Shape, Storing, RowsApart, Family, FilesTypeOK, DoomedIsFree
<1>6. RowsHaveFiles'
  BY DEF CreateRefused, At, Finishes, Resting, Row, IsPhoto, InHandIsNew, DoomedIsFree, Shape, FilesTypeOK, RowsHaveFiles
<1>7. OrphansAreAccidents'
  BY DEF CreateRefused, At, Finishes, Resting, Row, IsPhoto, Shape, Storing, InHandIsNew, DoomedIsFree, FilesTypeOK, OrphansAreAccidents
<1> QED BY <1>1, <1>2, <1>3, <1>4, <1>5, <1>6, <1>7

\* The file passes from the hands of the request to the row.
LEMMA CreateInsertKeeps ==
    ASSUME FilesIInv, NEW r \in Request, CreateInsert(r)
    PROVE  FilesIInv'
<1> USE NotNone, ParentType DEF FilesIInv
<1>1. FilesTypeOK'
  BY DEF CreateInsert, At, Finishes, Resting, Step, FilesTypeOK
<1>2. Shape'
  BY DEF CreateInsert, At, Finishes, Resting, Storing, Step, FilesTypeOK, Shape
<1>3. InHandIsNew'
  BY DEF CreateInsert, At, Finishes, Resting, Row, IsPhoto, Shape, Storing, FilesTypeOK, InHandIsNew
<1>4. RowsApart'
  BY DEF CreateInsert, At, Finishes, Resting, IsPhoto, InHandIsNew, Row, Shape, Storing, FilesTypeOK, RowsApart
<1>5. DoomedIsFree'
  BY DEF CreateInsert, At, Finishes, Resting, Row, IsPhoto, InHandIsNew, Shape, Storing, RowsApart, Family, FilesTypeOK, DoomedIsFree
<1>6. RowsHaveFiles'
  BY DEF CreateInsert, At, Finishes, Resting, Row, IsPhoto, InHandIsNew, DoomedIsFree, Shape, FilesTypeOK, RowsHaveFiles
<1>7. OrphansAreAccidents'
  BY DEF CreateInsert, At, Finishes, Resting, Row, IsPhoto, Shape, Storing, InHandIsNew, DoomedIsFree, FilesTypeOK, OrphansAreAccidents
<1> QED BY <1>1, <1>2, <1>3, <1>4, <1>5, <1>6, <1>7

\* The photo read is the photo of that contact only.
LEMMA UpdateReadKeeps ==
    ASSUME FilesIInv, NEW r \in Request, NEW c \in Contact, UpdateRead(r, c)
    PROVE  FilesIInv'
<1> USE NotNone, ParentType DEF FilesIInv
<1>1. FilesTypeOK'
  BY DEF UpdateRead, At, Begin, Step, FilesTypeOK
<1>2. Shape'
  BY DEF UpdateRead, At, Begin, Storing, Step, FilesTypeOK, Shape
<1>3. InHandIsNew'
  BY DEF UpdateRead, At, Begin, Row, IsPhoto, Shape, Storing, FilesTypeOK, InHandIsNew
<1>4. RowsApart'
  BY DEF UpdateRead, At, Begin, IsPhoto, InHandIsNew, Row, Shape, Storing, FilesTypeOK, RowsApart
<1>5. DoomedIsFree'
  BY DEF UpdateRead, At, Begin, Row, IsPhoto, InHandIsNew, Shape, Storing, RowsApart, Family, FilesTypeOK, DoomedIsFree
<1>6. RowsHaveFiles'
  BY DEF UpdateRead, At, Begin, Row, IsPhoto, InHandIsNew, DoomedIsFree, Shape, FilesTypeOK, RowsHaveFiles
<1>7. OrphansAreAccidents'
  BY DEF UpdateRead, At, Begin, Row, IsPhoto, Shape, Storing, InHandIsNew, DoomedIsFree, FilesTypeOK, OrphansAreAccidents
<1> QED BY <1>1, <1>2, <1>3, <1>4, <1>5, <1>6, <1>7

\* The old photo stays known to the request beside the new file.
LEMMA UpdateStoreKeeps ==
    ASSUME FilesIInv, NEW r \in Request, NEW k \in Key, UpdateStore(r, k)
    PROVE  FilesIInv'
<1> USE NotNone, ParentType DEF FilesIInv
<1>1. FilesTypeOK'
  BY DEF UpdateStore, At, Put, Step, FilesTypeOK
<1>2. Shape'
  BY DEF UpdateStore, At, Put, Storing, Step, FilesTypeOK, Shape
<1>3. InHandIsNew'
  BY DEF UpdateStore, At, Put, Row, IsPhoto, Shape, Storing, FilesTypeOK, InHandIsNew
<1>4. RowsApart'
  BY DEF UpdateStore, At, Put, IsPhoto, InHandIsNew, Row, Shape, Storing, FilesTypeOK, RowsApart
<1>5. DoomedIsFree'
  BY DEF UpdateStore, At, Put, Row, IsPhoto, InHandIsNew, Shape, Storing, RowsApart, Family, FilesTypeOK, DoomedIsFree
<1>6. RowsHaveFiles'
  BY DEF UpdateStore, At, Put, Row, IsPhoto, InHandIsNew, DoomedIsFree, Shape, FilesTypeOK, RowsHaveFiles
<1>7. OrphansAreAccidents'
  BY DEF UpdateStore, At, Put, Row, IsPhoto, Shape, Storing, InHandIsNew, DoomedIsFree, FilesTypeOK, OrphansAreAccidents
<1> QED BY <1>1, <1>2, <1>3, <1>4, <1>5, <1>6, <1>7

\* Nothing but the step changes.
LEMMA UpdateClearKeeps ==
    ASSUME FilesIInv, NEW r \in Request, UpdateClear(r)
    PROVE  FilesIInv'
<1> USE NotNone, ParentType DEF FilesIInv
<1>1. FilesTypeOK'
  BY DEF UpdateClear, At, Step, FilesTypeOK
<1>2. Shape'
  BY DEF UpdateClear, At, Storing, Step, FilesTypeOK, Shape
<1>3. InHandIsNew'
  BY DEF UpdateClear, At, Row, IsPhoto, Shape, Storing, FilesTypeOK, InHandIsNew
<1>4. RowsApart'
  BY DEF UpdateClear, At, IsPhoto, InHandIsNew, Row, Shape, Storing, FilesTypeOK, RowsApart
<1>5. DoomedIsFree'
  BY DEF UpdateClear, At, Row, IsPhoto, InHandIsNew, Shape, Storing, RowsApart, Family, FilesTypeOK, DoomedIsFree
<1>6. RowsHaveFiles'
  BY DEF UpdateClear, At, Row, IsPhoto, InHandIsNew, DoomedIsFree, Shape, FilesTypeOK, RowsHaveFiles
<1>7. OrphansAreAccidents'
  BY DEF UpdateClear, At, Row, IsPhoto, Shape, Storing, InHandIsNew, DoomedIsFree, FilesTypeOK, OrphansAreAccidents
<1> QED BY <1>1, <1>2, <1>3, <1>4, <1>5, <1>6, <1>7

\* The request ends with nothing in hand.
LEMMA UpdateKeepsKeeps ==
    ASSUME FilesIInv, NEW r \in Request, UpdateKeeps(r)
    PROVE  FilesIInv'
<1> USE NotNone, ParentType DEF FilesIInv
<1>1. FilesTypeOK'
  BY DEF UpdateKeeps, At, Finishes, Resting, Step, FilesTypeOK
<1>2. Shape'
  BY DEF UpdateKeeps, At, Finishes, Resting, Storing, Step, FilesTypeOK, Shape
<1>3. InHandIsNew'
  BY DEF UpdateKeeps, At, Finishes, Resting, Row, IsPhoto, Shape, Storing, FilesTypeOK, InHandIsNew
<1>4. RowsApart'
  BY DEF UpdateKeeps, At, Finishes, Resting, IsPhoto, InHandIsNew, Row, Shape, Storing, FilesTypeOK, RowsApart
<1>5. DoomedIsFree'
  BY DEF UpdateKeeps, At, Finishes, Resting, Row, IsPhoto, InHandIsNew, Shape, Storing, RowsApart, Family, FilesTypeOK, DoomedIsFree
<1>6. RowsHaveFiles'
  BY DEF UpdateKeeps, At, Finishes, Resting, Row, IsPhoto, InHandIsNew, DoomedIsFree, Shape, FilesTypeOK, RowsHaveFiles
<1>7. OrphansAreAccidents'
  BY DEF UpdateKeeps, At, Finishes, Resting, Row, IsPhoto, Shape, Storing, InHandIsNew, DoomedIsFree, FilesTypeOK, OrphansAreAccidents
<1> QED BY <1>1, <1>2, <1>3, <1>4, <1>5, <1>6, <1>7

\* The old photo has no row once the new one is written, and only then is it doomed.
LEMMA UpdateWriteKeeps ==
    ASSUME FilesIInv, NEW r \in Request, UpdateWrite(r)
    PROVE  FilesIInv'
<1> USE NotNone, ParentType DEF FilesIInv
<1>1. FilesTypeOK'
  <2>1. ToRemove({req[r].seen} \ {None}) \in Hand(drawn)
    BY HandTypes DEF FilesTypeOK, Step, RowsHaveFiles, Row, Shape, Storing, UpdateWrite, At
  <2>2. req' \in [Request -> Hand(drawn')]
    BY <2>1 DEF FilesTypeOK, Hand, UpdateWrite, At
  <2>3. /\ stored' \subseteq drawn' /\ drawn' \subseteq Key /\ lost' \subseteq drawn' /\ unacked' \subseteq drawn'
        /\ photo' \in [Contact -> drawn' \cup {None}]
    BY DEF FilesTypeOK, Shape, Storing, InHandIsNew, RowsHaveFiles, Row, UpdateWrite, At
  <2>4. /\ attachedTo' \in [Key -> Task \cup {None}]
        /\ task' \in [Task -> {"active", "trashed", "gone"}]
    BY DEF FilesTypeOK, Shape, UpdateWrite, At
  <2> QED BY <2>2, <2>3, <2>4 DEF FilesTypeOK, Hand
<1>2. Shape'
  BY DEF UpdateWrite, At, ToRemove, Resting, Begin, Storing, Step, FilesTypeOK, Shape
<1>3. InHandIsNew'
  BY DEF UpdateWrite, At, ToRemove, Resting, Begin, Row, IsPhoto, Shape, Storing, FilesTypeOK, InHandIsNew
<1>4. RowsApart'
  BY DEF UpdateWrite, At, ToRemove, Resting, Begin, IsPhoto, InHandIsNew, Row, Shape, Storing, FilesTypeOK, RowsApart
<1>5. DoomedIsFree'
  BY DEF UpdateWrite, At, ToRemove, Resting, Begin, Row, IsPhoto, InHandIsNew, Shape, Storing, RowsApart, Family, FilesTypeOK, DoomedIsFree
<1>6. RowsHaveFiles'
  BY DEF UpdateWrite, At, ToRemove, Resting, Begin, Row, IsPhoto, InHandIsNew, DoomedIsFree, Shape, FilesTypeOK, RowsHaveFiles
<1>7. OrphansAreAccidents'
  BY DEF UpdateWrite, At, ToRemove, Resting, Begin, Row, IsPhoto, Shape, Storing, InHandIsNew, DoomedIsFree, FilesTypeOK, OrphansAreAccidents
<1> QED BY <1>1, <1>2, <1>3, <1>4, <1>5, <1>6, <1>7

\* The file removed was in hand, so no row names it.
LEMMA WriteFailsKeeps ==
    ASSUME FilesIInv, NEW r \in Request, WriteFails(r)
    PROVE  FilesIInv'
<1> USE NotNone, ParentType DEF FilesIInv
<1>1. FilesTypeOK'
  BY DEF WriteFails, At, Discard, Finishes, Resting, Step, FilesTypeOK
<1>2. Shape'
  BY DEF WriteFails, At, Discard, Finishes, Resting, Storing, Step, FilesTypeOK, Shape
<1>3. InHandIsNew'
  BY DEF WriteFails, At, Discard, Finishes, Resting, Row, IsPhoto, Shape, Storing, FilesTypeOK, InHandIsNew
<1>4. RowsApart'
  BY DEF WriteFails, At, Discard, Finishes, Resting, IsPhoto, InHandIsNew, Row, Shape, Storing, FilesTypeOK, RowsApart
<1>5. DoomedIsFree'
  BY DEF WriteFails, At, Discard, Finishes, Resting, Row, IsPhoto, InHandIsNew, Shape, Storing, RowsApart, Family, FilesTypeOK, DoomedIsFree
<1>6. RowsHaveFiles'
  BY DEF WriteFails, At, Discard, Finishes, Resting, Row, IsPhoto, InHandIsNew, DoomedIsFree, Shape, FilesTypeOK, RowsHaveFiles
<1>7. OrphansAreAccidents'
  BY DEF WriteFails, At, Discard, Finishes, Resting, Row, IsPhoto, Shape, Storing, InHandIsNew, DoomedIsFree, FilesTypeOK, OrphansAreAccidents
<1> QED BY <1>1, <1>2, <1>3, <1>4, <1>5, <1>6, <1>7

\* As for a photo.
LEMMA AttachStoreKeeps ==
    ASSUME FilesIInv, NEW r \in Request, NEW t \in Task, NEW k \in Key, AttachStore(r, t, k)
    PROVE  FilesIInv'
<1> USE NotNone, ParentType DEF FilesIInv
<1>1. FilesTypeOK'
  BY DEF AttachStore, At, Put, Begin, Step, FilesTypeOK
<1>2. Shape'
  BY DEF AttachStore, At, Put, Begin, Storing, Step, FilesTypeOK, Shape
<1>3. InHandIsNew'
  <2>1. k \notin Row /\ \A q \in Request : req[q].key # k /\ req[q].seen # k /\ k \notin req[q].doomed
    BY DEF RowsHaveFiles, FilesTypeOK, Put, AttachStore
  <2>2. Row' = Row /\ stored \subseteq stored' /\ k \in stored'
    BY DEF Row, IsPhoto, Put, AttachStore
  <2>3. \A q \in Request : q # r => req'[q] = req[q]
    BY DEF FilesTypeOK, AttachStore
  <2>4. req'[r].key = k /\ req'[r].seen = None /\ req'[r].doomed = {} /\ k # None
    BY DEF FilesTypeOK, Begin, Put, AttachStore
  <2> QED BY <2>1, <2>2, <2>3, <2>4 DEF InHandIsNew
<1>4. RowsApart'
  BY DEF AttachStore, At, Put, Begin, IsPhoto, InHandIsNew, Row, Shape, Storing, FilesTypeOK, RowsApart
<1>5. DoomedIsFree'
  BY DEF AttachStore, At, Put, Begin, Row, IsPhoto, InHandIsNew, Shape, Storing, RowsApart, Family, FilesTypeOK, DoomedIsFree
<1>6. RowsHaveFiles'
  BY DEF AttachStore, At, Put, Begin, Row, IsPhoto, InHandIsNew, DoomedIsFree, Shape, FilesTypeOK, RowsHaveFiles
<1>7. OrphansAreAccidents'
  BY DEF AttachStore, At, Put, Begin, Row, IsPhoto, Shape, Storing, InHandIsNew, DoomedIsFree, FilesTypeOK, OrphansAreAccidents
<1> QED BY <1>1, <1>2, <1>3, <1>4, <1>5, <1>6, <1>7

\* As for a photo.
LEMMA AttachInsertKeeps ==
    ASSUME FilesIInv, NEW r \in Request, AttachInsert(r)
    PROVE  FilesIInv'
<1> USE NotNone, ParentType DEF FilesIInv
<1>1. FilesTypeOK'
  <2>1. Resting \in Hand(drawn)
    BY HandTypes DEF FilesTypeOK, Step, RowsHaveFiles, Row, Shape, Storing, AttachInsert, At, Finishes
  <2>2. req' \in [Request -> Hand(drawn')]
    BY <2>1 DEF FilesTypeOK, Hand, AttachInsert, At, Finishes
  <2>3. /\ stored' \subseteq drawn' /\ drawn' \subseteq Key /\ lost' \subseteq drawn' /\ unacked' \subseteq drawn'
        /\ photo' \in [Contact -> drawn' \cup {None}]
    BY DEF FilesTypeOK, Shape, Storing, InHandIsNew, RowsHaveFiles, Row, AttachInsert, At, Finishes
  <2>4. /\ attachedTo' \in [Key -> Task \cup {None}]
        /\ task' \in [Task -> {"active", "trashed", "gone"}]
    BY DEF FilesTypeOK, Shape, AttachInsert, At, Finishes
  <2> QED BY <2>2, <2>3, <2>4 DEF FilesTypeOK, Hand
<1>2. Shape'
  BY DEF AttachInsert, At, Finishes, Resting, Storing, Step, FilesTypeOK, Shape
<1>3. InHandIsNew'
  BY DEF AttachInsert, At, Finishes, Resting, Row, IsPhoto, Shape, Storing, FilesTypeOK, InHandIsNew
<1>4. RowsApart'
  BY DEF AttachInsert, At, Finishes, Resting, IsPhoto, InHandIsNew, Row, Shape, Storing, FilesTypeOK, RowsApart
<1>5. DoomedIsFree'
  BY DEF AttachInsert, At, Finishes, Resting, Row, IsPhoto, InHandIsNew, Shape, Storing, RowsApart, Family, FilesTypeOK, DoomedIsFree
<1>6. RowsHaveFiles'
  BY DEF AttachInsert, At, Finishes, Resting, Row, IsPhoto, InHandIsNew, DoomedIsFree, Shape, FilesTypeOK, RowsHaveFiles
<1>7. OrphansAreAccidents'
  BY DEF AttachInsert, At, Finishes, Resting, Row, IsPhoto, Shape, Storing, InHandIsNew, DoomedIsFree, FilesTypeOK, OrphansAreAccidents
<1> QED BY <1>1, <1>2, <1>3, <1>4, <1>5, <1>6, <1>7

\* As for a photo.
LEMMA AttachFailsKeeps ==
    ASSUME FilesIInv, NEW r \in Request, AttachFails(r)
    PROVE  FilesIInv'
<1> USE NotNone, ParentType DEF FilesIInv
<1>1. FilesTypeOK'
  <2>1. Resting \in Hand(drawn)
    BY HandTypes DEF FilesTypeOK, Step, RowsHaveFiles, Row, Shape, Storing, AttachFails, At, Discard, Finishes
  <2>2. req' \in [Request -> Hand(drawn')]
    BY <2>1 DEF FilesTypeOK, Hand, AttachFails, At, Discard, Finishes
  <2>3. /\ stored' \subseteq drawn' /\ drawn' \subseteq Key /\ lost' \subseteq drawn' /\ unacked' \subseteq drawn'
        /\ photo' \in [Contact -> drawn' \cup {None}]
    BY DEF FilesTypeOK, Shape, Storing, InHandIsNew, RowsHaveFiles, Row, AttachFails, At, Discard, Finishes
  <2>4. /\ attachedTo' \in [Key -> Task \cup {None}]
        /\ task' \in [Task -> {"active", "trashed", "gone"}]
    BY DEF FilesTypeOK, Shape, AttachFails, At, Discard, Finishes
  <2> QED BY <2>2, <2>3, <2>4 DEF FilesTypeOK, Hand
<1>2. Shape'
  BY DEF AttachFails, At, Discard, Finishes, Resting, Storing, Step, FilesTypeOK, Shape
<1>3. InHandIsNew'
  BY DEF AttachFails, At, Discard, Finishes, Resting, Row, IsPhoto, Shape, Storing, FilesTypeOK, InHandIsNew
<1>4. RowsApart'
  BY DEF AttachFails, At, Discard, Finishes, Resting, IsPhoto, InHandIsNew, Row, Shape, Storing, FilesTypeOK, RowsApart
<1>5. DoomedIsFree'
  BY DEF AttachFails, At, Discard, Finishes, Resting, Row, IsPhoto, InHandIsNew, Shape, Storing, RowsApart, Family, FilesTypeOK, DoomedIsFree
<1>6. RowsHaveFiles'
  BY DEF AttachFails, At, Discard, Finishes, Resting, Row, IsPhoto, InHandIsNew, DoomedIsFree, Shape, FilesTypeOK, RowsHaveFiles
<1>7. OrphansAreAccidents'
  BY DEF AttachFails, At, Discard, Finishes, Resting, Row, IsPhoto, Shape, Storing, InHandIsNew, DoomedIsFree, FilesTypeOK, OrphansAreAccidents
<1> QED BY <1>1, <1>2, <1>3, <1>4, <1>5, <1>6, <1>7

\* The new row names the file its request discards: the key is noted as unacknowledged.
LEMMA AnswerLostKeeps ==
    ASSUME FilesIInv, NEW r \in Request, AnswerLost(r)
    PROVE  FilesIInv'
<1> USE NotNone, ParentType DEF FilesIInv
<1>1. FilesTypeOK'
  <2>1. Resting \in Hand(drawn)
    BY HandTypes DEF FilesTypeOK, Step, RowsHaveFiles, Row, Shape, Storing, AnswerLost, At, Finishes
  <2>2. req' \in [Request -> Hand(drawn')]
    BY <2>1 DEF FilesTypeOK, Hand, AnswerLost, At, Finishes
  <2>3. /\ stored' \subseteq drawn' /\ drawn' \subseteq Key /\ lost' \subseteq drawn' /\ unacked' \subseteq drawn'
        /\ photo' \in [Contact -> drawn' \cup {None}]
    BY DEF FilesTypeOK, Shape, Storing, InHandIsNew, RowsHaveFiles, Row, AnswerLost, At, Finishes
  <2>4. /\ attachedTo' \in [Key -> Task \cup {None}]
        /\ task' \in [Task -> {"active", "trashed", "gone"}]
    BY DEF FilesTypeOK, Shape, AnswerLost, At, Finishes
  <2> QED BY <2>2, <2>3, <2>4 DEF FilesTypeOK, Hand
<1>2. Shape'
  BY DEF AnswerLost, At, Finishes, Resting, Storing, Step, FilesTypeOK, Shape
<1>3. InHandIsNew'
  BY DEF AnswerLost, At, Finishes, Resting, Row, IsPhoto, Shape, Storing, FilesTypeOK, InHandIsNew
<1>4. RowsApart'
  BY DEF AnswerLost, At, Finishes, Resting, IsPhoto, InHandIsNew, Row, Shape, Storing, FilesTypeOK, RowsApart
<1>5. DoomedIsFree'
  BY DEF AnswerLost, At, Finishes, Resting, Row, IsPhoto, InHandIsNew, Shape, Storing, RowsApart, Family, FilesTypeOK, DoomedIsFree
<1>6. RowsHaveFiles'
  BY DEF AnswerLost, At, Finishes, Resting, Row, IsPhoto, InHandIsNew, DoomedIsFree, Shape, FilesTypeOK, RowsHaveFiles
<1>7. OrphansAreAccidents'
  BY DEF AnswerLost, At, Finishes, Resting, Row, IsPhoto, Shape, Storing, InHandIsNew, DoomedIsFree, FilesTypeOK, OrphansAreAccidents
<1> QED BY <1>1, <1>2, <1>3, <1>4, <1>5, <1>6, <1>7

\* The key of an attachment is no photo.
LEMMA DetachReadKeeps ==
    ASSUME FilesIInv, NEW r \in Request, NEW k \in Key, DetachRead(r, k)
    PROVE  FilesIInv'
<1> USE NotNone, ParentType DEF FilesIInv
<1>1. FilesTypeOK'
  <2>1. Begin("detach", attachedTo[k], None, k, {}) \in Hand(drawn)
    BY HandTypes DEF FilesTypeOK, Step, RowsHaveFiles, Row, Shape, Storing, DetachRead, At
  <2>2. req' \in [Request -> Hand(drawn')]
    BY <2>1 DEF FilesTypeOK, Hand, DetachRead, At
  <2>3. /\ stored' \subseteq drawn' /\ drawn' \subseteq Key /\ lost' \subseteq drawn' /\ unacked' \subseteq drawn'
        /\ photo' \in [Contact -> drawn' \cup {None}]
    BY DEF FilesTypeOK, Shape, Storing, InHandIsNew, RowsHaveFiles, Row, DetachRead, At
  <2>4. /\ attachedTo' \in [Key -> Task \cup {None}]
        /\ task' \in [Task -> {"active", "trashed", "gone"}]
    BY DEF FilesTypeOK, Shape, DetachRead, At
  <2> QED BY <2>2, <2>3, <2>4 DEF FilesTypeOK, Hand
<1>2. Shape'
  BY DEF DetachRead, At, Begin, Storing, Step, FilesTypeOK, Shape
<1>3. InHandIsNew'
  BY DEF DetachRead, At, Begin, Row, IsPhoto, Shape, Storing, FilesTypeOK, InHandIsNew
<1>4. RowsApart'
  BY DEF DetachRead, At, Begin, IsPhoto, InHandIsNew, Row, Shape, Storing, FilesTypeOK, RowsApart
<1>5. DoomedIsFree'
  BY DEF DetachRead, At, Begin, Row, IsPhoto, InHandIsNew, Shape, Storing, RowsApart, Family, FilesTypeOK, DoomedIsFree
<1>6. RowsHaveFiles'
  BY DEF DetachRead, At, Begin, Row, IsPhoto, InHandIsNew, DoomedIsFree, Shape, FilesTypeOK, RowsHaveFiles
<1>7. OrphansAreAccidents'
  BY DEF DetachRead, At, Begin, Row, IsPhoto, Shape, Storing, InHandIsNew, DoomedIsFree, FilesTypeOK, OrphansAreAccidents
<1> QED BY <1>1, <1>2, <1>3, <1>4, <1>5, <1>6, <1>7

\* The row goes before the file is doomed.
LEMMA DetachDeleteKeeps ==
    ASSUME FilesIInv, NEW r \in Request, DetachDelete(r)
    PROVE  FilesIInv'
<1> USE NotNone, ParentType DEF FilesIInv
<1>1. FilesTypeOK'
  <2>1. Resting \in Hand(drawn) /\ ToRemove({req[r].seen}) \in Hand(drawn)
    BY HandTypes DEF FilesTypeOK, Step, RowsHaveFiles, Row, Shape, Storing, DetachDelete, At
  <2>2. req' \in [Request -> Hand(drawn')]
    BY <2>1 DEF FilesTypeOK, Hand, DetachDelete, At
  <2>3. /\ stored' \subseteq drawn' /\ drawn' \subseteq Key /\ lost' \subseteq drawn' /\ unacked' \subseteq drawn'
        /\ photo' \in [Contact -> drawn' \cup {None}]
    BY DEF FilesTypeOK, Shape, Storing, InHandIsNew, RowsHaveFiles, Row, DetachDelete, At
  <2>4. /\ attachedTo' \in [Key -> Task \cup {None}]
        /\ task' \in [Task -> {"active", "trashed", "gone"}]
    BY DEF FilesTypeOK, Shape, DetachDelete, At
  <2> QED BY <2>2, <2>3, <2>4 DEF FilesTypeOK, Hand
<1>2. Shape'
  BY DEF DetachDelete, At, ToRemove, Resting, Begin, Storing, Step, FilesTypeOK, Shape
<1>3. InHandIsNew'
  BY DEF DetachDelete, At, ToRemove, Resting, Begin, Row, IsPhoto, Shape, Storing, FilesTypeOK, InHandIsNew
<1>4. RowsApart'
  BY DEF DetachDelete, At, ToRemove, Resting, Begin, IsPhoto, InHandIsNew, Row, Shape, Storing, FilesTypeOK, RowsApart
<1>5. DoomedIsFree'
  BY DEF DetachDelete, At, ToRemove, Resting, Begin, Row, IsPhoto, InHandIsNew, Shape, Storing, RowsApart, Family, FilesTypeOK, DoomedIsFree
<1>6. RowsHaveFiles'
  BY DEF DetachDelete, At, ToRemove, Resting, Begin, Row, IsPhoto, InHandIsNew, DoomedIsFree, Shape, FilesTypeOK, RowsHaveFiles
<1>7. OrphansAreAccidents'
  <2>1. \A k \in Row : k \in Row' \/ (attachedTo[k] # None /\ k = req[r].seen)
    BY DEF DetachDelete, Row, IsPhoto, FilesTypeOK
  <2>2. req[r].key = None /\ req[r].step = "detach"
    BY DEF DetachDelete, At, Shape, Storing
  <2>3. \A q \in Request : q # r => req'[q] = req[q]
    BY DEF DetachDelete, FilesTypeOK
  <2>4. attachedTo[req[r].seen] # None =>
           req'[r].step = "discard" /\ req'[r].doomed = {req[r].seen}
    BY DEF DetachDelete, FilesTypeOK, ToRemove, Begin
  <2>5. stored' = stored /\ lost' = lost
    BY DEF DetachDelete
  <2> QED BY <2>1, <2>2, <2>3, <2>4, <2>5 DEF OrphansAreAccidents, At, FilesTypeOK
<1> QED BY <1>1, <1>2, <1>3, <1>4, <1>5, <1>6, <1>7

\* The trash moves no file.
LEMMA TaskTrashKeeps ==
    ASSUME FilesIInv, NEW t \in Task, DeleteTask(t) \/ RestoreTask(t)
    PROVE  FilesIInv'
<1> USE NotNone, ParentType DEF FilesIInv
<1>1. FilesTypeOK'
  BY DEF DeleteTask, RestoreTask, Step, FilesTypeOK
<1>2. Shape'
  BY DEF DeleteTask, RestoreTask, Storing, Step, FilesTypeOK, Shape
<1>3. InHandIsNew'
  BY DEF DeleteTask, RestoreTask, Row, IsPhoto, Shape, Storing, FilesTypeOK, InHandIsNew
<1>4. RowsApart'
  BY DEF DeleteTask, RestoreTask, IsPhoto, InHandIsNew, Row, Shape, Storing, FilesTypeOK, RowsApart
<1>5. DoomedIsFree'
  BY DEF DeleteTask, RestoreTask, Row, IsPhoto, InHandIsNew, Shape, Storing, RowsApart, Family, FilesTypeOK, DoomedIsFree
<1>6. RowsHaveFiles'
  BY DEF DeleteTask, RestoreTask, Row, IsPhoto, InHandIsNew, DoomedIsFree, Shape, FilesTypeOK, RowsHaveFiles
<1>7. OrphansAreAccidents'
  BY DEF DeleteTask, RestoreTask, Row, IsPhoto, Shape, Storing, InHandIsNew, DoomedIsFree, At, FilesTypeOK, OrphansAreAccidents
<1> QED BY <1>1, <1>2, <1>3, <1>4, <1>5, <1>6, <1>7

\* What the scan found is attached to the family, or to nothing since.
LEMMA PurgeScanKeeps ==
    ASSUME FilesIInv, NEW r \in Request, NEW t \in Task, PurgeScan(r, t)
    PROVE  FilesIInv'
<1> USE NotNone, ParentType DEF FilesIInv
<1>1. FilesTypeOK'
  <2>1. Begin("erase", t, None, None, AttachmentsOf(Family(t))) \in Hand(drawn)
    BY HandTypes DEF FilesTypeOK, Step, RowsHaveFiles, Row, Shape, Storing, PurgeScan, At, AttachmentsOf, Family
  <2>2. req' \in [Request -> Hand(drawn')]
    BY <2>1 DEF FilesTypeOK, Hand, PurgeScan, At, AttachmentsOf, Family
  <2>3. /\ stored' \subseteq drawn' /\ drawn' \subseteq Key /\ lost' \subseteq drawn' /\ unacked' \subseteq drawn'
        /\ photo' \in [Contact -> drawn' \cup {None}]
    BY DEF FilesTypeOK, Shape, Storing, InHandIsNew, RowsHaveFiles, Row, PurgeScan, At, AttachmentsOf, Family
  <2>4. /\ attachedTo' \in [Key -> Task \cup {None}]
        /\ task' \in [Task -> {"active", "trashed", "gone"}]
    BY DEF FilesTypeOK, Shape, PurgeScan, At, AttachmentsOf, Family
  <2> QED BY <2>2, <2>3, <2>4 DEF FilesTypeOK, Hand
<1>2. Shape'
  BY DEF PurgeScan, At, Begin, AttachmentsOf, Family, Storing, Step, FilesTypeOK, Shape
<1>3. InHandIsNew'
  BY DEF PurgeScan, At, Begin, AttachmentsOf, Family, Row, IsPhoto, Shape, Storing, FilesTypeOK, InHandIsNew
<1>4. RowsApart'
  BY DEF PurgeScan, At, Begin, AttachmentsOf, Family, IsPhoto, InHandIsNew, Row, Shape, Storing, FilesTypeOK, RowsApart
<1>5. DoomedIsFree'
  BY DEF PurgeScan, At, Begin, AttachmentsOf, Family, Row, IsPhoto, InHandIsNew, Shape, Storing, RowsApart, FilesTypeOK, DoomedIsFree
<1>6. RowsHaveFiles'
  BY DEF PurgeScan, At, Begin, AttachmentsOf, Family, Row, IsPhoto, InHandIsNew, DoomedIsFree, Shape, FilesTypeOK, RowsHaveFiles
<1>7. OrphansAreAccidents'
  BY DEF PurgeScan, At, Begin, AttachmentsOf, Family, Row, IsPhoto, Shape, Storing, InHandIsNew, DoomedIsFree, FilesTypeOK, OrphansAreAccidents
<1> QED BY <1>1, <1>2, <1>3, <1>4, <1>5, <1>6, <1>7

\* The rows go before the files are doomed; rows inserted since leave lost files.
LEMMA PurgeDeleteKeeps ==
    ASSUME FilesIInv, NEW r \in Request, PurgeDelete(r)
    PROVE  FilesIInv'
<1> USE NotNone, ParentType DEF FilesIInv
<1>1. FilesTypeOK'
  <2>1. ToRemove(req[r].doomed) \in Hand(drawn)
    BY HandTypes DEF FilesTypeOK, Step, RowsHaveFiles, Row, Shape, Storing, PurgeDelete, At, Erase, AttachmentsOf, Family
  <2>2. req' \in [Request -> Hand(drawn')]
    BY <2>1 DEF FilesTypeOK, Hand, PurgeDelete, At, Erase, AttachmentsOf, Family
  <2>3. /\ stored' \subseteq drawn' /\ drawn' \subseteq Key /\ lost' \subseteq drawn' /\ unacked' \subseteq drawn'
        /\ photo' \in [Contact -> drawn' \cup {None}]
    BY DEF FilesTypeOK, Shape, Storing, InHandIsNew, RowsHaveFiles, Row, PurgeDelete, At, Erase, AttachmentsOf, Family
  <2>4. /\ attachedTo' \in [Key -> Task \cup {None}]
        /\ task' \in [Task -> {"active", "trashed", "gone"}]
    BY DEF FilesTypeOK, Shape, PurgeDelete, At, Erase, AttachmentsOf, Family
  <2> QED BY <2>2, <2>3, <2>4 DEF FilesTypeOK, Hand
<1>2. Shape'
  BY DEF PurgeDelete, At, Erase, ToRemove, Resting, Begin, AttachmentsOf, Family, Storing, Step, FilesTypeOK, Shape
<1>3. InHandIsNew'
  BY DEF PurgeDelete, At, Erase, ToRemove, Resting, Begin, AttachmentsOf, Family, Row, IsPhoto, Shape, Storing, FilesTypeOK, InHandIsNew
<1>4. RowsApart'
  BY DEF PurgeDelete, At, Erase, ToRemove, Resting, Begin, AttachmentsOf, Family, IsPhoto, InHandIsNew, Row, Shape, Storing, FilesTypeOK, RowsApart
<1>5. DoomedIsFree'
  BY DEF PurgeDelete, At, Erase, ToRemove, Resting, Begin, AttachmentsOf, Family, Row, IsPhoto, InHandIsNew, Shape, Storing, RowsApart, FilesTypeOK, DoomedIsFree
<1>6. RowsHaveFiles'
  BY DEF PurgeDelete, At, Erase, ToRemove, Resting, Begin, AttachmentsOf, Family, Row, IsPhoto, InHandIsNew, DoomedIsFree, Shape, FilesTypeOK, RowsHaveFiles
<1>7. OrphansAreAccidents'
  BY DEF PurgeDelete, At, Erase, ToRemove, Resting, Begin, AttachmentsOf, Family, Row, IsPhoto, Shape, Storing, InHandIsNew, DoomedIsFree, FilesTypeOK, OrphansAreAccidents
<1> QED BY <1>1, <1>2, <1>3, <1>4, <1>5, <1>6, <1>7

\* Rows and list of files at once.
LEMMA PurgeProjectKeeps ==
    ASSUME FilesIInv, NEW r \in Request, NEW ts \in SUBSET Task, PurgeProject(r, ts)
    PROVE  FilesIInv'
<1> USE NotNone, ParentType DEF FilesIInv
<1>1. FilesTypeOK'
  <2>1. ToRemove(AttachmentsOf(ts)) \in Hand(drawn)
    BY HandTypes DEF FilesTypeOK, Step, RowsHaveFiles, Row, Shape, Storing, PurgeProject, At, Erase, AttachmentsOf
  <2>2. req' \in [Request -> Hand(drawn')]
    BY <2>1 DEF FilesTypeOK, Hand, PurgeProject, At, Erase, AttachmentsOf
  <2>3. /\ stored' \subseteq drawn' /\ drawn' \subseteq Key /\ lost' \subseteq drawn' /\ unacked' \subseteq drawn'
        /\ photo' \in [Contact -> drawn' \cup {None}]
    BY DEF FilesTypeOK, Shape, Storing, InHandIsNew, RowsHaveFiles, Row, PurgeProject, At, Erase, AttachmentsOf
  <2>4. /\ attachedTo' \in [Key -> Task \cup {None}]
        /\ task' \in [Task -> {"active", "trashed", "gone"}]
    BY DEF FilesTypeOK, Shape, PurgeProject, At, Erase, AttachmentsOf
  <2> QED BY <2>2, <2>3, <2>4 DEF FilesTypeOK, Hand
<1>2. Shape'
  BY DEF PurgeProject, At, Erase, ToRemove, Resting, Begin, AttachmentsOf, Storing, Step, FilesTypeOK, Shape
<1>3. InHandIsNew'
  BY DEF PurgeProject, At, Erase, ToRemove, Resting, Begin, AttachmentsOf, Row, IsPhoto, Shape, Storing, FilesTypeOK, InHandIsNew
<1>4. RowsApart'
  BY DEF PurgeProject, At, Erase, ToRemove, Resting, Begin, AttachmentsOf, IsPhoto, InHandIsNew, Row, Shape, Storing, FilesTypeOK, RowsApart
<1>5. DoomedIsFree'
  BY DEF PurgeProject, At, Erase, ToRemove, Resting, Begin, AttachmentsOf, Row, IsPhoto, InHandIsNew, Shape, Storing, RowsApart, Family, FilesTypeOK, DoomedIsFree
<1>6. RowsHaveFiles'
  BY DEF PurgeProject, At, Erase, ToRemove, Resting, Begin, AttachmentsOf, Row, IsPhoto, InHandIsNew, DoomedIsFree, Shape, FilesTypeOK, RowsHaveFiles
<1>7. OrphansAreAccidents'
  BY DEF PurgeProject, At, Erase, ToRemove, Resting, Begin, AttachmentsOf, Row, IsPhoto, Shape, Storing, InHandIsNew, DoomedIsFree, FilesTypeOK, OrphansAreAccidents
<1> QED BY <1>1, <1>2, <1>3, <1>4, <1>5, <1>6, <1>7

\* A doomed file has no row: removing it takes nothing from anybody.
LEMMA RemoveFileKeeps ==
    ASSUME FilesIInv, NEW r \in Request, NEW k \in Key, RemoveFile(r, k)
    PROVE  FilesIInv'
<1> USE NotNone, ParentType DEF FilesIInv
<1>1. FilesTypeOK'
  BY DEF RemoveFile, At, Discard, ToRemove, Resting, Begin, Step, FilesTypeOK
<1>2. Shape'
  BY DEF RemoveFile, At, Discard, ToRemove, Resting, Begin, Storing, Step, FilesTypeOK, Shape
<1>3. InHandIsNew'
  BY DEF RemoveFile, At, Discard, ToRemove, Resting, Begin, Row, IsPhoto, Shape, Storing, FilesTypeOK, InHandIsNew
<1>4. RowsApart'
  BY DEF RemoveFile, At, Discard, ToRemove, Resting, Begin, IsPhoto, InHandIsNew, Row, Shape, Storing, FilesTypeOK, RowsApart
<1>5. DoomedIsFree'
  BY DEF RemoveFile, At, Discard, ToRemove, Resting, Begin, Row, IsPhoto, InHandIsNew, Shape, Storing, RowsApart, Family, FilesTypeOK, DoomedIsFree
<1>6. RowsHaveFiles'
  BY DEF RemoveFile, At, Discard, ToRemove, Resting, Begin, Row, IsPhoto, InHandIsNew, DoomedIsFree, Shape, FilesTypeOK, RowsHaveFiles
<1>7. OrphansAreAccidents'
  BY DEF RemoveFile, At, Discard, ToRemove, Resting, Begin, Row, IsPhoto, Shape, Storing, InHandIsNew, DoomedIsFree, FilesTypeOK, OrphansAreAccidents
<1> QED BY <1>1, <1>2, <1>3, <1>4, <1>5, <1>6, <1>7

\* What a stopped request had in hand is lost.
LEMMA CrashKeeps ==
    ASSUME FilesIInv, NEW r \in Request, Crash(r)
    PROVE  FilesIInv'
<1> USE NotNone, ParentType DEF FilesIInv
<1>1. FilesTypeOK'
  BY DEF Crash, At, Finishes, Resting, Step, FilesTypeOK
<1>2. Shape'
  BY DEF Crash, At, Finishes, Resting, Storing, Step, FilesTypeOK, Shape
<1>3. InHandIsNew'
  BY DEF Crash, At, Finishes, Resting, Row, IsPhoto, Shape, Storing, FilesTypeOK, InHandIsNew
<1>4. RowsApart'
  BY DEF Crash, At, Finishes, Resting, IsPhoto, InHandIsNew, Row, Shape, Storing, FilesTypeOK, RowsApart
<1>5. DoomedIsFree'
  BY DEF Crash, At, Finishes, Resting, Row, IsPhoto, InHandIsNew, Shape, Storing, RowsApart, Family, FilesTypeOK, DoomedIsFree
<1>6. RowsHaveFiles'
  BY DEF Crash, At, Finishes, Resting, Row, IsPhoto, InHandIsNew, DoomedIsFree, Shape, FilesTypeOK, RowsHaveFiles
<1>7. OrphansAreAccidents'
  BY DEF Crash, At, Finishes, Resting, Row, IsPhoto, Shape, Storing, InHandIsNew, DoomedIsFree, FilesTypeOK, OrphansAreAccidents
<1> QED BY <1>1, <1>2, <1>3, <1>4, <1>5, <1>6, <1>7

-----------------------------------------------------------------------------

\* The invariant holds in every reachable state, whatever is sent, fails or crashes.
THEOREM FilesInvariant == FilesSpec => []FilesIInv
<1>1. FilesInit => FilesIInv
  BY NotNone DEF FilesInit, FilesIInv, FilesTypeOK, Step, Resting, Shape, InHandIsNew, RowsApart, IsPhoto,
     DoomedIsFree, RowsHaveFiles, Row, OrphansAreAccidents
<1>2. FilesIInv /\ [FilesNext]_fileVars => FilesIInv'
  <2> SUFFICES ASSUME FilesIInv, [FilesNext]_fileVars PROVE FilesIInv'
    OBVIOUS
  <2>1. CASE UNCHANGED fileVars
    BY <2>1 DEF fileVars, FilesIInv, FilesTypeOK, Shape, InHandIsNew, RowsApart, IsPhoto, DoomedIsFree,
       RowsHaveFiles, Row, OrphansAreAccidents, At
  <2>2. CASE FilesNext
    BY <2>2, CreateStoreKeeps, CreateRefusedKeeps, CreateInsertKeeps, UpdateReadKeeps, UpdateStoreKeeps, UpdateClearKeeps, UpdateKeepsKeeps, UpdateWriteKeeps, WriteFailsKeeps, AttachStoreKeeps, AttachInsertKeeps, AttachFailsKeeps, AnswerLostKeeps, DetachReadKeeps, DetachDeleteKeeps, TaskTrashKeeps, PurgeScanKeeps, PurgeDeleteKeeps, PurgeProjectKeeps, RemoveFileKeeps, CrashKeeps DEF FilesNext
  <2> QED BY <2>1, <2>2
<1> QED BY <1>1, <1>2, PTL DEF FilesSpec

\* The tables and what the requests hold have their type.
THEOREM FilesTypeCorrect == FilesSpec => []FilesTypeOK
  BY FilesInvariant, PTL DEF FilesIInv

\* No contact and no attachment names a file that is gone, but for a row whose own
\* insertion was committed without an answer.
THEOREM EveryRowHasItsFile == FilesSpec => []RowsHaveFiles
  BY FilesInvariant, PTL DEF FilesIInv

\* A file no row names is in hand, or was lost in a known way.
THEOREM OrphansExplained == FilesSpec => []OrphansAreAccidents
  BY FilesInvariant, PTL DEF FilesIInv

\* Both, for any number of requests, contacts, tasks and files.
THEOREM FilesAlwaysStand == FilesSpec => []FilesStand
  BY FilesInvariant, PTL DEF FilesIInv, FilesStand

-----------------------------------------------------------------------------
(* Links.  What an edit knows of the link it read, if the version has not  *)
(* moved since: that is what the compare-and-set tests before the write.   *)

After == {"versioned", "read", "editable", "checked"}

SentEdit == [at : {"sent"}, by : Editor, item : LinkedItem, asks : BOOLEAN, new : Link]
ReadEdit == [at : After, by : Editor, item : LinkedItem, asks : BOOLEAN, new : Link,
             seen : Link, base : Nat]

LinksTypeOK ==
    /\ cards \subseteq Card
    /\ link \in [LinkedItem -> Link \cup {Unborn}]
    /\ version \in [LinkedItem -> Nat]
    /\ edit \in [Edit -> {NoEdit} \cup SentEdit \cup ReadEdit]

\* What an edit x under way knows.
Knows(x) ==
    LET i == x.item
        changes == x.asks /\ x.new # x.seen
    IN
    /\ x.at # "idle" => link[i] # Unborn
    /\ x.at \in After => x.base <= version[i]
    /\ x.at \in After \ {"versioned"} /\ x.base = version[i] => link[i] \in {x.seen, NoLink}
    /\ x.at \in {"editable", "checked"} /\ changes => x.seen \in OwnOrNone(x.by)
    /\ x.at = "checked" /\ changes => x.new \in OwnOrNone(x.by)

LinksInv == LinksTypeOK /\ \A e \in Edit : Knows(edit[e])

LEMMA LinksInitInv == LinksInit => LinksInv
BY DEF LinksInit, LinksInv, LinksTypeOK, Knows, NoEdit, After

LEMMA OwnedOwn ==
    ASSUME cards \subseteq Card, NEW p, NEW l, l = NoLink \/ l \in Owned(p)
    PROVE  l \in OwnOrNone(p)
BY DEF Owned, OwnOrNone

\* A step that changes one edit and no item.
LEMMA OneEdit ==
    ASSUME LinksInv, NEW e \in Edit, NEW x \in {NoEdit} \cup SentEdit \cup ReadEdit,
           Knows(x), edit' = [edit EXCEPT ![e] = x], UNCHANGED <<kind, cards, link, version>>
    PROVE  LinksInv'
<1>1. LinksTypeOK'
  BY DEF LinksInv, LinksTypeOK
<1>2. ASSUME NEW f \in Edit PROVE Knows(edit[f])'
  <2>1. edit'[f] = IF f = e THEN x ELSE edit[f]
    BY DEF LinksInv, LinksTypeOK
  <2>2. Knows(edit'[f])
    BY <2>1 DEF LinksInv
  <2> QED BY <2>2 DEF Knows
<1> QED BY <1>1, <1>2 DEF LinksInv

\* A step that writes items, and ends the edit e if it is one: a link that is there
\* changes with its version, or to nothing.
LEMMA ItemsWritten ==
    ASSUME LinksInv, cards' \subseteq cards,
           link' \in [LinkedItem -> Link \cup {Unborn}],
           version' \in [LinkedItem -> Nat],
           edit' \in [Edit -> {NoEdit} \cup SentEdit \cup ReadEdit],
           \A f \in Edit : edit'[f] \in {edit[f], NoEdit},
           \A i \in LinkedItem : link[i] # Unborn =>
                /\ link'[i] # Unborn
                /\ version'[i] > version[i] \/ (version'[i] = version[i] /\ link'[i] \in {link[i], NoLink}),
           \A i \in LinkedItem : version'[i] >= version[i]
    PROVE  LinksInv'
<1>1. LinksTypeOK'
  BY DEF LinksInv, LinksTypeOK
<1>2. ASSUME NEW f \in Edit PROVE Knows(edit[f])'
  <2>1. CASE edit'[f] = NoEdit
    BY <2>1 DEF Knows, NoEdit, After
  <2>2. CASE edit'[f] = edit[f] /\ edit[f] # NoEdit
    <3>1. edit[f] \in SentEdit \cup ReadEdit /\ Knows(edit[f])
      BY <2>2 DEF LinksInv, LinksTypeOK
    <3>2. edit[f].item \in LinkedItem /\ edit[f].at # "idle"
      BY <3>1 DEF SentEdit, ReadEdit, After
    <3>3. edit[f].at \in After => edit[f].base \in Nat
      BY <3>1 DEF SentEdit, ReadEdit, After
    <3>4. link[edit[f].item] # Unborn
      BY <3>1, <3>2 DEF Knows
    <3> QED BY <2>2, <3>1, <3>2, <3>3, <3>4 DEF Knows, OwnOrNone, LinksInv, LinksTypeOK
  <2> QED BY <2>1, <2>2
<1> QED BY <1>1, <1>2 DEF LinksInv

LEMMA SendInv ==
    ASSUME LinksInv, NEW e \in Edit, NEW p \in Editor, NEW i \in LinkedItem, NEW l \in Link,
           NEW asks \in BOOLEAN, link[i] # Unborn, UNCHANGED <<kind, cards, link, version>>,
           edit' = [edit EXCEPT ![e] = [at |-> "sent", by |-> p, item |-> i, asks |-> asks, new |-> l]]
    PROVE  LinksInv'
<1> DEFINE x == [at |-> "sent", by |-> p, item |-> i, asks |-> asks, new |-> l]
<1>1. x \in SentEdit /\ Knows(x)
  BY DEF SentEdit, Knows, After
<1> HIDE DEF x
<1> QED BY <1>1, OneEdit DEF x

LEMMA FormInv ==
    ASSUME LinksInv, NEW e \in Edit, NEW p \in Editor, NEW t \in TaskItem, NEW l \in Link, Form(e, p, t, l)
    PROVE  LinksInv'
BY SendInv DEF Form, LinkedItem

\* An edit under way, as its records have it.
LEMMA UnderWay ==
    ASSUME LinksInv, NEW e \in Edit, edit[e].at # "idle"
    PROVE  /\ edit[e] \in SentEdit \cup ReadEdit /\ Knows(edit[e])
           /\ edit[e].at # "sent" => edit[e] \in ReadEdit
           /\ edit[e].item \in LinkedItem /\ edit[e].by \in Editor /\ edit[e].new \in Link
           /\ edit[e].asks \in BOOLEAN /\ link[edit[e].item] \in Link
<1>1. edit[e] \in SentEdit \cup ReadEdit /\ Knows(edit[e])
  BY DEF LinksInv, LinksTypeOK, NoEdit
<1>2. edit[e].item \in LinkedItem
  BY <1>1 DEF SentEdit, ReadEdit
<1>3. link[edit[e].item] \in Link
  BY <1>1, <1>2 DEF LinksInv, LinksTypeOK, Knows
<1> QED BY <1>1, <1>2, <1>3 DEF SentEdit, ReadEdit

LEMMA ReadItemInv == ASSUME LinksInv, NEW e \in Edit, ReadItem(e) PROVE LinksInv'
<1> DEFINE i == edit[e].item
           x == [at |-> IF i \in TaskItem THEN "read" ELSE "versioned", by |-> edit[e].by,
                 item |-> i, asks |-> edit[e].asks, new |-> edit[e].new,
                 seen |-> link[i], base |-> version[i]]
<1>1. /\ i \in LinkedItem /\ edit[e].by \in Editor /\ edit[e].new \in Link
      /\ edit[e].asks \in BOOLEAN /\ link[i] \in Link /\ link[i] # Unborn /\ version[i] \in Nat
  BY UnderWay, LinksAssumption DEF ReadItem, Knows, LinksInv, LinksTypeOK
<1>2. x \in ReadEdit /\ Knows(x)
  BY <1>1 DEF ReadEdit, Knows, After
<1>3. edit' = [edit EXCEPT ![e] = x] /\ UNCHANGED <<kind, cards, link, version>>
  BY DEF ReadItem
<1> HIDE DEF x
<1> QED BY <1>2, <1>3, OneEdit

LEMMA ReadLinksInv == ASSUME LinksInv, NEW e \in Edit, ReadLinks(e) PROVE LinksInv'
<1> DEFINE x == [edit[e] EXCEPT !.at = "read", !.seen = link[edit[e].item]]
<1>1. edit[e] \in ReadEdit /\ Knows(edit[e]) /\ edit[e].at = "versioned" /\ link[edit[e].item] \in Link
  BY UnderWay DEF ReadLinks
<1>2. x \in ReadEdit /\ Knows(x)
  BY <1>1 DEF ReadEdit, Knows, After
<1>3. edit' = [edit EXCEPT ![e] = x] /\ UNCHANGED <<kind, cards, link, version>>
  BY <1>1 DEF ReadLinks, LinksInv, LinksTypeOK
<1> HIDE DEF x
<1> QED BY <1>2, <1>3, OneEdit

LEMMA CheckCurrentInv == ASSUME LinksInv, NEW e \in Edit, CheckCurrent(e) PROVE LinksInv'
<1> DEFINE x == [edit[e] EXCEPT !.at = "editable"]
<1>1. edit[e] \in ReadEdit /\ Knows(edit[e]) /\ edit[e].at = "read" /\ cards \subseteq Card
  BY UnderWay DEF CheckCurrent, LinksInv, LinksTypeOK
<1>2. LinkChanges(e) => edit[e].seen \in OwnOrNone(edit[e].by)
  BY <1>1, OwnedOwn DEF CheckCurrent, Editable
<1>3. x \in ReadEdit /\ Knows(x)
  BY <1>1, <1>2 DEF ReadEdit, Knows, After, LinkChanges
<1>4. edit' = [edit EXCEPT ![e] = x] /\ UNCHANGED <<kind, cards, link, version>>
  BY DEF CheckCurrent
<1> HIDE DEF x
<1> QED BY <1>3, <1>4, OneEdit

LEMMA CheckNewInv == ASSUME LinksInv, NEW e \in Edit, CheckNew(e) PROVE LinksInv'
<1> DEFINE x == [edit[e] EXCEPT !.at = "checked"]
<1>1. edit[e] \in ReadEdit /\ Knows(edit[e]) /\ edit[e].at = "editable" /\ cards \subseteq Card
  BY UnderWay DEF CheckNew, LinksInv, LinksTypeOK
<1>2. LinkChanges(e) => edit[e].new \in OwnOrNone(edit[e].by)
  BY <1>1, OwnedOwn DEF CheckNew, Linkable
<1>3. x \in ReadEdit /\ Knows(x)
  BY <1>1, <1>2 DEF ReadEdit, Knows, After, LinkChanges
<1>4. edit' = [edit EXCEPT ![e] = x] /\ UNCHANGED <<kind, cards, link, version>>
  BY DEF CheckNew
<1> HIDE DEF x
<1> QED BY <1>3, <1>4, OneEdit

LEMMA RefusedInv == ASSUME LinksInv, NEW e \in Edit, Refused(e) PROVE LinksInv'
<1>1. Knows(NoEdit)
  BY DEF Knows, NoEdit, After
<1> QED BY <1>1, OneEdit DEF Refused

LEMMA WriteInv ==
    ASSUME LinksInv, NEW e \in Edit, WriteLink(e) \/ \E j \in TaskItem : WriteAndRepeat(e, j)
    PROVE  LinksInv'
<1>1. /\ edit[e].item \in LinkedItem /\ edit[e].new \in Link /\ link[edit[e].item] \in Link
      /\ edit[e].at = "checked"
  BY UnderWay DEF WriteLink, WriteAndRepeat
<1>2. /\ edit' = [edit EXCEPT ![e] = NoEdit] /\ cards' = cards
      /\ version' = [version EXCEPT ![edit[e].item] = version[edit[e].item] + 1]
  BY DEF WriteLink, WriteAndRepeat
<1>3. \E after \in Link : \E j \in LinkedItem :
         /\ j = edit[e].item \/ link[j] = Unborn
         /\ link' = [link EXCEPT ![edit[e].item] = after, ![j] = after]
  <2>1. CASE WriteLink(e)
    <3> DEFINE after == IF LinkChanges(e) THEN edit[e].new ELSE link[edit[e].item]
    <3>1. link' = [link EXCEPT ![edit[e].item] = after] /\ after \in Link
      BY <1>1, <2>1 DEF WriteLink
    <3> HIDE DEF after
    <3>2. link' = [link EXCEPT ![edit[e].item] = after, ![edit[e].item] = after]
      BY <3>1 DEF LinksInv, LinksTypeOK
    <3> QED BY <1>1, <3>1, <3>2
  <2>2. CASE \E j \in TaskItem : WriteAndRepeat(e, j)
    BY <1>1, <2>2 DEF WriteAndRepeat, LinkedItem
  <2> QED BY <2>1, <2>2
<1>4. PICK after \in Link, j \in LinkedItem :
         /\ j = edit[e].item \/ link[j] = Unborn
         /\ link' = [link EXCEPT ![edit[e].item] = after, ![j] = after]
  BY <1>3
<1>5. link' \in [LinkedItem -> Link \cup {Unborn}]
      /\ \A i \in LinkedItem : link'[i] = IF i \in {edit[e].item, j} THEN after ELSE link[i]
  BY <1>1, <1>4 DEF LinksInv, LinksTypeOK
<1>6. version' \in [LinkedItem -> Nat]
      /\ \A i \in LinkedItem : version'[i] = IF i = edit[e].item THEN version[i] + 1 ELSE version[i]
  BY <1>1, <1>2 DEF LinksInv, LinksTypeOK
<1>7. edit' \in [Edit -> {NoEdit} \cup SentEdit \cup ReadEdit]
      /\ \A f \in Edit : edit'[f] \in {edit[f], NoEdit}
  BY <1>2 DEF LinksInv, LinksTypeOK
<1>8. after # Unborn
  BY <1>4, LinksAssumption DEF Link
<1>9. \A i \in LinkedItem : version[i] \in Nat
  BY DEF LinksInv, LinksTypeOK
<1> QED BY <1>2, <1>4, <1>5, <1>6, <1>7, <1>8, <1>9, ItemsWritten

LEMMA MadeInv ==
    ASSUME LinksInv, NEW p \in Editor, NEW i \in LinkedItem,
           (\E l \in Link : CreateLinked(p, i, l)) \/ (\E j \in LinkedItem : DuplicateLinked(p, i, j))
    PROVE  LinksInv'
<1>1. PICK j \in LinkedItem, l \in Link : link[j] = Unborn /\ link' = [link EXCEPT ![j] = l]
  <2>1. CASE \E l \in Link : CreateLinked(p, i, l)
    BY <2>1 DEF CreateLinked
  <2>2. CASE \E j \in LinkedItem : DuplicateLinked(p, i, j)
    <3>1. PICK j \in LinkedItem : DuplicateLinked(p, i, j)
      BY <2>2
    <3>2. KeepOwned(p, link[i]) \in Link
      BY DEF KeepOwned, Owned, Link, LinksInv, LinksTypeOK
    <3> QED BY <3>1, <3>2 DEF DuplicateLinked
  <2> QED BY <2>1, <2>2
<1>2. UNCHANGED <<kind, cards, version, edit>>
  BY DEF CreateLinked, DuplicateLinked
<1>3. link' \in [LinkedItem -> Link \cup {Unborn}] /\ \A x \in LinkedItem : x # j => link'[x] = link[x]
  BY <1>1 DEF LinksInv, LinksTypeOK
<1>4. version \in [LinkedItem -> Nat] /\ edit \in [Edit -> {NoEdit} \cup SentEdit \cup ReadEdit]
  BY DEF LinksInv, LinksTypeOK
<1> QED BY <1>1, <1>2, <1>3, <1>4, ItemsWritten

LEMMA DeleteCardInv == ASSUME LinksInv, NEW c \in Card, DeleteCard(c) PROVE LinksInv'
<1>1. /\ cards' \subseteq cards /\ UNCHANGED <<version, edit>>
      /\ link' = [i \in LinkedItem |-> IF link[i] = c THEN NoLink ELSE link[i]]
  BY DEF DeleteCard
<1>2. link' \in [LinkedItem -> Link \cup {Unborn}]
  BY <1>1 DEF LinksInv, LinksTypeOK, Link
<1>3. version \in [LinkedItem -> Nat] /\ edit \in [Edit -> {NoEdit} \cup SentEdit \cup ReadEdit]
  BY DEF LinksInv, LinksTypeOK
<1>4. NoLink # Unborn
  BY LinksAssumption
<1> QED BY <1>1, <1>2, <1>3, <1>4, ItemsWritten

LEMMA LinksNextInv == ASSUME LinksInv, [LinksNext]_linkVars PROVE LinksInv'
<1>1. ASSUME NEW e \in Edit, EditSteps(e) PROVE LinksInv'
  <2>1. ASSUME NEW p \in Editor, NEW l \in Link, NEW i \in LinkedItem, NEW asks \in BOOLEAN,
               Panel(e, p, i, l, asks)
        PROVE  LinksInv'
    BY <2>1, SendInv DEF Panel
  <2> QED BY <1>1, <2>1, FormInv, ReadItemInv, ReadLinksInv, CheckCurrentInv, CheckNewInv,
             WriteInv, RefusedInv DEF EditSteps
<1>2. CASE UNCHANGED linkVars
  BY <1>2 DEF linkVars, LinksInv, LinksTypeOK, Knows
<1> QED BY <1>1, <1>2, MadeInv, DeleteCardInv DEF LinksNext

\* A request that passed its checks knows who owns the link it replaces, or the version
\* has moved: kept by every edit, copy, occurrence and deleted record.
THEOREM LinksInvariant == LinksSpec => []LinksInv
<1>1. LinksInv /\ [LinksNext]_linkVars => LinksInv'
  BY LinksNextInv
<1> QED BY <1>1, LinksInitInv, PTL DEF LinksSpec

LEMMA OwnerWrites ==
    ASSUME LinksInv, NEW e \in Edit, WriteLink(e) \/ \E j \in TaskItem : WriteAndRepeat(e, j),
           NEW i \in LinkedItem, link[i] # Unborn, link'[i] # link[i]
    PROVE  \E p \in Editor : Writes(e, i, p) /\ {link[i], link'[i]} \subseteq OwnOrNone(p)
<1> DEFINE p == edit[e].by
<1>1. /\ edit[e] \in ReadEdit /\ Knows(edit[e]) /\ edit[e].at = "checked" /\ p \in Editor
      /\ edit[e].base = version[edit[e].item] /\ edit'[e] = NoEdit
  BY UnderWay DEF WriteLink, WriteAndRepeat, StillCurrent, LinksInv, LinksTypeOK
<1>2. i = edit[e].item /\ LinkChanges(e) /\ link'[i] = edit[e].new
  <2>1. CASE WriteLink(e)
    BY <2>1 DEF WriteLink, LinksInv, LinksTypeOK
  <2>2. ASSUME NEW j \in TaskItem, WriteAndRepeat(e, j) PROVE <1>2
    <3>1. i # j
      BY <2>2 DEF WriteAndRepeat
    <3> QED BY <2>2, <3>1 DEF WriteAndRepeat, LinksInv, LinksTypeOK
  <2> QED BY <2>1, <2>2
<1>3. edit[e].new # edit[e].seen /\ edit[e].asks
  BY <1>2 DEF LinkChanges
<1>4. link[i] \in {edit[e].seen, NoLink} /\ edit[e].seen \in OwnOrNone(p) /\ edit[e].new \in OwnOrNone(p)
  BY <1>1, <1>2, <1>3 DEF Knows, After
<1>5. Writes(e, i, p)
  BY <1>1, <1>2 DEF Writes
<1> QED BY <1>1, <1>2, <1>4, <1>5 DEF OwnOrNone

\* A link that is there changes only by an edit of the owner of both records, or because
\* its record is deleted, whatever was read, set, copied or deleted in between.
THEOREM LinksOfOthersStay == LinksSpec => OthersLinksStay
<1> DEFINE Stay ==
      \A i \in LinkedItem : link[i] # Unborn /\ link'[i] # link[i] =>
          \/ link[i] \in cards \ cards'
          \/ \E e \in Edit, p \in Editor : Writes(e, i, p) /\ {link[i], link'[i]} \subseteq OwnOrNone(p)
<1>1. ASSUME LinksInv, [LinksNext]_linkVars, NEW i \in LinkedItem, link[i] # Unborn, link'[i] # link[i]
      PROVE  \/ link[i] \in cards \ cards'
             \/ \E e \in Edit, p \in Editor : Writes(e, i, p) /\ {link[i], link'[i]} \subseteq OwnOrNone(p)
  <2>1. CASE \E e \in Edit : WriteLink(e) \/ \E j \in TaskItem : WriteAndRepeat(e, j)
    BY <1>1, <2>1, OwnerWrites
  <2>2. ASSUME NEW e \in Edit, EditSteps(e), ~(WriteLink(e) \/ \E j \in TaskItem : WriteAndRepeat(e, j))
        PROVE  link' = link
    BY <2>2 DEF EditSteps, Form, Panel, ReadItem, ReadLinks, CheckCurrent, CheckNew, Refused
  <2>3. ASSUME NEW p \in Editor, NEW k \in LinkedItem,
               (\E l \in Link : CreateLinked(p, k, l)) \/ (\E j \in LinkedItem : DuplicateLinked(p, k, j))
        PROVE  link'[i] = link[i]
    BY <1>1, <2>3 DEF CreateLinked, DuplicateLinked, LinksInv, LinksTypeOK
  <2>4. ASSUME NEW c \in Card, DeleteCard(c) PROVE link[i] \in cards \ cards'
    BY <1>1, <2>4 DEF DeleteCard
  <2>5. CASE UNCHANGED linkVars
    BY <1>1, <2>5 DEF linkVars
  <2> QED BY <1>1, <2>1, <2>2, <2>3, <2>4, <2>5 DEF LinksNext
<1>2. LinksInv /\ [LinksNext]_linkVars => [Stay]_linkVars
  BY <1>1
<1> QED BY <1>2, LinksInvariant, PTL DEF LinksSpec, OthersLinksStay

-----------------------------------------------------------------------------
(* Requests that read, then write.                                         *)

Status == OpenStatus \cup ClosedStatus

OrganizationRow == [name: Name, archived: BOOLEAN]
ContactRow ==
    [email: Email \cup {None}, org: Organization \cup {None}, orgName: Name \cup {None}, archived: BOOLEAN]
OpportunityRow ==
    [status: Status, closedAt: BOOLEAN, bornClosed: BOOLEAN, org: Organization, contact: Contact \cup {None}]
FollowUpRow ==
    [status: {"OPEN", "COMPLETED", "ABANDONED"}, completedAt: BOOLEAN, ballOwner: {"ME", "THEM"},
     dueAt: Int, nudgeCount: Nat, contact: Contact \cup {None}, opportunity: Opportunity \cup {None}]

TablesOK ==
    /\ organization \in [Organization -> {Absent} \cup OrganizationRow]
    /\ contact \in [Contact -> {Absent} \cup ContactRow]
    /\ opportunity \in [Opportunity -> {Absent} \cup OpportunityRow]
    /\ followUp \in [FollowUp -> {Absent} \cup FollowUpRow]
    /\ today \in 0..LastDay

\* What a request w has read and is about to write.
WorkOK(w) ==
    /\ w.op = "contact" =>
          /\ w.contact \in Contact /\ w.new \in BOOLEAN /\ w.email \in Email \cup {None}
          /\ w.org \in Organization \cup {None} /\ w.orgName \in Name \cup {None}
    /\ w.op = "import" =>
          /\ \A i \in DOMAIN w.create : w.create[i] \in ContactRow
          /\ \A i, j \in DOMAIN w.create :
                w.create[i].email = w.create[j].email /\ w.create[i].email # None => i = j
          /\ \A d \in w.complete : d.contact \in Contacts /\ d.row \in ContactRow
    /\ w.op = "opportunity" =>
          /\ w.opportunity \in Opportunity /\ w.status \in Status \cup {None}
          /\ w.org \in Organization /\ w.contact \in Contact \cup {None}
    /\ w.op = "status" =>
          w.opportunity \in Opportunity /\ w.seen \in Status /\ w.status \in AllowedTransitions(w.seen)
    /\ w.op = "followUp" =>
          /\ w.followUp \in FollowUp /\ w.contact \in Contact \cup {None} /\ w.dueAt \in Int
          /\ w.opportunity \in Opportunity \cup {None} /\ w.ballOwner \in {"ME", "THEM"}
    /\ w.op = "quick" =>
          /\ w.followUp \in FollowUps /\ w.intent \in Intent /\ w.status \in AllowedFrom(w.intent)
          /\ w.days \in SnoozeDays /\ w.dueAt \in Int /\ w.now \in Int
    /\ w.op = "edit" =>
          w.followUp \in FollowUp /\ w.contact \in Contact \cup {None} /\ w.dueAt \in Int

WorkInv ==
    /\ work = [r \in Request |-> work[r]]
    /\ \A r \in Request : WorkOK(work[r])

CrmIInv == TablesOK /\ DatesMatchStatus /\ WorkInv

\* A row is never taken for an absent one.
LEMMA RowsAreThere ==
    /\ \A x \in ContactRow : x # Absent
    /\ \A x \in OpportunityRow \cup FollowUpRow \cup OrganizationRow : x # Absent
<1>1. \A x \in ContactRow : x # Absent
  BY DEF ContactRow, Absent
<1>2. \A x \in OrganizationRow : x # Absent
  BY DEF OrganizationRow, Absent
<1>3. \A x \in OpportunityRow : x # Absent
  BY DEF OpportunityRow, Absent, Status, OpenStatus, ClosedStatus
<1>4. \A x \in FollowUpRow : x # Absent
  BY DEF FollowUpRow, Absent
<1> QED BY <1>1, <1>2, <1>3, <1>4

LEMMA CrmInitInv == CrmInit => CrmIInv
<1> SUFFICES ASSUME CrmInit PROVE CrmIInv
  OBVIOUS
<1>1. TablesOK
  BY CrmAssumption DEF CrmInit, TablesOK
<1>2. DatesMatchStatus
  BY DEF CrmInit, DatesMatchStatus, FollowUps, Opportunities
<1>3. WorkOK(Idle)
  BY DEF WorkOK, Idle
<1> QED BY <1>1, <1>2, <1>3 DEF CrmInit, CrmIInv, WorkInv

\* No contact and no follow-up leaves its table: what requests have in hand stays valid.
LEMMA WorkFrame ==
    ASSUME CrmIInv, work' = work \/ \E r \in Request : Ends(r),
           Contacts \subseteq Contacts', FollowUps \subseteq FollowUps'
    PROVE  WorkInv'
<1>1. WorkOK(Idle)
  BY DEF WorkOK, Idle
<1>2. work' = [q \in Request |-> work'[q]] /\ \A q \in Request : WorkOK(work'[q])
  BY <1>1 DEF CrmIInv, WorkInv, Ends
<1> QED BY <1>2 DEF WorkInv, WorkOK

LEMMA ReadsFrame ==
    ASSUME CrmIInv, NEW r \in Request, NEW w, Reads(r, w), WorkOK(w),
           UNCHANGED <<organization, contact, opportunity, followUp, today>>
    PROVE  CrmIInv'
<1>1. work' = [q \in Request |-> work'[q]] /\ \A q \in Request : WorkOK(work'[q])
  BY DEF CrmIInv, WorkInv, Reads
<1>2. WorkInv'
  BY <1>1 DEF WorkInv, WorkOK, Contacts, FollowUps
<1> QED BY <1>2 DEF CrmIInv, TablesOK, DatesMatchStatus, FollowUps, Opportunities

LEMMA GiveUpInv == ASSUME CrmIInv, (\E r \in Request : GiveUp(r)) \/ NextDay PROVE CrmIInv'
<1>1. WorkInv'
  BY WorkFrame DEF GiveUp, NextDay, Contacts, FollowUps
<1>2. TablesOK'
  BY CrmAssumption DEF GiveUp, NextDay, CrmIInv, TablesOK
<1>3. DatesMatchStatus'
  BY DEF GiveUp, NextDay, CrmIInv, DatesMatchStatus, FollowUps, Opportunities
<1> QED BY <1>1, <1>2, <1>3 DEF CrmIInv

(* Organisations and contacts.                                             *)

\* Steps that touch organisations and contacts only.
LEMMA AddressBookFrame ==
    ASSUME CrmIInv, work' = work \/ \E r \in Request : Ends(r),
           UNCHANGED <<opportunity, followUp, today>>,
           organization' \in [Organization -> {Absent} \cup OrganizationRow],
           contact' \in [Contact -> {Absent} \cup ContactRow],
           \A c \in Contacts : contact'[c] \in ContactRow
    PROVE  CrmIInv'
<1>1. Contacts \subseteq Contacts'
  BY RowsAreThere DEF Contacts
<1>2. WorkInv'
  BY <1>1, WorkFrame DEF FollowUps
<1> QED BY <1>2 DEF CrmIInv, TablesOK, DatesMatchStatus, FollowUps, Opportunities

LEMMA OrganizationInv == ASSUME CrmIInv, OrganizationSteps PROVE CrmIInv'
<1>1. PICK o \in Organization : \/ \E n \in Name : CreateOrganization(o, n) \/ UpdateOrganization(o, n)
                                \/ \E archived \in BOOLEAN : ArchiveOrganization(o, archived)
  BY DEF OrganizationSteps
<1>2. \A c \in Contacts : contact[c] \in ContactRow
  BY DEF CrmIInv, TablesOK, Contacts
<1>3. ASSUME NEW n \in Name, CreateOrganization(o, n) PROVE CrmIInv'
  <2>1. organization' \in [Organization -> {Absent} \cup OrganizationRow]
    BY <1>3 DEF CreateOrganization, CrmIInv, TablesOK, OrganizationRow
  <2> QED BY <1>2, <1>3, <2>1, AddressBookFrame DEF CreateOrganization, CrmIInv, TablesOK
<1>4. ASSUME NEW n \in Name, UpdateOrganization(o, n) PROVE CrmIInv'
  <2>1. organization' \in [Organization -> {Absent} \cup OrganizationRow]
    BY <1>4 DEF UpdateOrganization, Organizations, CrmIInv, TablesOK, OrganizationRow
  <2>2. \A c \in Contact : [contact[c] EXCEPT !.orgName = n] \in ContactRow \/ contact[c] \notin ContactRow
    BY DEF ContactRow
  <2>3. contact' \in [Contact -> {Absent} \cup ContactRow] /\ \A c \in Contacts : contact'[c] \in ContactRow
    BY <1>2, <1>4, <2>2 DEF UpdateOrganization, Contacts, CrmIInv, TablesOK
  <2> QED BY <1>4, <2>1, <2>3, AddressBookFrame DEF UpdateOrganization
<1>5. ASSUME NEW archived \in BOOLEAN, ArchiveOrganization(o, archived) PROVE CrmIInv'
  <2>1. organization' \in [Organization -> {Absent} \cup OrganizationRow]
    BY <1>5 DEF ArchiveOrganization, Organizations, CrmIInv, TablesOK, OrganizationRow
  <2> QED BY <1>2, <1>5, <2>1, AddressBookFrame DEF ArchiveOrganization, CrmIInv, TablesOK
<1> QED BY <1>1, <1>3, <1>4, <1>5

LEMMA ContactFormInv ==
    ASSUME CrmIInv, NEW r \in Request, NEW c \in Contact, NEW e \in Email \cup {None},
           NEW o \in Organization \cup {None}, NEW typed \in Name \cup {None}, ContactForm(r, c, e, o, typed)
    PROVE  CrmIInv'
<1> DEFINE w == [op |-> "contact", contact |-> c, new |-> c \notin Contacts, email |-> e, org |-> o,
                 orgName |-> IF typed = None /\ o # None THEN organization[o].name ELSE typed]
<1>1. w.orgName \in Name \cup {None}
  BY DEF ContactForm, ActiveOrganizations, Organizations, CrmIInv, TablesOK, OrganizationRow
<1>2. w.op = "contact" /\ w.contact = c /\ w.new \in BOOLEAN /\ w.email = e /\ w.org = o
  OBVIOUS
<1>3. Reads(r, w) /\ UNCHANGED <<organization, contact, opportunity, followUp, today>>
  BY DEF ContactForm
<1> HIDE DEF w
<1>4. WorkOK(w)
  BY <1>1, <1>2 DEF WorkOK
<1> QED BY <1>3, <1>4, ReadsFrame

LEMMA SaveContactInv == ASSUME CrmIInv, NEW r \in Request, SaveContact(r) PROVE CrmIInv'
<1> DEFINE w == work[r]
           row == [email |-> w.email, org |-> w.org, orgName |-> w.orgName,
                   archived |-> ~w.new /\ contact[w.contact].archived]
<1>1. /\ w.contact \in Contact /\ w.new \in BOOLEAN /\ w.email \in Email \cup {None}
      /\ w.org \in Organization \cup {None} /\ w.orgName \in Name \cup {None}
  BY DEF SaveContact, Doing, CrmIInv, WorkInv, WorkOK
<1>2. ~w.new => contact[w.contact].archived \in BOOLEAN
  BY <1>1 DEF SaveContact, Contacts, CrmIInv, TablesOK, ContactRow
<1>3. (~w.new /\ contact[w.contact].archived) \in BOOLEAN
  BY <1>1, <1>2
<1>4. row \in ContactRow
  BY <1>1, <1>3 DEF ContactRow
<1>5. contact' = [contact EXCEPT ![w.contact] = row]
  BY DEF SaveContact
<1> HIDE DEF row
<1>6. contact' \in [Contact -> {Absent} \cup ContactRow] /\ \A c \in Contacts : contact'[c] \in ContactRow
  BY <1>1, <1>4, <1>5 DEF CrmIInv, TablesOK, Contacts
<1> QED BY <1>6, AddressBookFrame DEF SaveContact, CrmIInv, TablesOK

LEMMA ArchiveContactInv ==
    ASSUME CrmIInv, NEW r \in Request, NEW c \in Contact, NEW archived \in BOOLEAN, ArchiveContact(c, archived)
    PROVE  CrmIInv'
<1>1. contact[c] \in ContactRow
  BY DEF ArchiveContact, Contacts, CrmIInv, TablesOK
<1>2. [contact[c] EXCEPT !.archived = archived] \in ContactRow
  BY <1>1 DEF ContactRow
<1>3. contact' \in [Contact -> {Absent} \cup ContactRow] /\ \A x \in Contacts : contact'[x] \in ContactRow
  BY <1>2 DEF ArchiveContact, CrmIInv, TablesOK, Contacts
<1> QED BY <1>3, AddressBookFrame DEF ArchiveContact, CrmIInv, TablesOK

(* The import.                                                             *)

LEMMA ImportReadInv ==
    ASSUME CrmIInv, NEW r \in Request, NEW lines \in Seq(ImportLine), NEW mode \in {"skip", "complete"},
           NEW oldest \in [Email -> Contact], ImportRead(r, lines, mode, oldest)
    PROVE  CrmIInv'
<1> DEFINE plan == PlanImport(lines, oldest)
           w == [op |-> "import", create |-> plan.create,
                 complete |-> IF mode = "complete" THEN plan.complete ELSE {}]
<1>1. \A i \in DOMAIN lines : lines[i] \in ImportLine
  OBVIOUS
<1>2. \A line \in ImportLine : ToRow(line) \in ContactRow /\ ToRow(line).email = line.email
  <2>1. ASSUME NEW n PROVE ResolveOrganization(n) \in Organization \cup {None}
    <3> DEFINE named == {o \in ActiveOrganizations : organization[o].name = n}
    <3>1. named \subseteq Organization
      BY DEF ActiveOrganizations, Organizations
    <3>2. Cardinality(named) = 1 => \E o \in named : TRUE
      <4> HIDE DEF named
      <4>1. named = {} => Cardinality(named) = 0
        BY FS_EmptySet
      <4> QED BY <4>1
    <3> QED BY <3>1, <3>2 DEF ResolveOrganization
  <2> QED BY <2>1 DEF ToRow, ContactRow, ImportLine
<1>3. DOMAIN plan.create \subseteq DOMAIN lines
      /\ \A i \in DOMAIN plan.create :
            /\ plan.create[i] = ToRow(lines[i])
            /\ lines[i].email # None => \A j \in 1..(i - 1) : lines[j].email # lines[i].email
  BY DEF PlanImport
<1>4. \A i \in DOMAIN plan.create : plan.create[i] \in ContactRow
  BY <1>1, <1>2, <1>3
<1>5. \A i, j \in DOMAIN plan.create :
         plan.create[i].email = plan.create[j].email /\ plan.create[i].email # None => i = j
  <2>1. DOMAIN lines = 1..Len(lines) /\ Len(lines) \in Nat
    OBVIOUS
  <2>2. \A i \in DOMAIN plan.create : plan.create[i].email = lines[i].email /\ i \in 1..Len(lines)
    BY <1>1, <1>2, <1>3, <2>1
  <2>3. \A i, j \in DOMAIN plan.create : lines[i].email = lines[j].email /\ lines[i].email # None => ~(j < i)
    BY <1>3, <2>1, <2>2
  <2> QED BY <2>1, <2>2, <2>3
<1>6. \A d \in plan.complete : d.contact \in Contacts /\ d.row \in ContactRow
  <2>1. ASSUME NEW d \in plan.complete
        PROVE  \E i \in DOMAIN lines :
                  /\ d = [contact |-> oldest[lines[i].email], row |-> ToRow(lines[i])]
                  /\ \E c \in Contacts : contact[c].email = lines[i].email
                  /\ lines[i].email # None
    BY DEF PlanImport
  <2>2. \A c \in Contacts : contact[c].email # None => oldest[contact[c].email] \in Contacts
    BY DEF ImportRead
  <2> QED BY <1>1, <1>2, <2>1, <2>2
<1>7. Reads(r, w) /\ UNCHANGED <<organization, contact, opportunity, followUp, today>>
  BY DEF ImportRead
<1> HIDE DEF plan
<1>8. w.op = "import" /\ w.create = plan.create /\ w.complete \subseteq plan.complete
  OBVIOUS
<1> HIDE DEF w
<1>9. WorkOK(w)
  BY <1>4, <1>5, <1>6, <1>8 DEF WorkOK
<1> QED BY <1>7, <1>9, ReadsFrame

\* What an import writes: new contacts are its own, known ones are completed or left alone.
LEMMA ImportWrites ==
    ASSUME CrmIInv, NEW r \in Request, ImportWrite(r)
    PROVE  \A c \in Contact :
             \/ contact'[c] = contact[c]
             \/ c \notin Contacts /\ \E i \in DOMAIN work[r].create : contact'[c] = work[r].create[i]
             \/ c \in Contacts /\ \E d \in work[r].complete : contact'[c] = Completed(contact[c], d.row)
<1> DEFINE w == work[r]
<1>1. PICK to \in [DOMAIN w.create -> Contact \ Contacts] :
        contact' = [c \in Contact |->
            CASE c \in Range(to) -> w.create[CHOOSE i \in DOMAIN to : to[i] = c]
              [] \E d \in w.complete : d.contact = c ->
                    Completed(contact[c], (CHOOSE d \in w.complete : d.contact = c).row)
              [] OTHER -> contact[c]]
  BY DEF ImportWrite
<1>2. \A d \in w.complete : d.contact \in Contacts
  BY DEF ImportWrite, Doing, CrmIInv, WorkInv, WorkOK
<1>3. SUFFICES ASSUME NEW c \in Contact
               PROVE  \/ contact'[c] = contact[c]
                      \/ c \notin Contacts /\ \E i \in DOMAIN w.create : contact'[c] = w.create[i]
                      \/ c \in Contacts /\ \E d \in w.complete : contact'[c] = Completed(contact[c], d.row)
  OBVIOUS
<1>4. CASE c \in Range(to)
  <2>1. \E i \in DOMAIN to : to[i] = c
    BY <1>4 DEF Range
  <2>2. c \notin Contacts
    BY <2>1
  <2>3. contact'[c] = w.create[CHOOSE i \in DOMAIN to : to[i] = c]
    BY <1>1, <1>2, <1>4, <2>2
  <2> QED BY <2>1, <2>2, <2>3
<1>5. CASE c \notin Range(to) /\ \E d \in w.complete : d.contact = c
  BY <1>1, <1>2, <1>5
<1>6. CASE c \notin Range(to) /\ ~\E d \in w.complete : d.contact = c
  BY <1>1, <1>6
<1> QED BY <1>4, <1>5, <1>6

LEMMA CompletedRow ==
    ASSUME NEW row \in ContactRow, NEW imported \in ContactRow
    PROVE  /\ Completed(row, imported) \in ContactRow
           /\ row.orgName # None => Completed(row, imported).orgName = row.orgName
           /\ row.orgName # None \/ row.org # None => Completed(row, imported).org = row.org
           /\ Completed(row, imported).archived = row.archived
BY DEF Completed, ContactRow

LEMMA ImportWriteInv == ASSUME CrmIInv, NEW r \in Request, ImportWrite(r) PROVE CrmIInv'
<1>1. /\ \A i \in DOMAIN work[r].create : work[r].create[i] \in ContactRow
      /\ \A d \in work[r].complete : d.row \in ContactRow
  BY DEF ImportWrite, Doing, CrmIInv, WorkInv, WorkOK
<1>2. \A c \in Contact : contact[c] \in {Absent} \cup ContactRow /\ (c \in Contacts => contact[c] \in ContactRow)
  BY DEF CrmIInv, TablesOK, Contacts
<1>3. \A c \in Contact : contact'[c] \in {Absent} \cup ContactRow /\ (c \in Contacts => contact'[c] \in ContactRow)
  BY <1>1, <1>2, ImportWrites, CompletedRow
<1>4. contact' = [c \in Contact |-> contact'[c]]
  BY DEF ImportWrite
<1>5. contact' \in [Contact -> {Absent} \cup ContactRow]
  BY <1>3, <1>4
<1> QED BY <1>3, <1>5, AddressBookFrame DEF ImportWrite, CrmIInv, TablesOK, Contacts

(* Opportunities and follow-ups.                                           *)

\* Steps that touch opportunities and follow-ups only: their dates must still tell their
\* status.
LEMMA BoardFrame ==
    ASSUME CrmIInv, work' = work \/ \E r \in Request : Ends(r),
           UNCHANGED <<organization, contact, today>>,
           opportunity' \in [Opportunity -> {Absent} \cup OpportunityRow],
           followUp' \in [FollowUp -> {Absent} \cup FollowUpRow],
           \A f \in FollowUps : followUp'[f] \in FollowUpRow,
           \A f \in FollowUp : followUp'[f] # Absent =>
               (followUp'[f].completedAt <=> followUp'[f].status # "OPEN"),
           \A o \in Opportunity : opportunity'[o] # Absent =>
               (opportunity'[o].closedAt <=>
                   opportunity'[o].status \in ClosedStatus /\ ~opportunity'[o].bornClosed)
    PROVE  CrmIInv'
<1>1. FollowUps \subseteq FollowUps'
  BY RowsAreThere DEF FollowUps
<1>2. WorkInv'
  BY <1>1, WorkFrame DEF Contacts
<1> QED BY <1>2 DEF CrmIInv, TablesOK, DatesMatchStatus, FollowUps, Opportunities

\* What the invariant says of the rows that are there.
LEMMA BoardRows ==
    ASSUME CrmIInv
    PROVE  /\ \A f \in FollowUps : followUp[f] \in FollowUpRow
           /\ \A f \in FollowUp : followUp[f] # Absent => (followUp[f].completedAt <=> followUp[f].status # "OPEN")
           /\ \A o \in Opportunities : opportunity[o] \in OpportunityRow
           /\ \A o \in Opportunity : opportunity[o] # Absent =>
                (opportunity[o].closedAt <=> opportunity[o].status \in ClosedStatus /\ ~opportunity[o].bornClosed)
BY DEF CrmIInv, TablesOK, DatesMatchStatus, FollowUps, Opportunities

\* One opportunity is written.
LEMMA OpportunityWritten ==
    ASSUME CrmIInv, NEW r \in Request, Ends(r), UNCHANGED <<organization, contact, followUp, today>>,
           NEW o \in Opportunity, NEW row \in OpportunityRow, opportunity' = [opportunity EXCEPT ![o] = row],
           row.closedAt <=> row.status \in ClosedStatus /\ ~row.bornClosed
    PROVE  CrmIInv'
<1>1. opportunity' \in [Opportunity -> {Absent} \cup OpportunityRow]
      /\ \A x \in Opportunity : opportunity'[x] = IF x = o THEN row ELSE opportunity[x]
  BY DEF CrmIInv, TablesOK
<1> QED BY <1>1, BoardRows, BoardFrame DEF CrmIInv, TablesOK

LEMMA OpportunityFormInv ==
    ASSUME CrmIInv, NEW r \in Request, NEW o \in Opportunity, NEW s \in Status \cup {None},
           NEW org \in Organization, NEW c \in Contact \cup {None}, OpportunityForm(r, o, s, org, c)
    PROVE  CrmIInv'
<1> DEFINE w == [op |-> "opportunity", opportunity |-> o, status |-> s, org |-> org, contact |-> c]
<1>1. WorkOK(w)
  BY DEF WorkOK
<1> HIDE DEF w
<1> QED BY <1>1, ReadsFrame DEF OpportunityForm, w

LEMMA SaveOpportunityInv == ASSUME CrmIInv, NEW r \in Request, SaveOpportunity(r) PROVE CrmIInv'
<1> DEFINE w == work[r]
           old == [opportunity[w.opportunity] EXCEPT !.org = w.org, !.contact = w.contact]
           new == [status |-> w.status, closedAt |-> FALSE, bornClosed |-> w.status \in ClosedStatus,
                   org |-> w.org, contact |-> w.contact]
<1>1. /\ w.opportunity \in Opportunity /\ w.status \in Status \cup {None}
      /\ w.org \in Organization /\ w.contact \in Contact \cup {None}
  BY DEF SaveOpportunity, Doing, CrmIInv, WorkInv, WorkOK
<1>2. CASE w.status = None
  <2>1. w.opportunity \in Opportunities
    BY <1>2 DEF SaveOpportunity
  <2>2. opportunity[w.opportunity] \in OpportunityRow
        /\ (opportunity[w.opportunity].closedAt <=>
              opportunity[w.opportunity].status \in ClosedStatus /\ ~opportunity[w.opportunity].bornClosed)
    BY <2>1, BoardRows DEF Opportunities
  <2>3. old \in OpportunityRow /\ (old.closedAt <=> old.status \in ClosedStatus /\ ~old.bornClosed)
    BY <1>1, <2>2 DEF OpportunityRow
  <2>4. opportunity' = [opportunity EXCEPT ![w.opportunity] = old]
    BY <1>2 DEF SaveOpportunity
  <2> HIDE DEF old
  <2> QED BY <1>1, <2>3, <2>4, OpportunityWritten DEF SaveOpportunity
<1>3. CASE w.status # None
  <2>1. (w.status \in ClosedStatus) \in BOOLEAN /\ w.status \in Status
    BY <1>1, <1>3
  <2>2. new \in OpportunityRow
    BY <1>1, <2>1 DEF OpportunityRow
  <2>3. new.closedAt = FALSE /\ (new.bornClosed <=> new.status \in ClosedStatus)
    OBVIOUS
  <2>4. opportunity' = [opportunity EXCEPT ![w.opportunity] = new]
    BY <1>3 DEF SaveOpportunity
  <2> HIDE DEF new
  <2> QED BY <1>1, <2>2, <2>3, <2>4, OpportunityWritten DEF SaveOpportunity
<1> QED BY <1>2, <1>3

LEMMA StatusReadInv ==
    ASSUME CrmIInv, NEW r \in Request, NEW o \in Opportunity, NEW s \in Status, StatusRead(r, o, s)
    PROVE  CrmIInv'
<1> DEFINE w == [op |-> "status", opportunity |-> o, seen |-> opportunity[o].status, status |-> s]
<1>1. opportunity[o].status \in Status
  BY BoardRows DEF StatusRead, OpportunityRow
<1>2. WorkOK(w)
  BY <1>1 DEF StatusRead, WorkOK
<1> HIDE DEF w
<1> QED BY <1>2, ReadsFrame DEF StatusRead, w

\* The status read decides of the date, the row is the one found: a closed status is never
\* replaced by a closed one.
LEMMA StatusWriteInv == ASSUME CrmIInv, NEW r \in Request, StatusWrite(r) PROVE CrmIInv'
<1> DEFINE w == work[r]
           old == opportunity[w.opportunity]
           row == [old EXCEPT !.status = w.status, !.closedAt = ClosedAt(w.seen, w.status, old.closedAt),
                              !.bornClosed = FALSE]
<1>1. w.opportunity \in Opportunity /\ w.seen \in Status /\ w.status \in AllowedTransitions(w.seen)
  BY DEF StatusWrite, Doing, CrmIInv, WorkInv, WorkOK
<1>2. old \in OpportunityRow
  BY BoardRows DEF StatusWrite
<1>3. w.status \in Status /\ (w.seen \in OpenStatus \/ w.status \in OpenStatus)
  BY <1>1 DEF AllowedTransitions, Status, OpenStatus, ClosedStatus
<1>4. ClosedAt(w.seen, w.status, old.closedAt) = IF w.status \in ClosedStatus THEN TRUE ELSE FALSE
  BY <1>3 DEF ClosedAt, Status, OpenStatus, ClosedStatus
<1>5. row \in OpportunityRow /\ (row.closedAt <=> row.status \in ClosedStatus /\ ~row.bornClosed)
  <2> DEFINE b == ClosedAt(w.seen, w.status, old.closedAt)
  <2>1. b \in BOOLEAN /\ (b <=> w.status \in ClosedStatus)
    BY <1>4
  <2> HIDE DEF b
  <2>2. row = [old EXCEPT !.status = w.status, !.closedAt = b, !.bornClosed = FALSE]
    BY DEF b
  <2> HIDE DEF row
  <2>3. row \in OpportunityRow
    BY <1>2, <1>3, <2>1, <2>2 DEF OpportunityRow
  <2>4. row.closedAt = b /\ row.status = w.status /\ row.bornClosed = FALSE
    BY <1>2, <2>2 DEF OpportunityRow
  <2> QED BY <2>1, <2>3, <2>4
<1>6. opportunity' = [opportunity EXCEPT ![w.opportunity] = row]
  BY <1>1 DEF StatusWrite, CrmIInv, TablesOK
<1> HIDE DEF row
<1> QED BY <1>1, <1>5, <1>6, OpportunityWritten DEF StatusWrite

LEMMA DeleteOpportunityInv ==
    ASSUME CrmIInv, NEW r \in Request, NEW o \in Opportunity, DeleteOpportunity(o)
    PROVE  CrmIInv'
<1>1. opportunity' \in [Opportunity -> {Absent} \cup OpportunityRow]
      /\ \A x \in Opportunity : opportunity'[x] # Absent => opportunity'[x] = opportunity[x]
  BY DEF DeleteOpportunity, CrmIInv, TablesOK
<1>2. \A f \in FollowUps :
         /\ [followUp[f] EXCEPT !.opportunity = None] \in FollowUpRow
         /\ [followUp[f] EXCEPT !.opportunity = None].completedAt = followUp[f].completedAt
         /\ [followUp[f] EXCEPT !.opportunity = None].status = followUp[f].status
  BY BoardRows DEF FollowUpRow
<1>3. /\ followUp' \in [FollowUp -> {Absent} \cup FollowUpRow]
      /\ \A f \in FollowUps : /\ followUp'[f] \in FollowUpRow
                              /\ followUp'[f].completedAt = followUp[f].completedAt
                              /\ followUp'[f].status = followUp[f].status
      /\ \A f \in FollowUp : f \notin FollowUps => followUp'[f] = Absent
  BY <1>2, BoardRows DEF DeleteOpportunity, CrmIInv, TablesOK, FollowUps
<1> QED BY <1>1, <1>3, BoardRows, BoardFrame DEF DeleteOpportunity, FollowUps

\* One follow-up is written.
LEMMA FollowUpWritten ==
    ASSUME CrmIInv, NEW r \in Request, Ends(r), UNCHANGED <<organization, contact, opportunity, today>>,
           NEW f \in FollowUp, NEW row \in FollowUpRow, followUp' = [followUp EXCEPT ![f] = row],
           row.completedAt <=> row.status # "OPEN"
    PROVE  CrmIInv'
<1>1. followUp' \in [FollowUp -> {Absent} \cup FollowUpRow]
      /\ \A x \in FollowUp : followUp'[x] = IF x = f THEN row ELSE followUp[x]
  BY DEF CrmIInv, TablesOK
<1>2. \A x \in FollowUps : followUp'[x] \in FollowUpRow
  BY <1>1, BoardRows DEF FollowUps
<1> QED BY <1>1, <1>2, BoardRows, BoardFrame DEF CrmIInv, TablesOK

LEMMA FollowUpFormInv ==
    ASSUME CrmIInv, NEW r \in Request, NEW f \in FollowUp, NEW c \in Contact \cup {None},
           NEW o \in Opportunity \cup {None}, NEW ball \in {"ME", "THEM"}, NEW due \in Int,
           FollowUpForm(r, f, c, o, ball, due)
    PROVE  CrmIInv'
<1> DEFINE w == [op |-> "followUp", followUp |-> f, contact |-> c, opportunity |-> o,
                 ballOwner |-> ball, dueAt |-> due]
<1>1. WorkOK(w)
  BY DEF WorkOK
<1> HIDE DEF w
<1> QED BY <1>1, ReadsFrame DEF FollowUpForm, w

LEMMA NewContactInv ==
    ASSUME CrmIInv, NEW r \in Request, NEW f \in FollowUp, NEW c \in Contact, NEW n \in Name \cup {None},
           NEW o \in Opportunity \cup {None}, NEW ball \in {"ME", "THEM"}, NEW due \in Int,
           FollowUpFormNewContact(r, f, c, n, o, ball, due)
    PROVE  CrmIInv'
<1> DEFINE w == [op |-> "followUp", followUp |-> f, contact |-> c, opportunity |-> o,
                 ballOwner |-> ball, dueAt |-> due]
           row == [email |-> None, org |-> None, orgName |-> n, archived |-> FALSE]
<1>1. WorkOK(w)
  BY DEF WorkOK
<1>2. row \in ContactRow
  BY DEF ContactRow
<1>3. contact' = [contact EXCEPT ![c] = row] /\ UNCHANGED <<organization, opportunity, followUp, today>>
      /\ (Reads(r, w) \/ work' = work) /\ c \notin Contacts
  BY DEF FollowUpFormNewContact
<1> HIDE DEF w, row
<1>4. contact' \in [Contact -> {Absent} \cup ContactRow] /\ Contacts \subseteq Contacts'
  BY <1>2, <1>3, RowsAreThere DEF CrmIInv, TablesOK, Contacts
<1>5. work' = [q \in Request |-> work'[q]] /\ \A q \in Request : WorkOK(work'[q])
  BY <1>1, <1>3 DEF CrmIInv, WorkInv, Reads
<1>6. WorkInv'
  BY <1>3, <1>4, <1>5 DEF WorkInv, WorkOK, FollowUps
<1> QED BY <1>3, <1>4, <1>6 DEF CrmIInv, TablesOK, DatesMatchStatus, FollowUps, Opportunities

LEMMA SaveFollowUpInv == ASSUME CrmIInv, NEW r \in Request, SaveFollowUp(r) PROVE CrmIInv'
<1> DEFINE w == work[r]
           row == [status |-> "OPEN", completedAt |-> FALSE, ballOwner |-> w.ballOwner, dueAt |-> w.dueAt,
                   nudgeCount |-> 0, contact |-> w.contact, opportunity |-> w.opportunity]
<1>1. /\ w.followUp \in FollowUp /\ w.contact \in Contact \cup {None} /\ w.dueAt \in Int
      /\ w.opportunity \in Opportunity \cup {None} /\ w.ballOwner \in {"ME", "THEM"}
  BY DEF SaveFollowUp, Doing, CrmIInv, WorkInv, WorkOK
<1>2. row \in FollowUpRow /\ (row.completedAt <=> row.status # "OPEN")
  BY <1>1 DEF FollowUpRow
<1>3. followUp' = [followUp EXCEPT ![w.followUp] = row]
  BY DEF SaveFollowUp
<1> HIDE DEF row
<1> QED BY <1>1, <1>2, <1>3, FollowUpWritten DEF SaveFollowUp

LEMMA QuickReadInv ==
    ASSUME CrmIInv, NEW r \in Request, NEW f \in FollowUp, NEW intent \in Intent, NEW days \in SnoozeDays,
           QuickRead(r, f, intent, days)
    PROVE  CrmIInv'
<1> DEFINE w == [op |-> "quick", followUp |-> f, intent |-> intent, days |-> days,
                 status |-> followUp[f].status, dueAt |-> followUp[f].dueAt, now |-> today]
<1>1. followUp[f].dueAt \in Int /\ today \in Int
  BY BoardRows, CrmAssumption DEF QuickRead, FollowUpRow, CrmIInv, TablesOK
<1>2. WorkOK(w)
  BY <1>1 DEF QuickRead, WorkOK
<1> HIDE DEF w
<1> QED BY <1>2, ReadsFrame DEF QuickRead, w

\* A quick action takes an open row to an open one or a closed one, a closed row to an open one.
LEMMA TransitionRow ==
    ASSUME NEW row \in FollowUpRow, NEW w, w.intent \in Intent, w.dueAt \in Int, w.now \in Int,
           w.days \in SnoozeDays
    PROVE  /\ BuildTransition(w, row) \in FollowUpRow
           /\ (row.completedAt <=> row.status # "OPEN") =>
                (BuildTransition(w, row).completedAt <=> BuildTransition(w, row).status # "OPEN")
           /\ w.intent = "reopen" => BuildTransition(w, row).status = "OPEN"
<1>1. Later(w.dueAt, w.now) \in Int /\ w.days \in Int
  BY DEF Later, SnoozeDays
\* Writing the ball, the count and the due date of a row.
<1> DEFINE base == Later(w.dueAt, w.now)
           Ball(who, count, due) == [row EXCEPT !.ballOwner = who, !.nudgeCount = count, !.dueAt = due]
<1>0. ASSUME NEW who \in {"ME", "THEM"}, NEW count \in Nat, NEW due \in Int
      PROVE  /\ Ball(who, count, due) \in FollowUpRow
             /\ Ball(who, count, due).completedAt = row.completedAt
             /\ Ball(who, count, due).status = row.status
  BY DEF FollowUpRow
<1> HIDE DEF base
<1>2. base \in Int /\ base = Later(w.dueAt, w.now)
  BY <1>1 DEF base
<1>3. CASE w.intent = "nudge"
  <2>1. BuildTransition(w, row) = Ball("THEM", row.nudgeCount + 1, w.now + 3)
    BY <1>3 DEF BuildTransition, NUDGE_SNOOZE_DAYS
  <2>2. row.nudgeCount + 1 \in Nat /\ w.now + 3 \in Int
    BY DEF FollowUpRow
  <2> HIDE DEF Ball
  <2> QED BY <1>0, <1>3, <2>1, <2>2
<1>4. CASE w.intent = "handoff"
  <2>1. BuildTransition(w, row) = Ball("THEM", row.nudgeCount, w.now + 3)
    BY <1>4 DEF BuildTransition, NUDGE_SNOOZE_DAYS, FollowUpRow
  <2>2. row.nudgeCount \in Nat /\ w.now + 3 \in Int
    BY DEF FollowUpRow
  <2> HIDE DEF Ball
  <2> QED BY <1>0, <1>4, <2>1, <2>2
<1>5. CASE w.intent = "received"
  <2>1. BuildTransition(w, row) = Ball("ME", row.nudgeCount, base + 1)
    BY <1>2, <1>5 DEF BuildTransition, RECEIVED_SNOOZE_DAYS, FollowUpRow
  <2>2. row.nudgeCount \in Nat /\ base + 1 \in Int
    BY <1>2 DEF FollowUpRow
  <2> HIDE DEF Ball
  <2> QED BY <1>0, <1>5, <2>1, <2>2
<1>6. CASE w.intent = "snooze"
  BY <1>1, <1>2, <1>6 DEF BuildTransition, FollowUpRow
<1>7. CASE w.intent = "complete"
  BY <1>7 DEF BuildTransition, FollowUpRow
<1>8. CASE w.intent = "abandon"
  BY <1>8 DEF BuildTransition, FollowUpRow
<1>9. CASE w.intent = "reopen"
  BY <1>9 DEF BuildTransition, FollowUpRow
<1> QED BY <1>3, <1>4, <1>5, <1>6, <1>7, <1>8, <1>9 DEF Intent

\* What a request about to write a quick action has in hand.
LEMMA QuickInHand ==
    ASSUME CrmIInv, NEW r \in Request, QuickWrite(r)
    PROVE  LET w == work[r] IN
           /\ w.followUp \in FollowUps /\ w.intent \in Intent /\ w.status \in AllowedFrom(w.intent)
           /\ w.days \in SnoozeDays /\ w.dueAt \in Int /\ w.now \in Int
           /\ followUp[w.followUp] \in FollowUpRow /\ followUp[w.followUp].status = w.status
BY BoardRows DEF QuickWrite, Doing, StillAsRead, CrmIInv, WorkInv, WorkOK

LEMMA QuickWriteInv == ASSUME CrmIInv, NEW r \in Request, QuickWrite(r) PROVE CrmIInv'
<1> DEFINE w == work[r]
           row == BuildTransition(w, followUp[w.followUp])
<1>1. row \in FollowUpRow /\ (row.completedAt <=> row.status # "OPEN") /\ w.followUp \in FollowUp
  BY QuickInHand, TransitionRow, BoardRows DEF FollowUps
<1>2. followUp' = [followUp EXCEPT ![w.followUp] = row]
  BY DEF QuickWrite
<1> HIDE DEF row
<1> QED BY <1>1, <1>2, FollowUpWritten DEF QuickWrite

LEMMA EditFormInv ==
    ASSUME CrmIInv, NEW r \in Request, NEW f \in FollowUp, NEW c \in Contact \cup {None}, NEW due \in Int,
           EditForm(r, f, c, due)
    PROVE  CrmIInv'
<1> DEFINE w == [op |-> "edit", followUp |-> f, contact |-> c, dueAt |-> due]
<1>1. WorkOK(w)
  BY DEF WorkOK
<1> HIDE DEF w
<1> QED BY <1>1, ReadsFrame DEF EditForm, w

LEMMA SaveEditInv == ASSUME CrmIInv, NEW r \in Request, SaveEdit(r) PROVE CrmIInv'
<1> DEFINE w == work[r]
           row == [followUp[w.followUp] EXCEPT !.contact = w.contact, !.dueAt = w.dueAt]
<1>1. w.followUp \in FollowUps /\ w.contact \in Contact \cup {None} /\ w.dueAt \in Int
  BY DEF SaveEdit, Doing, CrmIInv, WorkInv, WorkOK
<1>2. followUp[w.followUp] \in FollowUpRow
      /\ (followUp[w.followUp].completedAt <=> followUp[w.followUp].status # "OPEN")
  BY <1>1, BoardRows DEF FollowUps
<1>3. row \in FollowUpRow /\ (row.completedAt <=> row.status # "OPEN")
  BY <1>1, <1>2 DEF FollowUpRow
<1>4. followUp' = [followUp EXCEPT ![w.followUp] = row] /\ w.followUp \in FollowUp
  BY <1>1 DEF SaveEdit, FollowUps, CrmIInv, TablesOK
<1> HIDE DEF row
<1> QED BY <1>3, <1>4, FollowUpWritten DEF SaveEdit

-----------------------------------------------------------------------------
LEMMA CrmNextInv == ASSUME CrmIInv, [CrmNext]_crmVars PROVE CrmIInv'
<1>1. ASSUME NEW r \in Request, ContactSteps(r) PROVE CrmIInv'
  BY <1>1, ContactFormInv, SaveContactInv, ArchiveContactInv, ImportReadInv, ImportWriteInv DEF ContactSteps
<1>2. ASSUME NEW r \in Request, OpportunitySteps(r) PROVE CrmIInv'
  BY <1>2, OpportunityFormInv, SaveOpportunityInv, StatusReadInv, StatusWriteInv, DeleteOpportunityInv
     DEF OpportunitySteps, Status
<1>3. ASSUME NEW r \in Request, FollowUpSteps(r) PROVE CrmIInv'
  BY <1>3, FollowUpFormInv, NewContactInv, SaveFollowUpInv, QuickReadInv, QuickWriteInv, EditFormInv,
     SaveEditInv DEF FollowUpSteps
<1>4. CASE UNCHANGED crmVars
  <2>1. WorkInv'
    BY <1>4 DEF crmVars, CrmIInv, WorkInv, WorkOK, Contacts, FollowUps
  <2> QED BY <1>4, <2>1 DEF crmVars, CrmIInv, TablesOK, DatesMatchStatus, FollowUps, Opportunities
<1> QED BY <1>1, <1>2, <1>3, <1>4, OrganizationInv, GiveUpInv DEF CrmNext

\* The tables, and what each request has read and not written yet: kept by any requests
\* of any number, in any order.
THEOREM CrmInvariant == CrmSpec => []CrmIInv
<1>1. CrmIInv /\ [CrmNext]_crmVars => CrmIInv'
  BY CrmNextInv
<1> QED BY <1>1, CrmInitInv, PTL DEF CrmSpec

\* The rows keep their types, and their dates tell their status, whatever two requests
\* wrote over each other.
THEOREM CrmHolds == CrmSpec => []CrmInv
<1>1. CrmIInv => CrmInv
  BY DEF CrmIInv, TablesOK, CrmInv, CrmTypeOK, OrganizationRow, ContactRow, OpportunityRow, FollowUpRow,
     Status
<1> QED BY <1>1, CrmInvariant, PTL

\* Which steps write a follow-up that is there, and how.
LEMMA FollowUpChanges ==
    ASSUME CrmIInv, [CrmNext]_crmVars, NEW f \in FollowUps, followUp'[f] # followUp[f]
    PROVE  \/ /\ followUp'[f].status = followUp[f].status
              /\ followUp'[f].nudgeCount = followUp[f].nudgeCount
              /\ followUp'[f].ballOwner = followUp[f].ballOwner
           \/ \E r \in Request : QuickWrite(r) /\ work[r].followUp = f
<1>1. followUp[f] \in FollowUpRow /\ f \in FollowUp
  BY BoardRows DEF FollowUps
<1>2. ASSUME NEW o \in Opportunity, DeleteOpportunity(o)
      PROVE  followUp'[f] \in {followUp[f], [followUp[f] EXCEPT !.opportunity = None]}
  BY <1>1, <1>2 DEF DeleteOpportunity
<1>3. ASSUME NEW r \in Request, SaveFollowUp(r) PROVE followUp'[f] = followUp[f]
  BY <1>3 DEF SaveFollowUp, CrmIInv, TablesOK, FollowUps
<1>4. ASSUME NEW r \in Request, QuickWrite(r) PROVE followUp'[f] = followUp[f] \/ work[r].followUp = f
  BY <1>1, <1>4 DEF QuickWrite, CrmIInv, TablesOK
<1>5. ASSUME NEW r \in Request, SaveEdit(r)
      PROVE  \/ followUp'[f] = followUp[f]
             \/ followUp'[f] = [followUp[f] EXCEPT !.contact = work[r].contact, !.dueAt = work[r].dueAt]
  BY <1>1, <1>5 DEF SaveEdit, CrmIInv, TablesOK
<1>6. ASSUME NEW r \in Request, OpportunitySteps(r), \A o \in Opportunity : ~DeleteOpportunity(o)
      PROVE  followUp' = followUp
  BY <1>6 DEF OpportunitySteps, OpportunityForm, SaveOpportunity, StatusRead, StatusWrite
<1>7. ASSUME NEW r \in Request, FollowUpSteps(r), ~SaveFollowUp(r), ~QuickWrite(r), ~SaveEdit(r)
      PROVE  followUp' = followUp
  BY <1>7 DEF FollowUpSteps, FollowUpForm, FollowUpFormNewContact, QuickRead, EditForm
<1>8. ASSUME NEW r \in Request, ContactSteps(r) \/ GiveUp(r) PROVE followUp' = followUp
  BY <1>8 DEF ContactSteps, ContactForm, SaveContact, ArchiveContact, ImportRead, ImportWrite, GiveUp
<1>9. CASE NextDay \/ OrganizationSteps \/ UNCHANGED crmVars
  BY <1>9 DEF NextDay, OrganizationSteps, CreateOrganization, UpdateOrganization, ArchiveOrganization, crmVars
<1>10. [followUp[f] EXCEPT !.opportunity = None].status = followUp[f].status
       /\ [followUp[f] EXCEPT !.opportunity = None].nudgeCount = followUp[f].nudgeCount
       /\ [followUp[f] EXCEPT !.opportunity = None].ballOwner = followUp[f].ballOwner
  BY <1>1 DEF FollowUpRow
<1> DEFINE Still == /\ followUp'[f].status = followUp[f].status
                    /\ followUp'[f].nudgeCount = followUp[f].nudgeCount
                    /\ followUp'[f].ballOwner = followUp[f].ballOwner
<1>12. ASSUME NEW o \in Opportunity, DeleteOpportunity(o) PROVE Still
  BY <1>2, <1>10, <1>12
<1>13. ASSUME NEW r \in Request, SaveEdit(r) PROVE Still
  <2>1. CASE followUp'[f] = followUp[f]
    BY <2>1
  <2>2. CASE followUp'[f] = [followUp[f] EXCEPT !.contact = work[r].contact, !.dueAt = work[r].dueAt]
    BY <1>1, <2>2 DEF FollowUpRow
  <2> QED BY <1>5, <1>13, <2>1, <2>2
<1> HIDE DEF Still
<1>14. ASSUME NEW r \in Request, OpportunitySteps(r) PROVE Still
  BY <1>6, <1>12, <1>14
<1>15. ASSUME NEW r \in Request, FollowUpSteps(r)
       PROVE  Still \/ \E q \in Request : QuickWrite(q) /\ work[q].followUp = f
  BY <1>3, <1>4, <1>7, <1>13, <1>15
<1> QED BY <1>8, <1>9, <1>14, <1>15 DEF CrmNext, Still

\* The write of a quick action on its row.
LEMMA QuickRests ==
    ASSUME CrmIInv, NEW r \in Request, QuickWrite(r), work[r].followUp \in FollowUps
    PROVE  LET f == work[r].followUp IN
           /\ followUp[f].status # "OPEN" => followUp'[f].status = "OPEN"
           /\ work[r].intent = "reopen" => followUp[f].status # "OPEN"
<1> DEFINE w == work[r]
           f == w.followUp
<1>1. /\ w.intent \in Intent /\ w.status \in AllowedFrom(w.intent) /\ w.days \in SnoozeDays
      /\ w.dueAt \in Int /\ w.now \in Int /\ followUp[f] \in FollowUpRow /\ followUp[f].status = w.status
  BY QuickInHand
<1>2. followUp'[f] = BuildTransition(w, followUp[f])
  BY DEF QuickWrite, FollowUps, CrmIInv, TablesOK
<1>3. w.intent = "reopen" => followUp'[f].status = "OPEN"
  BY <1>1, <1>2, TransitionRow
<1> QED BY <1>1, <1>3 DEF AllowedFrom

\* A request ends by its own write, or by giving up.
LEMMA OwnEnd ==
    ASSUME CrmIInv, [CrmNext]_crmVars, NEW r \in Request, work[r] # Idle, work'[r] = Idle
    PROVE  \/ SaveContact(r) \/ ImportWrite(r) \/ SaveOpportunity(r) \/ StatusWrite(r)
           \/ SaveFollowUp(r) \/ QuickWrite(r) \/ SaveEdit(r) \/ GiveUp(r)
<1>2. \A q \in Request : \A w : Reads(q, w) => work'[r] # Idle
  BY DEF Reads, CrmIInv, WorkInv
<1>3. \A q \in Request : Ends(q) => q = r
  BY DEF Ends, CrmIInv, WorkInv
<1>4. ASSUME NEW q \in Request, OpportunitySteps(q) PROVE SaveOpportunity(r) \/ StatusWrite(r)
  <2>1. ASSUME NEW o \in Opportunity, DeleteOpportunity(o) PROVE FALSE
    BY <2>1 DEF DeleteOpportunity
  <2>2. SaveOpportunity(q) \/ StatusWrite(q) => q = r
    BY <1>3 DEF SaveOpportunity, StatusWrite
  <2> QED BY <1>2, <1>4, <2>1, <2>2 DEF OpportunitySteps, OpportunityForm, StatusRead
<1>5. ASSUME NEW q \in Request, FollowUpSteps(q) PROVE SaveFollowUp(r) \/ QuickWrite(r) \/ SaveEdit(r)
  <2>1. SaveFollowUp(q) \/ QuickWrite(q) \/ SaveEdit(q) => q = r
    BY <1>3 DEF SaveFollowUp, QuickWrite, SaveEdit
  <2>2. ASSUME NEW f \in FollowUp, NEW o, NEW ball, NEW due, NEW c, NEW n,
               FollowUpForm(q, f, c, o, ball, due) \/ FollowUpFormNewContact(q, f, c, n, o, ball, due)
        PROVE  FALSE
    BY <1>2, <2>2 DEF FollowUpForm, FollowUpFormNewContact
  <2> QED BY <1>2, <1>5, <2>1, <2>2 DEF FollowUpSteps, QuickRead, EditForm
<1>6. ASSUME NEW q \in Request, ContactSteps(q) PROVE SaveContact(r) \/ ImportWrite(r)
  <2>1. SaveContact(q) \/ ImportWrite(q) => q = r
    BY <1>3 DEF SaveContact, ImportWrite
  <2>2. ASSUME NEW c, NEW archived, ArchiveContact(c, archived) PROVE FALSE
    BY <2>2 DEF ArchiveContact
  <2> QED BY <1>2, <1>6, <2>1, <2>2 DEF ContactSteps, ContactForm, ImportRead
<1>7. CASE NextDay \/ OrganizationSteps \/ UNCHANGED crmVars
  BY <1>7 DEF NextDay, OrganizationSteps, CreateOrganization, UpdateOrganization,
     ArchiveOrganization, crmVars
<1>8. ASSUME NEW q \in Request, GiveUp(q) PROVE GiveUp(r)
  BY <1>3, <1>8 DEF GiveUp
<1> QED BY <1>4, <1>5, <1>6, <1>7, <1>8 DEF CrmNext

\* A closed follow-up rests: the status and the due date that were read are compared when
\* the action is written.
THEOREM ClosedOnesRest == CrmSpec => ClosedFollowUpsRest
<1> DEFINE Rest ==
      \A f \in FollowUps :
          /\ followUp[f].status # "OPEN" /\ followUp'[f].status # "OPEN" =>
                /\ followUp'[f].nudgeCount = followUp[f].nudgeCount
                /\ followUp'[f].ballOwner = followUp[f].ballOwner
                /\ followUp'[f].status = followUp[f].status
          /\ \A r \in Request : Applies(r) /\ work[r].intent = "reopen" /\ work[r].followUp = f =>
                followUp[f].status # "OPEN"
<1>1. ASSUME CrmIInv, [CrmNext]_crmVars PROVE Rest
  <2>1. TAKE f \in FollowUps
  <2>2. ASSUME followUp[f].status # "OPEN", followUp'[f].status # "OPEN"
        PROVE  /\ followUp'[f].nudgeCount = followUp[f].nudgeCount
               /\ followUp'[f].ballOwner = followUp[f].ballOwner
               /\ followUp'[f].status = followUp[f].status
    BY <1>1, <2>2, FollowUpChanges, QuickRests
  <2>3. ASSUME NEW r \in Request, Applies(r), work[r].intent = "reopen", work[r].followUp = f
        PROVE  followUp[f].status # "OPEN"
    <3>1. work[r].op = "quick" /\ work'[r] = Idle /\ followUp' # followUp
      BY <2>3 DEF Applies, Doing
    <3>2. QuickWrite(r)
      <4>1. work[r] # Idle
        BY <3>1 DEF Idle
      <4> QED BY <1>1, <3>1, <4>1, OwnEnd DEF SaveContact, ImportWrite, SaveOpportunity, StatusWrite,
                 SaveFollowUp, SaveEdit, GiveUp, Doing
    <3> QED BY <1>1, <2>3, <3>2, QuickRests
  <2> QED BY <2>2, <2>3
<1>2. CrmIInv /\ [CrmNext]_crmVars => [Rest]_crmVars
  BY <1>1
<1> QED BY <1>2, CrmInvariant, PTL DEF CrmSpec, ClosedFollowUpsRest

\* The contacts an import creates, each from its own line of the file.
LEMMA ImportCreates ==
    ASSUME CrmIInv, NEW r \in Request, ImportWrite(r)
    PROVE  \A c, d \in {b \in Contact : b \notin Contacts /\ contact'[b] # Absent} :
              contact'[c].email = contact'[d].email /\ contact'[c].email # None => c = d
<1> DEFINE w == work[r]
           New == {b \in Contact : b \notin Contacts /\ contact'[b] # Absent}
<1>1. PICK to \in [DOMAIN w.create -> Contact \ Contacts] :
        /\ IsInjective(to)
        /\ contact' = [c \in Contact |->
            CASE c \in Range(to) -> w.create[CHOOSE i \in DOMAIN to : to[i] = c]
              [] \E d \in w.complete : d.contact = c ->
                    Completed(contact[c], (CHOOSE d \in w.complete : d.contact = c).row)
              [] OTHER -> contact[c]]
  BY DEF ImportWrite
<1>2. /\ \A d \in w.complete : d.contact \in Contacts
      /\ \A i, j \in DOMAIN w.create :
            w.create[i].email = w.create[j].email /\ w.create[i].email # None => i = j
  BY DEF ImportWrite, Doing, CrmIInv, WorkInv, WorkOK
<1>3. ASSUME NEW c \in New PROVE \E i \in DOMAIN w.create : to[i] = c /\ contact'[c] = w.create[i]
  <2>1. contact[c] = Absent /\ ~\E d \in w.complete : d.contact = c
    BY <1>2 DEF Contacts
  <2>2. c \in Range(to)
    BY <1>1, <2>1
  <2>3. contact'[c] = w.create[CHOOSE i \in DOMAIN to : to[i] = c]
    BY <1>1, <2>1, <2>2
  <2>4. \E i \in DOMAIN to : to[i] = c
    BY <2>2 DEF Range
  <2> QED BY <2>3, <2>4
<1> HIDE DEF New
<1>4. ASSUME NEW c \in New, NEW d \in New, contact'[c].email = contact'[d].email, contact'[c].email # None
      PROVE  c = d
  <2>1. PICK i \in DOMAIN w.create : to[i] = c /\ contact'[c] = w.create[i]
    BY <1>3
  <2>2. PICK j \in DOMAIN w.create : to[j] = d /\ contact'[d] = w.create[j]
    BY <1>3
  <2> QED BY <1>2, <1>4, <2>1, <2>2
<1> QED BY <1>4 DEF New

\* An import fills what is empty and nothing else, whatever was written since the file was
\* analysed: it decides on the rows as they are when it writes.
THEOREM ImportFills == CrmSpec => ImportFillsOnly
<1> DEFINE Fills ==
      \A r \in Request : Doing(r, "import") /\ work'[r] = Idle =>
          /\ \A c \in Contacts :
                /\ contact[c].orgName # None =>
                      contact'[c].orgName = contact[c].orgName /\ contact'[c].org = contact[c].org
                /\ contact[c].org # None => contact'[c].org = contact[c].org
                /\ contact'[c].archived = contact[c].archived
          /\ \A c, d \in {b \in Contact : b \notin Contacts /\ contact'[b] # Absent} :
                contact'[c].email = contact'[d].email /\ contact'[c].email # None => c = d
<1>1. ASSUME CrmIInv, [CrmNext]_crmVars PROVE Fills
  <2>1. TAKE r \in Request
  <2>2. HAVE Doing(r, "import") /\ work'[r] = Idle
  <2>3. ImportWrite(r) \/ GiveUp(r)
    <3>1. work[r] # Idle
      BY <2>2 DEF Doing, Idle
    <3> QED BY <1>1, <2>2, <3>1, OwnEnd DEF SaveContact, SaveOpportunity, StatusWrite, SaveFollowUp,
               QuickWrite, SaveEdit, Doing
  <2>4. CASE GiveUp(r)
    BY <2>4 DEF GiveUp, Contacts
  <2>5. CASE ImportWrite(r)
    <3>1. \A d \in work[r].complete : d.row \in ContactRow
      BY <1>1, <2>2 DEF Doing, CrmIInv, WorkInv, WorkOK
    <3>2. \A c \in Contacts : contact[c] \in ContactRow /\ c \in Contact
      BY <1>1 DEF CrmIInv, TablesOK, Contacts
    <3>3. \A c \in Contacts :
             contact'[c] = contact[c] \/ \E d \in work[r].complete : contact'[c] = Completed(contact[c], d.row)
      BY <1>1, <2>5, <3>2, ImportWrites
    <3>4. \A c \in Contacts :
                /\ contact[c].orgName # None =>
                      contact'[c].orgName = contact[c].orgName /\ contact'[c].org = contact[c].org
                /\ contact[c].org # None => contact'[c].org = contact[c].org
                /\ contact'[c].archived = contact[c].archived
      BY <3>1, <3>2, <3>3, CompletedRow
    <3> QED BY <1>1, <2>5, <3>4, ImportCreates
  <2> QED BY <2>3, <2>4, <2>5
<1>2. CrmIInv /\ [CrmNext]_crmVars => [Fills]_crmVars
  BY <1>1
<1> QED BY <1>2, CrmInvariant, PTL DEF CrmSpec, ImportFillsOnly

\* Neither a quick action nor an import undoes what it did not see.
THEOREM CrmStepsHold == CrmSpec => CrmSteps
BY ClosedOnesRest, ImportFills DEF CrmSteps

-----------------------------------------------------------------------------
(* Backups.                                                                *)

ArchiveRow == [holds : SUBSET Picture, day : Nat]
Dumping == [at : {"started", "dumped"}, stamp : Stamp]
Archiving == [at : {"archiving"}, stamp : Stamp, list : SUBSET Picture]
Pruning == [at : {"prune"}, stamp : Stamp, family : ArchiveKind]
Counting == [at : {"counted"}, stamp : Stamp, family : ArchiveKind, total : Nat]
Removing == [at : {"removing"}, stamp : Stamp, family : ArchiveKind, list : SUBSET Stamp]
Restoring == [at : {"saved", "stopped", "half"}, from : SUBSET Picture]

BackupTypes ==
    /\ day \in Nat /\ stamps \in 0..MaxStamps
    /\ picture \in [Picture -> {"new", "stored", "shown", "cleared", "doomed", "orphan", "broken", "gone"}]
    /\ dumps \in [Stamp -> ArchiveRow \cup {NoArchive}] /\ uploads \in [Stamp -> ArchiveRow \cup {NoArchive}]
    /\ run \in [BackupRun -> {NoRun} \cup Dumping \cup Archiving \cup Pruning \cup Counting \cup Removing]
    /\ restore \in {[at |-> "none"]} \cup Restoring /\ app \in {"running", "stopped"}
    /\ removedDuring \in [Stamp -> SUBSET Picture] /\ overlapped \in BOOLEAN
    /\ written \in [ArchiveKind -> SUBSET Stamp]

\* A stamp is of one run, and of the archives that run has written.
StampsFresh ==
    /\ \A f \in ArchiveKind : Kept(f) \subseteq written[f] /\ written[f] \subseteq 1..stamps
    /\ \A r \in BackupRun : run[r] # NoRun =>
          /\ run[r].stamp <= stamps
          /\ \A q \in BackupRun : q # r /\ run[q] # NoRun => run[q].stamp # run[r].stamp
          /\ run[r].at = "started" => run[r].stamp \notin written["dumps"]
          /\ run[r].at \in {"started", "dumped", "archiving"} => run[r].stamp \notin written["uploads"]

Lasting == {"shown", "doomed", "orphan"}

\* A photo of a dump whose archive is to come has its file, or its removal is known.
PicturesHeld ==
    \A r \in BackupRun : run[r] # NoRun /\ run[r].stamp \in Kept("dumps") =>
        LET missing == dumps[run[r].stamp].holds \ removedDuring[run[r].stamp] IN
        /\ run[r].at = "dumped" => \A k \in missing : picture[k] \in Lasting
        /\ run[r].at = "archiving" => missing \subseteq run[r].list

PairsInv == BackupTypes /\ StampsFresh /\ PicturesHeld /\ PairIsComplete

-----------------------------------------------------------------------------
LEMMA BackupsInit1 == BackupsInit => PairsInv
<1> SUFFICES ASSUME BackupsInit PROVE PairsInv
  OBVIOUS
<1>1. MaxStamps \in Nat /\ Earlier \in 0..MaxStamps /\ NoArchive \notin ArchiveRow
  BY BackupsAssumption DEF ArchiveRow
<1>2. 1..Earlier \subseteq Stamp /\ RowKeys \subseteq Picture
  BY <1>1 DEF Stamp, RowKeys
<1> DEFINE made == [s \in Stamp |-> IF s <= Earlier THEN [holds |-> RowKeys, day |-> 0] ELSE NoArchive]
<1>3. dumps = made /\ uploads = made /\ [holds |-> RowKeys, day |-> 0] \in ArchiveRow
  BY <1>2 DEF BackupsInit, ArchiveRow
<1>4. BackupTypes
  BY <1>1, <1>2, <1>3 DEF BackupsInit, BackupTypes
<1>5. StampsFresh
  BY <1>1, <1>2, <1>3 DEF BackupsInit, StampsFresh, Kept, Archives, ArchiveKind, Stamp
<1>6. PicturesHeld
  BY DEF BackupsInit, PicturesHeld
<1>7. PairIsComplete
  BY <1>3 DEF PairIsComplete, Kept, Archives
<1> QED BY <1>4, <1>5, <1>6, <1>7 DEF PairsInv

\* What the application, a restore or the passing of days does: no archive and no run moves.
LEMMA SiteMoves ==
    ASSUME PairsInv, UNCHANGED <<archiveVars, run, stamps>>, BackupTypes',
           \A s \in Stamp : removedDuring[s] \subseteq removedDuring'[s],
           \A k \in Picture : picture[k] \in Lasting /\ picture'[k] \notin Lasting =>
               \A r \in BackupRun : run[r].at = "dumped" => k \in removedDuring'[run[r].stamp]
    PROVE  PairsInv'
<1>1. UNCHANGED <<dumps, uploads, written>> /\ \A f \in ArchiveKind : Kept(f)' = Kept(f)
  BY DEF archiveVars, Kept, Archives
<1>2. "dumps" \in ArchiveKind /\ "uploads" \in ArchiveKind
  BY DEF ArchiveKind
<1>3. StampsFresh'
  BY <1>1, <1>2 DEF PairsInv, StampsFresh
<1>4. Kept("dumps") \subseteq Stamp /\ \A s \in Kept("dumps") : dumps[s] \in ArchiveRow
  BY DEF PairsInv, BackupTypes, Kept, Archives
<1>5. PicturesHeld'
  <2> SUFFICES ASSUME NEW r \in BackupRun, run[r] # NoRun, run[r].stamp \in Kept("dumps")
               PROVE  LET missing == dumps[run[r].stamp].holds \ removedDuring'[run[r].stamp] IN
                      /\ run[r].at = "dumped" => \A k \in missing : picture'[k] \in Lasting
                      /\ run[r].at = "archiving" => missing \subseteq run[r].list
    BY <1>1, <1>2 DEF PicturesHeld
  <2> DEFINE s == run[r].stamp
  <2>1. s \in Stamp /\ dumps[s].holds \subseteq Picture /\ removedDuring[s] \subseteq removedDuring'[s]
    BY <1>4 DEF ArchiveRow
  <2>2. /\ run[r].at = "dumped" => \A k \in dumps[s].holds \ removedDuring[s] : picture[k] \in Lasting
        /\ run[r].at = "archiving" => dumps[s].holds \ removedDuring[s] \subseteq run[r].list
    BY DEF PairsInv, PicturesHeld
  <2> QED BY <2>1, <2>2
<1>6. PairIsComplete'
  BY <1>1, <1>2, <1>4 DEF PairsInv, PairIsComplete
<1> QED BY <1>3, <1>5, <1>6 DEF PairsInv

LEMMA PhotoMoves ==
    ASSUME PairsInv, NEW k \in Picture, StorePhoto(k) \/ ShowPhoto(k) \/ ClearPhoto(k) \/ RemovePhoto(k)
    PROVE  PairsInv'
<1>1. PICK state \in {"stored", "shown", "cleared", "gone", "broken"} :
         /\ Becomes(k, state)
         /\ picture[k] \in Lasting /\ state \notin Lasting => picture[k] \in {"shown", "doomed"}
  BY DEF StorePhoto, ShowPhoto, ClearPhoto, RemovePhoto, Lasting
<1>2. /\ picture' = [picture EXCEPT ![k] = state]
      /\ removedDuring' = [s \in Stamp |->
             IF picture[k] \in {"shown", "doomed"} /\ \E r \in BackupRun : run[r].at \in {"dumped", "archiving"} /\ run[r].stamp = s
             THEN removedDuring[s] \cup {k} ELSE removedDuring[s]]
      /\ UNCHANGED <<day, archiveVars, run, stamps, restore, app, overlapped>>
  BY <1>1 DEF Becomes
<1>3. BackupTypes'
  BY <1>2 DEF PairsInv, BackupTypes, archiveVars
<1>5. \A s \in Stamp : removedDuring[s] \subseteq removedDuring'[s]
  BY <1>2
<1>6. ASSUME NEW j \in Picture, picture[j] \in Lasting, picture'[j] \notin Lasting, NEW r \in BackupRun, run[r].at = "dumped"
      PROVE  j \in removedDuring'[run[r].stamp]
  <2>1. j = k /\ picture[k] \in {"shown", "doomed"}
    BY <1>1, <1>2, <1>6 DEF PairsInv, BackupTypes
  <2>2. run[r].stamp \in Stamp
    BY <1>6 DEF PairsInv, BackupTypes, NoRun, Dumping, Archiving, Pruning, Counting, Removing
  <2> QED BY <1>2, <1>6, <2>1, <2>2
<1> QED BY <1>2, <1>3, <1>5, <1>6, SiteMoves

LEMMA RestoreMoves ==
    ASSUME PairsInv,
           \/ \E s \in Stamp : RestoreStart(s) \/ Extract(s)
           \/ \E fails \in BOOLEAN : StopApp(fails)
           \/ RestoreDone \/ RestoreFails \/ NextMorning
    PROVE  PairsInv'
<1>1. UNCHANGED <<archiveVars, run, stamps, removedDuring, overlapped>>
  BY DEF RestoreStart, Extract, StopApp, RestoreDone, RestoreFails, NextMorning, siteVars
<1>2. /\ picture' \in [Picture -> {"new", "stored", "shown", "cleared", "doomed", "orphan", "broken", "gone"}]
      /\ \A k \in Picture : picture[k] \in Lasting => picture'[k] \in Lasting
  <2>1. CASE UNCHANGED picture
    BY <2>1 DEF PairsInv, BackupTypes
  <2>2. CASE picture' = [k \in Picture |-> Restored(k)]
    <3>1. ASSUME NEW k \in Picture
          PROVE  /\ Restored(k) \in {"new", "stored", "shown", "cleared", "doomed", "orphan", "broken", "gone"}
                 /\ picture[k] \in Lasting => Restored(k) \in Lasting
      <4>1. /\ picture[k] \in {"new", "stored", "shown", "cleared", "doomed", "orphan", "broken", "gone"}
            /\ k \in FileKeys <=> picture[k] \in {"stored", "shown", "cleared", "doomed", "orphan"}
        BY DEF PairsInv, BackupTypes, FileKeys
      <4>2. CASE k \in restore.from /\ k \in FileKeys
        BY <4>1, <4>2 DEF Restored, Lasting
      <4>3. CASE k \in restore.from /\ k \notin FileKeys
        BY <4>1, <4>3 DEF Restored, Lasting
      <4>4. CASE k \notin restore.from /\ k \in FileKeys
        BY <4>1, <4>4 DEF Restored, Lasting
      <4>5. CASE k \notin restore.from /\ k \notin FileKeys
        BY <4>1, <4>5 DEF Restored, Lasting
      <4> QED BY <4>2, <4>3, <4>4, <4>5
    <3> QED BY <2>2, <3>1
  <2>3. CASE RestoreFails
    BY <2>3 DEF RestoreFails, PairsInv, BackupTypes, FileKeys, Lasting
  <2>4. CASE \E s \in Stamp : Extract(s)
    BY <2>4 DEF Extract, PairsInv, BackupTypes, Lasting
  <2>5. \/ UNCHANGED picture
        \/ picture' = [k \in Picture |-> Restored(k)]
        \/ RestoreFails
        \/ \E s \in Stamp : Extract(s)
    BY DEF RestoreStart, StopApp, RestoreDone, NextMorning, siteVars
  <2> QED BY <2>1, <2>2, <2>3, <2>4, <2>5
<1>3. restore' \in {[at |-> "none"]} \cup Restoring /\ app' \in {"running", "stopped"} /\ day' \in Nat
  <2>1. CASE \E s \in Stamp : RestoreStart(s)
    <3>1. PICK s \in Stamp : RestoreStart(s)
      BY <2>1
    <3>2. dumps[s].holds \subseteq Picture /\ RowKeys \subseteq Picture
      BY <3>1 DEF RestoreStart, PairsInv, BackupTypes, ArchiveRow, RowKeys
    <3> QED BY <3>1, <3>2 DEF RestoreStart, PairsInv, BackupTypes, Restoring
  <2>2. CASE \E s \in Stamp : Extract(s)
    BY <2>2 DEF Extract, PairsInv, BackupTypes
  <2>3. CASE \E fails \in BOOLEAN : StopApp(fails)
    <3>1. PICK fails \in BOOLEAN : StopApp(fails)
      BY <2>3
    <3>2. restore \in Restoring
      <4>1. restore.at = "saved" /\ restore \in {[at |-> "none"]} \cup Restoring
        BY <3>1 DEF StopApp, PairsInv, BackupTypes
      <4> QED BY <4>1
    <3>3. restore' \in Restoring /\ app' = IF fails THEN app ELSE "stopped"
      BY <3>1, <3>2 DEF StopApp, Restoring
    <3> QED BY <3>1, <3>3 DEF StopApp, PairsInv, BackupTypes
  <2>4. CASE RestoreDone
    BY <2>4 DEF RestoreDone, PairsInv, BackupTypes
  <2>5. CASE RestoreFails
    <3>1. restore \in Restoring /\ restore.at = "stopped"
      BY <2>5 DEF RestoreFails, PairsInv, BackupTypes
    <3>2. restore' \in Restoring
      BY <2>5, <3>1 DEF RestoreFails, Restoring
    <3> QED BY <2>5, <3>1, <3>2 DEF RestoreFails, PairsInv, BackupTypes
  <2>6. CASE NextMorning
    BY <2>6 DEF NextMorning, siteVars, PairsInv, BackupTypes
  <2> QED BY <2>1, <2>2, <2>3, <2>4, <2>5, <2>6
<1>4. BackupTypes'
  BY <1>1, <1>2, <1>3 DEF PairsInv, BackupTypes, archiveVars
<1> QED BY <1>1, <1>2, <1>3, <1>4, SiteMoves

RunState == {NoRun} \cup Dumping \cup Archiving \cup Pruning \cup Counting \cup Removing

\* A run goes on or ends, archives that were kept may be removed.
LEMMA RunMoves ==
    ASSUME PairsInv, NEW r \in BackupRun, run[r] # NoRun, NEW x \in RunState, run' = [run EXCEPT ![r] = x],
           \/ x = NoRun
           \/ x.stamp = run[r].stamp /\ x.at \in {"prune", "counted", "removing"}
           \/ x.stamp = run[r].stamp /\ x.at = "archiving" /\ run[r].at = "dumped" /\ x.list = FileKeys,
           dumps' \in [Stamp -> ArchiveRow \cup {NoArchive}], uploads' \in [Stamp -> ArchiveRow \cup {NoArchive}],
           \A s \in Stamp : dumps'[s] \in {dumps[s], NoArchive} /\ uploads'[s] \in {uploads[s], NoArchive},
           UNCHANGED <<day, siteVars, stamps, removedDuring, overlapped, written>>
    PROVE  PairsInv'
<1>1. \A q \in BackupRun : run'[q] = IF q = r THEN x ELSE run[q]
  BY DEF PairsInv, BackupTypes
<1>2. UNCHANGED <<picture, app, restore>>
  BY DEF siteVars
<1>3. "dumps" \in ArchiveKind /\ "uploads" \in ArchiveKind /\ \A f \in ArchiveKind : f = "dumps" \/ f = "uploads"
  BY DEF ArchiveKind
<1>4. /\ Kept("dumps")' \subseteq Kept("dumps") /\ Kept("uploads")' \subseteq Kept("uploads")
      /\ \A s \in Kept("dumps")' : dumps'[s] = dumps[s]
      /\ \A s \in Kept("uploads")' : uploads'[s] = uploads[s]
  BY DEF Kept, Archives
<1>5. BackupTypes'
  BY <1>1, <1>2 DEF PairsInv, BackupTypes, RunState
<1>6. StampsFresh'
  <2>1. \A f \in ArchiveKind : Kept(f)' \subseteq written'[f] /\ written'[f] \subseteq 1..stamps'
    BY <1>3, <1>4 DEF PairsInv, StampsFresh
  <2>2. ASSUME NEW p \in BackupRun, run'[p] # NoRun
        PROVE  /\ run'[p].stamp = run[p].stamp /\ run[p] # NoRun
               /\ run'[p].at = "started" => run[p].at = "started"
               /\ run'[p].at \in {"started", "dumped", "archiving"} => run[p].at \in {"started", "dumped", "archiving"}
    BY <1>1, <2>2
  <2>3. ASSUME NEW p \in BackupRun, run'[p] # NoRun
        PROVE  /\ run'[p].stamp <= stamps'
               /\ \A q \in BackupRun : q # p /\ run'[q] # NoRun => run'[q].stamp # run'[p].stamp
               /\ run'[p].at = "started" => run'[p].stamp \notin written'["dumps"]
               /\ run'[p].at \in {"started", "dumped", "archiving"} => run'[p].stamp \notin written'["uploads"]
    BY <2>2, <2>3 DEF PairsInv, StampsFresh
  <2> QED BY <2>1, <2>3 DEF StampsFresh
<1>7. PicturesHeld'
  <2> SUFFICES ASSUME NEW q \in BackupRun, run'[q] # NoRun, run'[q].stamp \in Kept("dumps")'
               PROVE  LET missing == dumps'[run'[q].stamp].holds \ removedDuring[run'[q].stamp] IN
                      /\ run'[q].at = "dumped" => \A k \in missing : picture[k] \in Lasting
                      /\ run'[q].at = "archiving" => missing \subseteq run'[q].list
    BY <1>2 DEF PicturesHeld
  <2>1. run[q] # NoRun /\ run[q].stamp = run'[q].stamp
    BY <1>1
  <2> DEFINE s == run[q].stamp
             missing == dumps[s].holds \ removedDuring[s]
  <2>2. s \in Kept("dumps") /\ dumps'[s] = dumps[s]
    BY <1>4, <2>1
  <2>3. /\ run[q].at = "dumped" => \A k \in missing : picture[k] \in Lasting
        /\ run[q].at = "archiving" => missing \subseteq run[q].list
    BY <2>1, <2>2 DEF PairsInv, PicturesHeld
  <2>4. missing \subseteq Picture
    BY <2>2 DEF PairsInv, BackupTypes, Kept, Archives, ArchiveRow
  <2> HIDE DEF missing
  <2>5. CASE q = r /\ x.at = "archiving"
    <3>1. run[q].at = "dumped" /\ run'[q].list = FileKeys
      BY <1>1, <2>1, <2>5
    <3>2. missing \subseteq FileKeys
      BY <2>3, <2>4, <3>1 DEF FileKeys, Lasting
    <3> QED BY <1>1, <2>1, <2>2, <2>5, <3>1, <3>2 DEF missing
  <2>6. CASE q # r
    BY <1>1, <2>2, <2>3, <2>6 DEF missing
  <2>7. CASE q = r /\ x.at # "archiving"
    BY <1>1, <2>7
  <2> QED BY <2>5, <2>6, <2>7
<1>8. PairIsComplete'
  BY <1>4 DEF PairsInv, PairIsComplete
<1> QED BY <1>5, <1>6, <1>7, <1>8 DEF PairsInv

LEMMA StartBackupPairs == ASSUME PairsInv, NEW r \in BackupRun, StartBackup(r) PROVE PairsInv'
<1> DEFINE x == [at |-> "started", stamp |-> stamps + 1]
<1>1. /\ run[r] = NoRun /\ stamps < MaxStamps /\ stamps' = stamps + 1 /\ run' = [run EXCEPT ![r] = x]
      /\ overlapped' = (overlapped \/ Active # {})
      /\ UNCHANGED <<day, picture, app, restore, dumps, uploads, written, removedDuring>>
  BY DEF StartBackup, siteVars, archiveVars
<1>2. stamps \in 0..MaxStamps /\ stamps + 1 \in Stamp /\ stamps' \in 0..MaxStamps /\ MaxStamps \in Nat
  BY <1>1, BackupsAssumption DEF PairsInv, BackupTypes, Stamp
<1>3. x \in Dumping
  BY <1>2 DEF Dumping
<1>4. \A q \in BackupRun : run'[q] = IF q = r THEN x ELSE run[q]
  BY <1>1 DEF PairsInv, BackupTypes
<1>5. x # NoRun /\ x.at = "started" /\ x.stamp = stamps + 1
  BY DEF NoRun
<1> HIDE DEF x
<1>6. BackupTypes'
  BY <1>1, <1>2, <1>3 DEF PairsInv, BackupTypes
<1>7. UNCHANGED <<Kept("dumps"), Kept("uploads")>> /\ \A f \in ArchiveKind : Kept(f)' = Kept(f)
  BY <1>1 DEF Kept, Archives
<1>8. \A f \in ArchiveKind : stamps + 1 \notin written[f]
  BY <1>2 DEF PairsInv, StampsFresh
<1>9. StampsFresh'
  <2>1. \A f \in ArchiveKind : Kept(f)' \subseteq written'[f] /\ written'[f] \subseteq 1..stamps'
    BY <1>1, <1>2, <1>7 DEF PairsInv, StampsFresh
  <2>2. ASSUME NEW p \in BackupRun, run'[p] # NoRun
        PROVE  /\ run'[p].stamp <= stamps'
               /\ \A q \in BackupRun : q # p /\ run'[q] # NoRun => run'[q].stamp # run'[p].stamp
               /\ run'[p].at = "started" => run'[p].stamp \notin written'["dumps"]
               /\ run'[p].at \in {"started", "dumped", "archiving"} => run'[p].stamp \notin written'["uploads"]
    <3>1. \A q \in BackupRun : q # r /\ run[q] # NoRun => run[q].stamp \in Nat /\ run[q].stamp <= stamps
      BY <1>2 DEF PairsInv, StampsFresh, BackupTypes, Dumping, Archiving, Pruning, Counting, Removing, Stamp
    <3>2. CASE p = r
      BY <1>1, <1>2, <1>4, <1>5, <1>8, <2>2, <3>1, <3>2 DEF ArchiveKind
    <3>3. CASE p # r
      BY <1>1, <1>2, <1>4, <1>5, <2>2, <3>1, <3>3 DEF PairsInv, StampsFresh
    <3> QED BY <3>2, <3>3
  <2> QED BY <2>1, <2>2 DEF StampsFresh
<1>10. PicturesHeld'
  <2> SUFFICES ASSUME NEW q \in BackupRun, run'[q] # NoRun, run'[q].stamp \in Kept("dumps")
               PROVE  LET missing == dumps[run'[q].stamp].holds \ removedDuring[run'[q].stamp] IN
                      /\ run'[q].at = "dumped" => \A k \in missing : picture[k] \in Lasting
                      /\ run'[q].at = "archiving" => missing \subseteq run'[q].list
    BY <1>1, <1>7 DEF PicturesHeld
  <2>1. CASE q = r
    BY <1>4, <1>5, <2>1
  <2>2. CASE q # r
    BY <1>4, <2>2 DEF PairsInv, PicturesHeld
  <2> QED BY <2>1, <2>2
<1>11. PairIsComplete'
  BY <1>1, <1>7 DEF PairsInv, PairIsComplete
<1> QED BY <1>6, <1>9, <1>10, <1>11 DEF PairsInv

LEMMA KeptFinite == ASSUME NEW f PROVE Kept(f) \subseteq Stamp /\ IsFiniteSet(Kept(f)) /\ Cardinality(Kept(f)) \in Nat
<1>1. IsFiniteSet(Stamp)
  BY BackupsAssumption, FS_Interval DEF Stamp
<1>2. Kept(f) \in SUBSET Stamp
  BY DEF Kept
<1> QED BY <1>1, <1>2, FS_Subset, FS_CardinalityType

LEMMA NextOfRun ==
    ASSUME NEW r, run[r].stamp \in Stamp
    PROVE  /\ NextFamily(r) \in RunState
           /\ NextFamily(r) = NoRun \/ (NextFamily(r).stamp = run[r].stamp /\ NextFamily(r).at = "prune")
<1>1. [at |-> "prune", stamp |-> run[r].stamp, family |-> "uploads"] \in Pruning
  BY DEF Pruning, ArchiveKind
<1>2. CASE run[r].family = "dumps"
  BY <1>1, <1>2 DEF NextFamily, RunState
<1>3. CASE run[r].family # "dumps"
  <2>1. NextFamily(r) = NoRun
    BY <1>3 DEF NextFamily
  <2> QED BY <2>1 DEF RunState
<1> QED BY <1>2, <1>3

LEMMA RunsOn ==
    ASSUME PairsInv, NEW r \in BackupRun,
           Archive(r) \/ SkipUploads(r) \/ Abort(r) \/ CountArchives(r) \/ ListSurplus(r) \/ RemoveArchive(r)
    PROVE  PairsInv'
<1>1. run[r] # NoRun
  BY DEF Archive, SkipUploads, Abort, CountArchives, ListSurplus, RemoveArchive, NoRun
<1>2. /\ run[r] \in Dumping \cup Archiving \cup Pruning \cup Counting \cup Removing
      /\ run[r].stamp \in Stamp
  BY <1>1 DEF PairsInv, BackupTypes, Dumping, Archiving, Pruning, Counting, Removing
<1>3. \A s \in Stamp : dumps[s] \in {dumps[s], NoArchive} /\ uploads[s] \in {uploads[s], NoArchive}
  OBVIOUS
<1>4. dumps \in [Stamp -> ArchiveRow \cup {NoArchive}] /\ uploads \in [Stamp -> ArchiveRow \cup {NoArchive}]
  BY DEF PairsInv, BackupTypes
<1>5. CASE Archive(r)
  <2> DEFINE x == [at |-> "archiving", stamp |-> run[r].stamp, list |-> FileKeys]
  <2>1. x \in RunState /\ x.stamp = run[r].stamp /\ x.at = "archiving" /\ x.list = FileKeys
    BY <1>2 DEF RunState, Archiving, FileKeys
  <2>2. run[r].at = "dumped" /\ run' = [run EXCEPT ![r] = x]
    BY <1>5 DEF Archive, PairsInv, BackupTypes
  <2>3. UNCHANGED <<dumps, uploads>> /\ UNCHANGED <<day, siteVars, stamps, removedDuring, overlapped, written>>
    BY <1>5 DEF Archive, archiveVars
  <2> HIDE DEF x
  <2> QED BY <1>1, <1>3, <1>4, <2>1, <2>2, <2>3, RunMoves
<1>6. CASE SkipUploads(r)
  <2> DEFINE x == [at |-> "prune", stamp |-> run[r].stamp, family |-> "dumps"]
  <2>1. x \in RunState /\ x.stamp = run[r].stamp /\ x.at = "prune"
    BY <1>2 DEF RunState, Pruning, ArchiveKind
  <2>2. run' = [run EXCEPT ![r] = x]
    BY <1>6 DEF SkipUploads, PairsInv, BackupTypes
  <2>3. UNCHANGED <<dumps, uploads>> /\ UNCHANGED <<day, siteVars, stamps, removedDuring, overlapped, written>>
    BY <1>6 DEF SkipUploads, archiveVars
  <2> HIDE DEF x
  <2> QED BY <1>1, <1>3, <1>4, <2>1, <2>2, <2>3, RunMoves
<1>7. CASE Abort(r)
  <2>1. NoRun \in RunState /\ run' = [run EXCEPT ![r] = NoRun]
    BY <1>7 DEF Abort, RunState
  <2>2. UNCHANGED <<dumps, uploads>> /\ UNCHANGED <<day, siteVars, stamps, removedDuring, overlapped, written>>
    BY <1>7 DEF Abort, archiveVars
  <2> QED BY <1>1, <1>3, <1>4, <2>1, <2>2, RunMoves
<1>8. CASE CountArchives(r)
  <2> DEFINE x == [at |-> "counted", stamp |-> run[r].stamp, family |-> run[r].family,
                   total |-> Cardinality(Kept(run[r].family))]
  <2>1. run[r].at = "prune" /\ run[r].family \in ArchiveKind
    BY <1>2, <1>8 DEF CountArchives, Dumping, Archiving, Pruning, Counting, Removing
  <2>2. Cardinality(Kept(run[r].family)) \in Nat
    BY KeptFinite
  <2>3. x \in RunState /\ x.stamp = run[r].stamp /\ x.at = "counted"
    BY <1>2, <2>1, <2>2 DEF RunState, Counting
  <2>4. run' = [run EXCEPT ![r] = x]
    BY <1>8 DEF CountArchives, PairsInv, BackupTypes
  <2>5. UNCHANGED <<dumps, uploads>> /\ UNCHANGED <<day, siteVars, stamps, removedDuring, overlapped, written>>
    BY <1>8 DEF CountArchives, archiveVars
  <2> HIDE DEF x
  <2> QED BY <1>1, <1>3, <1>4, <2>3, <2>4, <2>5, RunMoves
<1>9. CASE ListSurplus(r)
  <2> DEFINE old == Surplus(run[r].family, run[r].total)
             x == IF old = {} THEN NextFamily(r)
                  ELSE [at |-> "removing", stamp |-> run[r].stamp, family |-> run[r].family, list |-> old]
  <2>1. run[r].at = "counted" /\ run[r].family \in ArchiveKind
    BY <1>2, <1>9 DEF ListSurplus, Dumping, Archiving, Pruning, Counting, Removing
  <2>2. old \subseteq Stamp
    BY DEF Surplus, Oldest, Old, Kept
  <2>3. /\ NextFamily(r) \in RunState
        /\ NextFamily(r) = NoRun \/ (NextFamily(r).stamp = run[r].stamp /\ NextFamily(r).at = "prune")
    BY <1>2, NextOfRun
  <2>4. run' = [run EXCEPT ![r] = x]
    BY <1>9 DEF ListSurplus, PairsInv, BackupTypes
  <2> HIDE DEF old
  <2>5. x \in RunState /\ (x = NoRun \/ (x.stamp = run[r].stamp /\ x.at \in {"prune", "counted", "removing"}))
    <3>1. CASE old = {}
      BY <2>3, <3>1
    <3>2. CASE old # {}
      BY <1>2, <2>1, <2>2, <3>2 DEF RunState, Removing
    <3> QED BY <3>1, <3>2
  <2>6. UNCHANGED <<dumps, uploads>> /\ UNCHANGED <<day, siteVars, stamps, removedDuring, overlapped, written>>
    BY <1>9 DEF ListSurplus, archiveVars
  <2> HIDE DEF x
  <2> QED BY <1>1, <1>3, <1>4, <2>4, <2>5, <2>6, RunMoves
<1>10. CASE RemoveArchive(r)
  <2> DEFINE rest == run[r].list \ {Min(run[r].list)}
             x == IF rest = {} THEN NextFamily(r) ELSE [run[r] EXCEPT !.list = rest]
  <2>1. run[r].at = "removing" /\ run[r] \in Removing
    BY <1>2, <1>10 DEF RemoveArchive, Dumping, Archiving, Pruning, Counting, Removing
  <2>2. /\ NextFamily(r) \in RunState
        /\ NextFamily(r) = NoRun \/ (NextFamily(r).stamp = run[r].stamp /\ NextFamily(r).at = "prune")
    BY <1>2, NextOfRun
  <2>3. run' = [run EXCEPT ![r] = x]
    BY <1>10 DEF RemoveArchive, PairsInv, BackupTypes
  <2>4. rest \subseteq Stamp
    BY <2>1 DEF Removing
  <2>5. UNCHANGED <<day, siteVars, stamps, removedDuring, overlapped, written>>
    BY <1>10 DEF RemoveArchive
  <2>6. /\ dumps' \in [Stamp -> ArchiveRow \cup {NoArchive}] /\ uploads' \in [Stamp -> ArchiveRow \cup {NoArchive}]
        /\ \A s \in Stamp : dumps'[s] \in {dumps[s], NoArchive} /\ uploads'[s] \in {uploads[s], NoArchive}
    <3>1. PICK m : /\ dumps' = IF run[r].family = "dumps" THEN [dumps EXCEPT ![m] = NoArchive] ELSE dumps
                   /\ uploads' = IF run[r].family = "uploads" THEN [uploads EXCEPT ![m] = NoArchive] ELSE uploads
      BY <1>10 DEF RemoveArchive
    <3> QED BY <1>4, <3>1
  <2> HIDE DEF rest
  <2>7. x \in RunState /\ (x = NoRun \/ (x.stamp = run[r].stamp /\ x.at \in {"prune", "counted", "removing"}))
    <3>1. CASE rest = {}
      BY <2>2, <3>1
    <3>2. CASE rest # {}
      BY <1>2, <2>1, <2>4, <3>2 DEF RunState, Removing
    <3> QED BY <3>1, <3>2
  <2> HIDE DEF x
  <2> QED BY <1>1, <2>3, <2>5, <2>6, <2>7, RunMoves
<1> QED BY <1>5, <1>6, <1>7, <1>8, <1>9, <1>10

LEMMA DumpPairs == ASSUME PairsInv, NEW r \in BackupRun, Dump(r) PROVE PairsInv'
<1> DEFINE s == run[r].stamp
           row == [holds |-> RowKeys, day |-> day]
           x == [run[r] EXCEPT !.at = "dumped"]
<1>1. /\ run[r].at = "started" /\ run' = [run EXCEPT ![r] = x]
      /\ dumps' = [dumps EXCEPT ![s] = row]
      /\ written' = [written EXCEPT !["dumps"] = @ \cup {s}]
      /\ removedDuring' = [removedDuring EXCEPT ![s] = RowKeys \ FileKeys]
      /\ UNCHANGED <<day, picture, app, restore, uploads, stamps, overlapped>>
  BY DEF Dump, siteVars, PairsInv, BackupTypes
<1>2. run[r] \in Dumping /\ run[r] # NoRun /\ s \in Stamp
  BY <1>1 DEF PairsInv, BackupTypes, NoRun, Dumping, Archiving, Pruning, Counting, Removing
<1>3. x \in Dumping /\ x # NoRun /\ x.at = "dumped" /\ x.stamp = s
  BY <1>2 DEF Dumping, NoRun
<1>4. row \in ArchiveRow /\ row # NoArchive /\ row.holds = RowKeys /\ RowKeys \subseteq Picture
  BY BackupsAssumption DEF ArchiveRow, RowKeys, PairsInv, BackupTypes
<1> HIDE DEF x, row
<1>5. \A q \in BackupRun : run'[q] = IF q = r THEN x ELSE run[q]
  BY <1>1 DEF PairsInv, BackupTypes
<1>6. \A t \in Stamp : /\ dumps'[t] = IF t = s THEN row ELSE dumps[t]
                       /\ removedDuring'[t] = IF t = s THEN RowKeys \ FileKeys ELSE removedDuring[t]
  BY <1>1, <1>2 DEF PairsInv, BackupTypes
<1>7. written'["dumps"] = written["dumps"] \cup {s} /\ written'["uploads"] = written["uploads"]
  BY <1>1 DEF PairsInv, BackupTypes, ArchiveKind
<1>8. Kept("dumps")' = Kept("dumps") \cup {s} /\ Kept("uploads")' = Kept("uploads")
  BY <1>1, <1>2, <1>4, <1>6 DEF Kept, Archives
<1>9. /\ s <= stamps /\ s \notin written["dumps"] /\ s \notin written["uploads"]
      /\ \A q \in BackupRun : q # r /\ run[q] # NoRun => run[q].stamp # s
  BY <1>1, <1>2 DEF PairsInv, StampsFresh
<1>10. s \notin Kept("dumps") /\ s \notin Kept("uploads")
  BY <1>9 DEF PairsInv, StampsFresh, ArchiveKind
<1>11. BackupTypes'
  <2>1. run' \in [BackupRun -> RunState]
    BY <1>1, <1>3 DEF PairsInv, BackupTypes, RunState
  <2>2. dumps' \in [Stamp -> ArchiveRow \cup {NoArchive}] /\ removedDuring' \in [Stamp -> SUBSET Picture]
    BY <1>1, <1>4 DEF PairsInv, BackupTypes
  <2>3. written' \in [ArchiveKind -> SUBSET Stamp]
    BY <1>1, <1>2 DEF PairsInv, BackupTypes
  <2> QED BY <1>1, <2>1, <2>2, <2>3 DEF PairsInv, BackupTypes, RunState
<1>12. StampsFresh'
  <2>1. \A f \in ArchiveKind : Kept(f)' \subseteq written'[f] /\ written'[f] \subseteq 1..stamps'
    BY <1>1, <1>2, <1>7, <1>8, <1>9 DEF PairsInv, StampsFresh, ArchiveKind, Stamp
  <2>2. ASSUME NEW p \in BackupRun, run'[p] # NoRun
        PROVE  /\ run'[p].stamp <= stamps'
               /\ \A q \in BackupRun : q # p /\ run'[q] # NoRun => run'[q].stamp # run'[p].stamp
               /\ run'[p].at = "started" => run'[p].stamp \notin written'["dumps"]
               /\ run'[p].at \in {"started", "dumped", "archiving"} => run'[p].stamp \notin written'["uploads"]
    <3>1. CASE p = r
      BY <1>1, <1>3, <1>5, <1>7, <1>9, <3>1
    <3>2. CASE p # r
      BY <1>1, <1>2, <1>3, <1>5, <1>7, <1>9, <2>2, <3>2 DEF PairsInv, StampsFresh
    <3> QED BY <3>1, <3>2
  <2> QED BY <2>1, <2>2 DEF StampsFresh
<1>13. PicturesHeld'
  <2> SUFFICES ASSUME NEW q \in BackupRun, run'[q] # NoRun, run'[q].stamp \in Kept("dumps")'
               PROVE  LET missing == dumps'[run'[q].stamp].holds \ removedDuring'[run'[q].stamp] IN
                      /\ run'[q].at = "dumped" => \A k \in missing : picture[k] \in Lasting
                      /\ run'[q].at = "archiving" => missing \subseteq run'[q].list
    BY <1>1 DEF PicturesHeld
  <2>1. CASE q = r
    <3>1. \A k \in RowKeys \ (RowKeys \ FileKeys) : picture[k] \in Lasting
      BY <1>4 DEF RowKeys, FileKeys, Lasting
    <3> QED BY <1>2, <1>3, <1>4, <1>5, <1>6, <2>1, <3>1
  <2>2. CASE q # r
    <3>1. run'[q] = run[q] /\ run[q].stamp # s /\ run[q].stamp \in Kept("dumps")
      BY <1>5, <1>8, <1>9, <2>2
    <3>2. run[q].stamp \in Stamp
      BY <3>1 DEF Kept
    <3> QED BY <1>6, <3>1, <3>2 DEF PairsInv, PicturesHeld
  <2> QED BY <2>1, <2>2
<1>14. PairIsComplete'
  <2> SUFFICES ASSUME NEW t \in Kept("dumps")' \cap Kept("uploads")'
               PROVE  dumps'[t].holds \ uploads[t].holds \subseteq removedDuring'[t]
    BY <1>1 DEF PairIsComplete
  <2>1. t # s /\ t \in Kept("dumps") \cap Kept("uploads") /\ t \in Stamp
    BY <1>8, <1>10 DEF Kept
  <2> QED BY <1>6, <2>1 DEF PairsInv, PairIsComplete
<1> QED BY <1>11, <1>12, <1>13, <1>14 DEF PairsInv

LEMMA ArchivePairs == ASSUME PairsInv, NEW r \in BackupRun, ArchiveDone(r) PROVE PairsInv'
<1> DEFINE s == run[r].stamp
           row == [holds |-> run[r].list, day |-> day]
           x == [at |-> "prune", stamp |-> s, family |-> "dumps"]
<1>1. /\ run[r].at = "archiving" /\ run' = [run EXCEPT ![r] = x]
      /\ uploads' = [uploads EXCEPT ![s] = row]
      /\ written' = [written EXCEPT !["uploads"] = @ \cup {s}]
      /\ UNCHANGED <<day, picture, app, restore, dumps, stamps, removedDuring, overlapped>>
  BY DEF ArchiveDone, siteVars, PairsInv, BackupTypes
<1>2. run[r] \in Archiving /\ run[r] # NoRun /\ s \in Stamp /\ run[r].list \subseteq Picture
  BY <1>1 DEF PairsInv, BackupTypes, NoRun, Dumping, Archiving, Pruning, Counting, Removing
<1>3. x \in Pruning /\ x # NoRun /\ x.at = "prune" /\ x.stamp = s
  BY <1>2 DEF Pruning, NoRun, ArchiveKind
<1>4. row \in ArchiveRow /\ row # NoArchive /\ row.holds = run[r].list
  BY <1>2, BackupsAssumption DEF ArchiveRow, PairsInv, BackupTypes
<1> HIDE DEF x, row
<1>5. \A q \in BackupRun : run'[q] = IF q = r THEN x ELSE run[q]
  BY <1>1 DEF PairsInv, BackupTypes
<1>6. \A t \in Stamp : uploads'[t] = IF t = s THEN row ELSE uploads[t]
  BY <1>1, <1>2 DEF PairsInv, BackupTypes
<1>7. written'["uploads"] = written["uploads"] \cup {s} /\ written'["dumps"] = written["dumps"]
  BY <1>1 DEF PairsInv, BackupTypes, ArchiveKind
<1>8. Kept("uploads")' = Kept("uploads") \cup {s} /\ Kept("dumps")' = Kept("dumps")
  BY <1>1, <1>2, <1>4, <1>6 DEF Kept, Archives
<1>9. /\ s <= stamps
      /\ \A q \in BackupRun : q # r /\ run[q] # NoRun => run[q].stamp # s
  BY <1>1, <1>2 DEF PairsInv, StampsFresh
<1>11. BackupTypes'
  <2>1. run' \in [BackupRun -> RunState]
    BY <1>1, <1>3 DEF PairsInv, BackupTypes, RunState
  <2>2. uploads' \in [Stamp -> ArchiveRow \cup {NoArchive}]
    BY <1>1, <1>4 DEF PairsInv, BackupTypes
  <2>3. written' \in [ArchiveKind -> SUBSET Stamp]
    BY <1>1, <1>2 DEF PairsInv, BackupTypes
  <2> QED BY <1>1, <2>1, <2>2, <2>3 DEF PairsInv, BackupTypes, RunState
<1>12. StampsFresh'
  <2>1. \A f \in ArchiveKind : Kept(f)' \subseteq written'[f] /\ written'[f] \subseteq 1..stamps'
    BY <1>1, <1>2, <1>7, <1>8, <1>9 DEF PairsInv, StampsFresh, ArchiveKind, Stamp
  <2>2. ASSUME NEW p \in BackupRun, run'[p] # NoRun
        PROVE  /\ run'[p].stamp <= stamps'
               /\ \A q \in BackupRun : q # p /\ run'[q] # NoRun => run'[q].stamp # run'[p].stamp
               /\ run'[p].at = "started" => run'[p].stamp \notin written'["dumps"]
               /\ run'[p].at \in {"started", "dumped", "archiving"} => run'[p].stamp \notin written'["uploads"]
    <3>1. CASE p = r
      BY <1>1, <1>3, <1>5, <1>7, <1>9, <3>1
    <3>2. CASE p # r
      BY <1>1, <1>2, <1>3, <1>5, <1>7, <1>9, <2>2, <3>2 DEF PairsInv, StampsFresh
    <3> QED BY <3>1, <3>2
  <2> QED BY <2>1, <2>2 DEF StampsFresh
<1>13. PicturesHeld'
  <2> SUFFICES ASSUME NEW q \in BackupRun, run'[q] # NoRun, run'[q].stamp \in Kept("dumps")
               PROVE  LET missing == dumps[run'[q].stamp].holds \ removedDuring[run'[q].stamp] IN
                      /\ run'[q].at = "dumped" => \A k \in missing : picture[k] \in Lasting
                      /\ run'[q].at = "archiving" => missing \subseteq run'[q].list
    BY <1>1, <1>8 DEF PicturesHeld
  <2>1. CASE q = r
    BY <1>3, <1>5, <2>1
  <2>2. CASE q # r
    BY <1>5, <2>2 DEF PairsInv, PicturesHeld
  <2> QED BY <2>1, <2>2
<1>14. PairIsComplete'
  <2> SUFFICES ASSUME NEW t \in Kept("dumps") \cap Kept("uploads")'
               PROVE  dumps[t].holds \ uploads'[t].holds \subseteq removedDuring[t]
    BY <1>1, <1>8 DEF PairIsComplete
  <2>1. t \in Stamp
    BY DEF Kept
  <2>2. CASE t = s
    BY <1>1, <1>2, <1>4, <1>6, <2>1, <2>2 DEF PairsInv, PicturesHeld
  <2>3. CASE t # s
    BY <1>6, <1>8, <2>1, <2>3 DEF PairsInv, PairIsComplete
  <2> QED BY <2>2, <2>3
<1> QED BY <1>11, <1>12, <1>13, <1>14 DEF PairsInv

LEMMA PairsStep == PairsInv /\ [BackupsNext]_backupVars => PairsInv'
<1> SUFFICES ASSUME PairsInv, [BackupsNext]_backupVars PROVE PairsInv'
  OBVIOUS
<1>1. CASE UNCHANGED backupVars
  BY <1>1 DEF backupVars, PairsInv, BackupTypes, StampsFresh, PicturesHeld, PairIsComplete, Kept, Archives
<1>2. CASE BackupsNext
  BY <1>2, PhotoMoves, RestoreMoves, RunsOn, StartBackupPairs, DumpPairs, ArchivePairs DEF BackupsNext, RunStep
<1> QED BY <1>1, <1>2

-----------------------------------------------------------------------------
(* Runs one after the other.                                               *)

Alone ==
    \A r \in BackupRun : run[r] # NoRun =>
        run[r].stamp = stamps /\ \A q \in BackupRun : q # r => run[q] = NoRun

\* The archives are dated in the order of their stamps, the photos after the database.
Dated ==
    /\ \A f \in ArchiveKind : \A s \in Kept(f) :
          /\ Archives(f)[s].day <= day
          /\ \A t \in Kept(f) : s < t => Archives(f)[s].day <= Archives(f)[t].day
    /\ \A s \in Kept("dumps") \cap Kept("uploads") : dumps[s].day <= uploads[s].day

\* Of the archives written, those kept are the newest...
Newest == \A f \in ArchiveKind : \A s \in Kept(f), t \in written[f] : s < t => t \in Kept(f)

\* ... all of them, or enough.
Enough == \A f \in ArchiveKind : Cardinality(Kept(f)) >= MinKept \/ Kept(f) = written[f]

Aligned ==
    /\ written["uploads"] \subseteq written["dumps"]
    /\ Kept("dumps") \cap written["uploads"] \subseteq Kept("uploads")

DumpsPruned == Old("dumps") = {} \/ Cardinality(Kept("dumps")) <= MinKept

\* What is about to be removed: the oldest, no more than the surplus; of the photos, nothing
\* whose dump is kept.
Removable(f, list) ==
    /\ list # {} /\ list \subseteq Old(f)
    /\ \A x \in list, t \in Kept(f) : t < x => t \in list
    /\ Cardinality(Kept(f)) >= MinKept + Cardinality(list)
    /\ f = "dumps" => Old(f) = list \/ Cardinality(Kept(f)) <= MinKept + Cardinality(list)
    /\ f = "uploads" => list \cap Kept("dumps") = {}

InOrder(state) ==
    /\ state.at \in {"dumped", "archiving"} => state.stamp \in written["dumps"]
    /\ state.at \in {"prune", "counted"} => state.family = "dumps" \/ DumpsPruned
    /\ state.at = "counted" => state.total = Cardinality(Kept(state.family))
    /\ state.at = "removing" => Removable(state.family, state.list)

RunsInOrder == \A r \in BackupRun : InOrder(run[r])

RotationInv == ~overlapped => Alone /\ Dated /\ Newest /\ Enough /\ Aligned /\ RunsInOrder

\* A finite set of numbers that is not empty has a least element, and a greatest one.
LEMMA LeastOf ==
    ASSUME NEW S, S \subseteq Nat, IsFiniteSet(S), S # {}
    PROVE  \E x \in S : \A y \in S : x <= y
<1> DEFINE below(x) == {t \in S : t < x}
           T == {below(x) : x \in S}
<1>1. T \subseteq FiniteSubsetsOf(S)
  <2>1. \A x \in S : below(x) \in SUBSET S
    OBVIOUS
  <2> QED BY <2>1, FS_FiniteSubsetsOfFinite
<1>2. T # {}
  OBVIOUS
<1>3. PICK X \in T : \A Y \in T : ~ (<<Y, X>> \in StrictSubsetOrdering(S))
  <2> HIDE DEF T
  <2> QED BY <1>1, <1>2, FS_StrictSubsetOrderingWellFounded, WFMin
<1>4. PICK x \in S : X = below(x)
  BY <1>3
<1>5. ASSUME NEW y \in S, ~(x <= y) PROVE FALSE
  <2>1. y \in Nat /\ x \in Nat /\ y < x
    BY <1>5
  <2>2. below(y) \subseteq below(x) /\ y \in below(x) /\ y \notin below(y)
    <3>1. \A t \in S : t < y => t < x
      <4>1. \A t \in Nat : t < y => t < x
        BY <2>1
      <4> QED BY <4>1
    <3>2. ~(y < y)
      BY <2>1
    <3> QED BY <2>1, <3>1, <3>2
  <2>3. below(y) \in T /\ below(y) \in SUBSET S /\ below(x) \in SUBSET S
    OBVIOUS
  <2> HIDE DEF below, T
  <2> QED BY <1>3, <1>4, <2>2, <2>3 DEF StrictSubsetOrdering
<1> QED BY <1>5

LEMMA GreatestOf ==
    ASSUME NEW S, S \subseteq Nat, IsFiniteSet(S), S # {}
    PROVE  \E x \in S : \A y \in S : y <= x
<1> DEFINE above(x) == {t \in S : x < t}
           T == {above(x) : x \in S}
<1>1. T \subseteq FiniteSubsetsOf(S)
  <2>1. \A x \in S : above(x) \in SUBSET S
    OBVIOUS
  <2> QED BY <2>1, FS_FiniteSubsetsOfFinite
<1>2. T # {}
  OBVIOUS
<1>3. PICK X \in T : \A Y \in T : ~ (<<Y, X>> \in StrictSubsetOrdering(S))
  <2> HIDE DEF T
  <2> QED BY <1>1, <1>2, FS_StrictSubsetOrderingWellFounded, WFMin
<1>4. PICK x \in S : X = above(x)
  BY <1>3
<1>5. ASSUME NEW y \in S, ~(y <= x) PROVE FALSE
  <2>1. y \in Nat /\ x \in Nat /\ x < y
    BY <1>5
  <2>2. above(y) \subseteq above(x) /\ y \in above(x) /\ y \notin above(y)
    <3>1. \A t \in S : y < t => x < t
      <4>1. \A t \in Nat : y < t => x < t
        BY <2>1
      <4> QED BY <4>1
    <3>2. ~(y < y)
      BY <2>1
    <3> QED BY <2>1, <3>1, <3>2
  <2>3. above(y) \in T /\ above(y) \in SUBSET S /\ above(x) \in SUBSET S
    OBVIOUS
  <2> HIDE DEF above, T
  <2> QED BY <1>3, <1>4, <2>2, <2>3 DEF StrictSubsetOrdering
<1> QED BY <1>5

LEMMA MinOf ==
    ASSUME NEW S, S \subseteq Nat, IsFiniteSet(S), S # {}
    PROVE  Min(S) \in S /\ \A y \in S : Min(S) <= y
BY LeastOf DEF Min

\* The n oldest are at most n, and n unless there are no more.
LEMMA OldestSize ==
    ASSUME NEW S, S \subseteq Nat, IsFiniteSet(S), NEW n \in Nat
    PROVE  /\ Oldest(S, n) \subseteq S /\ IsFiniteSet(Oldest(S, n)) /\ Cardinality(Oldest(S, n)) \in Nat
           /\ Cardinality(Oldest(S, n)) <= n
           /\ Oldest(S, n) = S \/ Cardinality(Oldest(S, n)) >= n
<1> DEFINE O == Oldest(S, n)
           below(x) == {t \in S : t < x}
<1>1. O \in SUBSET S /\ IsFiniteSet(O) /\ Cardinality(O) \in Nat
  <2>1. O \in SUBSET S
    BY DEF Oldest
  <2> HIDE DEF O
  <2> QED BY <2>1, FS_Subset, FS_CardinalityType
<1>2. \A x : below(x) \in SUBSET S
  OBVIOUS
<1>3. \A x \in S : x \in O <=> Cardinality(below(x)) < n
  BY DEF Oldest
<1>4. \A x : IsFiniteSet(below(x)) /\ Cardinality(below(x)) \in Nat
  <2> HIDE DEF below
  <2> QED BY <1>2, FS_Subset, FS_CardinalityType
<1>5. Cardinality(O) <= n
  <2>1. CASE O = {}
    BY <2>1, FS_EmptySet
  <2>2. CASE O # {}
    <3>1. PICK x \in O : \A y \in O : y <= x
      <4> HIDE DEF O
      <4> QED BY <1>1, <2>2, GreatestOf
    <3>2. O \in SUBSET (below(x) \cup {x})
      <4> HIDE DEF O
      <4> QED BY <1>1, <3>1
    <3>3. Cardinality(below(x)) < n
      BY <1>1, <1>3, <3>1
    <3>4. x \notin below(x)
      <4>1. x \in Nat
        BY <1>1, <3>1
      <4>2. ~(x < x)
        BY <4>1
      <4> QED BY <4>2
    <3> HIDE DEF O, below
    <3>5. IsFiniteSet(below(x) \cup {x}) /\ Cardinality(below(x) \cup {x}) = Cardinality(below(x)) + 1
      BY <1>4, <3>4, FS_AddElement
    <3>6. Cardinality(O) <= Cardinality(below(x) \cup {x})
      BY <3>2, <3>5, FS_Subset
    <3> QED BY <1>1, <1>4, <3>3, <3>5, <3>6
  <2> QED BY <2>1, <2>2
<1>6. O = S \/ Cardinality(O) >= n
  <2> SUFFICES ASSUME O # S PROVE Cardinality(O) >= n
    OBVIOUS
  <2>1. PICK x \in S \ O : \A y \in S \ O : x <= y
    <3>1. S \ O \in SUBSET S /\ S \ O # {}
      BY <1>1
    <3>2. IsFiniteSet(S \ O) /\ S \ O \subseteq Nat
      BY <3>1, FS_Subset
    <3> HIDE DEF O
    <3> QED BY <3>1, <3>2, LeastOf
  <2>2. below(x) \in SUBSET O
    <3>1. ASSUME NEW t \in S, t < x, t \notin O PROVE FALSE
      <4>1. t \in Nat /\ x \in Nat /\ x <= t
        BY <2>1, <3>1
      <4> QED BY <3>1, <4>1
    <3> HIDE DEF O
    <3> QED BY <3>1
  <2>3. ~(Cardinality(below(x)) < n)
    BY <1>3, <2>1
  <2> HIDE DEF O, below
  <2>4. Cardinality(below(x)) <= Cardinality(O)
    BY <1>1, <2>2, FS_Subset
  <2> QED BY <1>1, <1>4, <2>3, <2>4
<1> QED BY <1>1, <1>5, <1>6

LEMMA KeptRows ==
    ASSUME BackupTypes, NEW f \in ArchiveKind
    PROVE  /\ Kept(f) \subseteq Stamp /\ Kept(f) \subseteq Nat
           /\ \A s \in Kept(f) : Archives(f)[s].day \in Nat
<1>1. Kept(f) \subseteq Stamp /\ Stamp \subseteq Nat
  BY BackupsAssumption DEF Kept, Stamp
<1>2. CASE f = "dumps"
  BY <1>1, <1>2 DEF Kept, Archives, BackupTypes, ArchiveRow
<1>3. CASE f = "uploads"
  BY <1>1, <1>3 DEF Kept, Archives, BackupTypes, ArchiveRow
<1> QED BY <1>2, <1>3 DEF ArchiveKind

LEMMA OldFirst ==
    ASSUME BackupTypes, Dated, NEW f \in ArchiveKind
    PROVE  /\ Old(f) \subseteq Kept(f) /\ Old(f) \subseteq Nat /\ IsFiniteSet(Old(f))
           /\ \A x \in Old(f), t \in Kept(f) : t < x => t \in Old(f)
<1>1. Old(f) \in SUBSET Kept(f)
  BY DEF Old
<1>2. Old(f) \subseteq Nat /\ IsFiniteSet(Old(f))
  BY <1>1, KeptRows, KeptFinite, FS_Subset
<1>3. ASSUME NEW x \in Old(f), NEW t \in Kept(f), t < x PROVE t \in Old(f)
  <2> DEFINE a == Archives(f)[t].day
             b == Archives(f)[x].day
  <2>1. a \in Nat /\ b \in Nat /\ day \in Nat /\ Retention \in Nat
    BY <1>1, KeptRows, BackupsAssumption DEF BackupTypes
  <2>2. a <= b
    BY <1>1, <1>3 DEF Dated
  <2>3. day - b > Retention
    BY DEF Old
  <2> HIDE DEF a, b
  <2>4. day - a > Retention
    BY <2>1, <2>2, <2>3
  <2> QED BY <2>4 DEF Old, a
<1> QED BY <1>1, <1>2, <1>3

\* A photo archive whose dump is kept is not of the surplus: there are enough dumps after it.
LEMMA SurplusSpares ==
    ASSUME BackupTypes, StampsFresh, Dated, Newest, Aligned, DumpsPruned, NEW n \in Nat,
           Cardinality(Kept("uploads")) = MinKept + n, NEW x \in Oldest(Old("uploads"), n)
    PROVE  x \notin Kept("dumps")
<1> SUFFICES ASSUME x \in Kept("dumps") PROVE FALSE
  OBVIOUS
<1> DEFINE U == Kept("uploads")
           A == {t \in U : t < x}
           B == U \ A
<1>1. "dumps" \in ArchiveKind /\ "uploads" \in ArchiveKind
  BY DEF ArchiveKind
<1>2. x \in Old("uploads") /\ Cardinality({t \in Old("uploads") : t < x}) < n
  BY DEF Oldest
<1>3. x \in U /\ x \in Nat /\ U \subseteq Nat
  BY <1>1, <1>2, OldFirst, KeptRows
<1>4. x \in Old("dumps")
  <2>1. dumps[x].day \in Nat /\ uploads[x].day \in Nat /\ day \in Nat /\ Retention \in Nat
    BY <1>1, <1>3, KeptRows, BackupsAssumption DEF Archives, BackupTypes
  <2>2. dumps[x].day <= uploads[x].day
    BY <1>3 DEF Dated
  <2>3. day - uploads[x].day > Retention
    BY <1>2 DEF Old, Archives
  <2>4. day - dumps[x].day > Retention
    BY <2>1, <2>2, <2>3
  <2> QED BY <2>4 DEF Old, Archives
<1>5. Cardinality(Kept("dumps")) <= MinKept /\ Cardinality(Kept("dumps")) \in Nat /\ MinKept \in Nat
  BY <1>4, KeptFinite, BackupsAssumption DEF DumpsPruned
<1>6. B \in SUBSET Kept("dumps")
  <2> SUFFICES ASSUME NEW t \in U, ~(t < x) PROVE t \in Kept("dumps")
    OBVIOUS
  <2>1. t \in Nat /\ (t = x \/ x < t)
    <3>1. t \in Nat
      BY <1>3
    <3> QED BY <1>3, <3>1
  <2>2. t \in written["dumps"]
    BY <1>1 DEF StampsFresh, Aligned
  <2> QED BY <1>1, <2>1, <2>2 DEF Newest
<1>7. A = {t \in Old("uploads") : t < x}
  BY <1>1, <1>2, OldFirst
<1>8. IsFiniteSet(U) /\ Cardinality(U) \in Nat /\ U \cap A = A
  BY KeptFinite
<1> HIDE DEF A, B
<1>9. Cardinality(A) < n
  BY <1>2, <1>7
<1> HIDE DEF U
<1>10. A \in SUBSET U
  BY DEF A
<1>11. IsFiniteSet(A) /\ Cardinality(A) \in Nat
  BY <1>8, <1>10, FS_Subset, FS_CardinalityType
<1>12. Cardinality(B) = Cardinality(U) - Cardinality(A)
  <2>1. IsFiniteSet(U)
    BY <1>8
  <2>2. Cardinality(U \ A) = Cardinality(U) - Cardinality(U \cap A)
    BY <2>1, FS_Difference
  <2>3. U \cap A = A /\ B = U \ A
    BY <1>8 DEF B
  <2> QED BY <2>2, <2>3
<1>13. Cardinality(B) <= Cardinality(Kept("dumps"))
  BY <1>6, KeptFinite, FS_Subset
<1>14. Cardinality(U) = MinKept + n
  BY DEF U
<1> QED BY <1>5, <1>8, <1>9, <1>11, <1>12, <1>13, <1>14

\* What ListSurplus finds may be removed; finding nothing of the dumps, they are pruned.
LEMMA SurplusOK ==
    ASSUME BackupTypes, StampsFresh, Dated, Newest, Aligned, NEW f \in ArchiveKind, f = "dumps" \/ DumpsPruned,
           NEW total, total = Cardinality(Kept(f)), NEW list, list = Surplus(f, total)
    PROVE  /\ list = {} /\ f = "dumps" => DumpsPruned
           /\ list # {} => Removable(f, list)
<1>1. total \in Nat /\ MinKept \in Nat /\ IsFiniteSet(Kept(f))
  BY KeptFinite, BackupsAssumption
<1>2. CASE total <= MinKept
  <2>1. list = {}
    BY <1>1, <1>2 DEF Surplus
  <2> QED BY <1>2, <2>1 DEF DumpsPruned
<1>3. CASE total > MinKept
  <2>1. PICK n \in Nat : n = total - MinKept /\ n > 0 /\ total = MinKept + n
    <3>1. total - MinKept \in Nat /\ total - MinKept > 0 /\ total = MinKept + (total - MinKept)
      BY <1>1, <1>3
    <3> QED BY <3>1
  <2>2. list = Oldest(Old(f), n)
    BY <1>3, <2>1 DEF Surplus
  <2>3. /\ list \subseteq Old(f) /\ IsFiniteSet(list) /\ Cardinality(list) \in Nat
        /\ Cardinality(list) <= n /\ (list = Old(f) \/ Cardinality(list) >= n)
    BY <2>2, OldFirst, OldestSize
  <2>4. CASE list = {}
    <3>1. Cardinality(list) = 0
      BY <2>4, FS_EmptySet
    <3>2. Old(f) = {}
      BY <2>1, <2>3, <2>4, <3>1
    <3> QED BY <2>4, <3>2 DEF DumpsPruned
  <2>5. CASE list # {}
    <3>1. ASSUME NEW x \in list, NEW t \in Kept(f), t < x PROVE t \in list
      <4> DEFINE S == Old(f)
                 X == {u \in S : u < x}
                 T == {u \in S : u < t}
      <4>1. x \in S /\ t \in S /\ S \subseteq Nat /\ IsFiniteSet(S)
        BY <2>3, <3>1, OldFirst
      <4>2. Cardinality(X) < n
        BY <2>2 DEF Oldest
      <4>3. T \in SUBSET X
        <5>1. \A u \in S : u < t => u < x
          <6>1. x \in Nat /\ t \in Nat
            BY <4>1
          <6>2. \A u \in Nat : u < t => u < x
            BY <3>1, <6>1
          <6> QED BY <4>1, <6>2
        <5> QED BY <5>1
      <4>4. X \in SUBSET S
        OBVIOUS
      <4>5. T = {u \in Old(f) : u < t}
        OBVIOUS
      <4> HIDE DEF S, X, T
      <4>6. IsFiniteSet(X) /\ Cardinality(X) \in Nat
        BY <4>1, <4>4, FS_Subset, FS_CardinalityType
      <4>7. Cardinality(T) <= Cardinality(X) /\ Cardinality(T) \in Nat
        BY <4>3, <4>6, FS_Subset, FS_CardinalityType
      <4>8. Cardinality(T) < n
        BY <4>2, <4>6, <4>7
      <4> QED BY <2>2, <4>1, <4>5, <4>8 DEF Oldest, S
    <3>2. Cardinality(Kept(f)) >= MinKept + Cardinality(list)
      BY <1>1, <2>1, <2>3
    <3>3. Old(f) = list \/ Cardinality(Kept(f)) <= MinKept + Cardinality(list)
      BY <1>1, <2>1, <2>3
    <3>4. f = "uploads" => list \cap Kept("dumps") = {}
      BY <2>1, <2>2, SurplusSpares
    <3> QED BY <2>3, <2>5, <3>1, <3>2, <3>3, <3>4 DEF Removable
  <2> QED BY <2>4, <2>5
<1> QED BY <1>1, <1>2, <1>3

\* The oldest of the surplus is removed: of the archives that are left all still holds.
LEMMA RemovalKeeps ==
    ASSUME BackupTypes, StampsFresh, Dated, Newest, Enough, Aligned, NEW f \in ArchiveKind,
           NEW list, Removable(f, list), NEW m, m = Min(list), NEW rest, rest = list \ {m},
           \A g \in ArchiveKind : Kept(g)' = IF g = f THEN Kept(g) \ {m} ELSE Kept(g),
           \A g \in ArchiveKind : \A s \in Kept(g)' : Archives(g)'[s] = Archives(g)[s],
           UNCHANGED <<day, written>>
    PROVE  /\ Dated' /\ Newest' /\ Enough' /\ Aligned'
           /\ rest = {} /\ f = "dumps" => DumpsPruned'
           /\ rest # {} => Removable(f, rest)'
<1>1. "dumps" \in ArchiveKind /\ "uploads" \in ArchiveKind
  BY DEF ArchiveKind
<1>2. /\ list # {} /\ list \subseteq Old(f)
      /\ \A x \in list, t \in Kept(f) : t < x => t \in list
      /\ Cardinality(Kept(f)) >= MinKept + Cardinality(list)
      /\ f = "dumps" => Old(f) = list \/ Cardinality(Kept(f)) <= MinKept + Cardinality(list)
      /\ f = "uploads" => list \cap Kept("dumps") = {}
  BY DEF Removable
<1>3. /\ Old(f) \subseteq Kept(f) /\ Kept(f) \subseteq Nat /\ IsFiniteSet(Kept(f))
      /\ IsFiniteSet(Old(f)) /\ Cardinality(Kept(f)) \in Nat /\ MinKept \in Nat
  BY OldFirst, KeptRows, KeptFinite, BackupsAssumption
<1>4. list \in SUBSET Kept(f) /\ list \subseteq Nat
  BY <1>2, <1>3
<1>5. IsFiniteSet(list) /\ Cardinality(list) \in Nat
  BY <1>3, <1>4, FS_Subset, FS_CardinalityType
<1>6. m \in list /\ \A y \in list : m <= y
  BY <1>2, <1>4, <1>5, MinOf
<1>7. m \in Kept(f) /\ m \in Nat /\ \A t \in Kept(f) : ~(t < m)
  <2>1. m \in Kept(f) /\ m \in Nat
    BY <1>4, <1>6
  <2>2. ASSUME NEW t \in Kept(f), t < m PROVE FALSE
    <3>1. t \in list /\ t \in Nat
      BY <1>2, <1>3, <1>6, <2>2
    <3>2. m <= t
      BY <1>6, <3>1
    <3> QED BY <2>1, <2>2, <3>1, <3>2
  <2> QED BY <2>1, <2>2
<1>8. Kept(f)' = Kept(f) \ {m} /\ \A g \in ArchiveKind : Kept(g)' \subseteq Kept(g)
  OBVIOUS
<1>9. Cardinality(Kept(f)') = Cardinality(Kept(f)) - 1 /\ Cardinality(rest) = Cardinality(list) - 1
  BY <1>3, <1>5, <1>6, <1>7, <1>8, FS_RemoveElement
<1>10. IsFiniteSet(rest) /\ Cardinality(rest) \in Nat
  BY <1>5, FS_RemoveElement, FS_CardinalityType
<1>11. Cardinality(Kept(f)') >= MinKept + Cardinality(rest)
  <2> DEFINE a == Cardinality(Kept(f))
             b == Cardinality(list)
  <2>1. a \in Nat /\ b \in Nat /\ a >= MinKept + b
    BY <1>2, <1>3, <1>5
  <2>2. Cardinality(Kept(f)') = a - 1 /\ Cardinality(rest) = b - 1
    BY <1>9
  <2> HIDE DEF a, b
  <2> QED BY <1>3, <2>1, <2>2
<1>12. Dated'
  <2>1. ASSUME NEW g \in ArchiveKind, NEW s \in Kept(g)'
        PROVE  /\ Archives(g)'[s].day <= day'
               /\ \A t \in Kept(g)' : s < t => Archives(g)'[s].day <= Archives(g)'[t].day
    <3>1. s \in Kept(g) /\ Archives(g)'[s] = Archives(g)[s]
      BY <1>8, <2>1
    <3>2. \A t \in Kept(g)' : t \in Kept(g) /\ Archives(g)'[t] = Archives(g)[t]
      BY <1>8, <2>1
    <3> QED BY <3>1, <3>2 DEF Dated
  <2>2. ASSUME NEW s \in Kept("dumps")' \cap Kept("uploads")'
        PROVE  dumps'[s].day <= uploads'[s].day
    <3>1. dumps'[s] = dumps[s] /\ uploads'[s] = uploads[s]
      BY <1>1, <2>2 DEF Archives
    <3> QED BY <1>1, <1>8, <2>2, <3>1 DEF Dated
  <2> QED BY <2>1, <2>2 DEF Dated
<1>13. Newest'
  <2> SUFFICES ASSUME NEW g \in ArchiveKind, NEW s \in Kept(g)', NEW t \in written[g], s < t
               PROVE  t \in Kept(g)'
    BY DEF Newest
  <2>1. t \in Kept(g)
    BY <1>8 DEF Newest
  <2>2. CASE g = f
    <3>1. t # m
      BY <1>7, <1>8, <2>2
    <3> QED BY <1>8, <2>1, <2>2, <3>1
  <2> QED BY <2>1, <2>2
<1>14. Enough'
  <2> SUFFICES ASSUME NEW g \in ArchiveKind
               PROVE  Cardinality(Kept(g)') >= MinKept \/ Kept(g)' = written[g]
    BY DEF Enough
  <2>1. CASE g = f
    <3>1. Cardinality(Kept(f)') >= MinKept
      <4> DEFINE a == Cardinality(Kept(f)')
                 b == Cardinality(rest)
      <4>1. a \in Int
        BY <1>3, <1>9
      <4>2. b \in Nat /\ a >= MinKept + b
        BY <1>10, <1>11
      <4> HIDE DEF a, b
      <4>3. a >= MinKept
        BY <1>3, <4>1, <4>2
      <4> QED BY <4>3 DEF a
    <3> QED BY <2>1, <3>1
  <2>2. CASE g # f
    <3>1. Kept(g)' = Kept(g)
      BY <2>2
    <3> QED BY <3>1 DEF Enough
  <2> QED BY <2>1, <2>2
<1>15. Aligned'
  <2>1. Kept("dumps")' \cap written["uploads"] \subseteq Kept("uploads")'
    <3>1. CASE f = "dumps"
      BY <1>1, <3>1 DEF Aligned
    <3>2. CASE f = "uploads"
      <4>1. m \notin Kept("dumps")
        BY <1>2, <1>6, <3>2
      <4> QED BY <1>1, <1>8, <3>2, <4>1 DEF Aligned
    <3> QED BY <3>1, <3>2 DEF ArchiveKind
  <2> QED BY <2>1 DEF Aligned
<1>16. Old(f)' = Old(f) \ {m}
  BY <1>8 DEF Old
<1>17. f = "dumps" => Old(f)' = rest \/ Cardinality(Kept(f)') <= MinKept + Cardinality(rest)
  <2> SUFFICES ASSUME f = "dumps", ~(Old(f)' = rest) PROVE Cardinality(Kept(f)') <= MinKept + Cardinality(rest)
    OBVIOUS
  <2> DEFINE a == Cardinality(Kept(f))
             b == Cardinality(list)
  <2>1. a \in Nat /\ b \in Nat /\ a <= MinKept + b
    BY <1>2, <1>3, <1>5, <1>16
  <2>2. Cardinality(Kept(f)') = a - 1 /\ Cardinality(rest) = b - 1
    BY <1>9
  <2> HIDE DEF a, b
  <2> QED BY <1>3, <2>1, <2>2
<1>18. rest = {} /\ f = "dumps" => DumpsPruned'
  <2> SUFFICES ASSUME rest = {}, f = "dumps" PROVE DumpsPruned'
    OBVIOUS
  <2>1. Cardinality(rest) = 0
    BY FS_EmptySet
  <2>2. Old("dumps")' = {} \/ Cardinality(Kept("dumps")') <= MinKept + 0
    BY <1>17, <2>1
  <2> QED BY <1>3, <2>2 DEF DumpsPruned
<1>19. rest # {} => Removable(f, rest)'
  <2> SUFFICES ASSUME rest # {} PROVE Removable(f, rest)'
    OBVIOUS
  <2>1. rest \subseteq Old(f)'
    BY <1>2, <1>16
  <2>2. \A x \in rest, t \in Kept(f)' : t < x => t \in rest
    BY <1>2, <1>8
  <2>3. f = "uploads" => rest \cap Kept("dumps")' = {}
    BY <1>1, <1>2, <1>8
  <2> QED BY <1>11, <1>17, <2>1, <2>2, <2>3 DEF Removable
<1> QED BY <1>12, <1>13, <1>14, <1>15, <1>18, <1>19

Archived == Dated /\ Newest /\ Enough /\ Aligned

LEMMA ArchivedStays ==
    ASSUME UNCHANGED <<day, dumps, uploads, written>>
    PROVE  /\ Archived => Archived'
           /\ \A state : InOrder(state) => InOrder(state)'
           /\ DumpsPruned => DumpsPruned'
           /\ \A f, list : Removable(f, list) => Removable(f, list)'
<1>1. \A f : Archives(f)' = Archives(f) /\ Kept(f)' = Kept(f) /\ Old(f)' = Old(f)
  BY DEF Archives, Kept, Old
<1>2. Dated => Dated'
  BY <1>1 DEF Dated
<1>3. Newest => Newest'
  BY <1>1 DEF Newest
<1>4. Enough => Enough'
  BY <1>1 DEF Enough
<1>5. Aligned => Aligned'
  BY <1>1 DEF Aligned
<1>6. DumpsPruned => DumpsPruned'
  BY <1>1 DEF DumpsPruned
<1>7. \A f, list : Removable(f, list) => Removable(f, list)'
  BY <1>1 DEF Removable
<1>8. ASSUME NEW state, InOrder(state) PROVE InOrder(state)'
  BY <1>1, <1>6, <1>7, <1>8 DEF InOrder
<1> QED BY <1>2, <1>3, <1>4, <1>5, <1>6, <1>7, <1>8 DEF Archived

\* One run goes on, the others do nothing.
LEMMA OneGoesOn ==
    ASSUME run \in [BackupRun -> RunState], NEW r \in BackupRun, \A q \in BackupRun : q # r => run[q] = NoRun,
           NEW x, run' = [run EXCEPT ![r] = x], x # NoRun => x.stamp = stamps', InOrder(x)'
    PROVE  Alone' /\ RunsInOrder'
<1>1. \A q \in BackupRun : run'[q] = IF q = r THEN x ELSE NoRun
  OBVIOUS
<1>2. Alone'
  BY <1>1 DEF Alone
<1>3. InOrder(NoRun)'
  BY DEF InOrder, NoRun
<1>4. RunsInOrder'
  BY <1>1, <1>3 DEF RunsInOrder
<1> QED BY <1>2, <1>4

LEMMA RotationStart ==
    ASSUME PairsInv, RotationInv, NEW r \in BackupRun, StartBackup(r) PROVE RotationInv'
<1> SUFFICES ASSUME ~overlapped' PROVE Alone' /\ Archived' /\ RunsInOrder'
  BY DEF RotationInv, Archived
<1>1. PICK x : x = [at |-> "started", stamp |-> stamps + 1]
  OBVIOUS
<1>2. /\ overlapped' = (overlapped \/ Active # {}) /\ run' = [run EXCEPT ![r] = x] /\ stamps' = stamps + 1
      /\ UNCHANGED <<day, dumps, uploads, written>>
  BY <1>1 DEF StartBackup, archiveVars
<1>3. ~overlapped /\ Active = {}
  BY <1>2 DEF PairsInv, BackupTypes
<1>4. \A q \in BackupRun : run[q] = NoRun
  BY <1>3 DEF Active
<1>5. Archived'
  BY <1>2, <1>3, ArchivedStays DEF RotationInv, Archived
<1>6. InOrder(x)'
  BY <1>1 DEF InOrder
<1>7. run \in [BackupRun -> RunState]
  BY DEF PairsInv, BackupTypes, RunState
<1>8. x # NoRun => x.stamp = stamps'
  BY <1>1, <1>2
<1>9. \A q \in BackupRun : q # r => run[q] = NoRun
  BY <1>4
<1> QED BY <1>2, <1>5, <1>6, <1>7, <1>8, <1>9, OneGoesOn

\* A run goes on and no archive moves.
LEMMA RotationOn ==
    ASSUME PairsInv, RotationInv, NEW r \in BackupRun, run[r] # NoRun, NEW x, run' = [run EXCEPT ![r] = x],
           x # NoRun => x.stamp = run[r].stamp,
           ~overlapped => InOrder(x),
           UNCHANGED <<day, archiveVars, stamps, overlapped>>
    PROVE  RotationInv'
<1> SUFFICES ASSUME ~overlapped PROVE Alone' /\ Archived' /\ RunsInOrder'
  BY DEF RotationInv, Archived
<1>1. UNCHANGED <<day, dumps, uploads, written>>
  BY DEF archiveVars
<1>2. InOrder(x)'
  BY <1>1, ArchivedStays
<1>3. Archived'
  BY <1>1, ArchivedStays DEF RotationInv, Archived
<1>4. run[r].stamp = stamps /\ \A q \in BackupRun : q # r => run[q] = NoRun
  BY DEF RotationInv, Alone
<1>5. run \in [BackupRun -> RunState]
  BY DEF PairsInv, BackupTypes, RunState
<1>6. x # NoRun => x.stamp = stamps'
  BY <1>4
<1> QED BY <1>2, <1>3, <1>4, <1>5, <1>6, OneGoesOn

LEMMA RotationRuns ==
    ASSUME PairsInv, RotationInv, NEW r \in BackupRun,
           Archive(r) \/ SkipUploads(r) \/ Abort(r) \/ CountArchives(r) \/ ListSurplus(r)
    PROVE  RotationInv'
<1>1. run[r] # NoRun
  BY DEF Archive, SkipUploads, Abort, CountArchives, ListSurplus, NoRun
<1>2. UNCHANGED <<day, archiveVars, stamps, overlapped>>
  BY DEF Archive, SkipUploads, Abort, CountArchives, ListSurplus
<1>3. ~overlapped => InOrder(run[r]) /\ Archived
  BY DEF RotationInv, RunsInOrder, Archived
<1>4. CASE Archive(r)
  <2>1. PICK x : x = [at |-> "archiving", stamp |-> run[r].stamp, list |-> FileKeys]
    OBVIOUS
  <2>2. run[r].at = "dumped" /\ run' = [run EXCEPT ![r] = x]
    BY <1>4, <2>1 DEF Archive, PairsInv, BackupTypes
  <2>3. x.stamp = run[r].stamp /\ (~overlapped => InOrder(x))
    BY <1>3, <2>1, <2>2 DEF InOrder
  <2> QED BY <1>1, <1>2, <2>2, <2>3, RotationOn
<1>5. CASE SkipUploads(r)
  <2>1. PICK x : x = [at |-> "prune", stamp |-> run[r].stamp, family |-> "dumps"]
    OBVIOUS
  <2>2. run' = [run EXCEPT ![r] = x]
    BY <1>5, <2>1 DEF SkipUploads, PairsInv, BackupTypes
  <2>3. x.stamp = run[r].stamp /\ InOrder(x)
    BY <2>1 DEF InOrder
  <2> QED BY <1>1, <1>2, <2>2, <2>3, RotationOn
<1>6. CASE Abort(r)
  <2>1. run' = [run EXCEPT ![r] = NoRun]
    BY <1>6 DEF Abort
  <2>2. InOrder(NoRun)
    BY DEF InOrder, NoRun
  <2> QED BY <1>1, <1>2, <2>1, <2>2, RotationOn
<1>7. CASE CountArchives(r)
  <2>1. PICK x : x = [at |-> "counted", stamp |-> run[r].stamp, family |-> run[r].family,
                      total |-> Cardinality(Kept(run[r].family))]
    OBVIOUS
  <2>2. run[r].at = "prune" /\ run' = [run EXCEPT ![r] = x]
    BY <1>7, <2>1 DEF CountArchives, PairsInv, BackupTypes
  <2>3. x.stamp = run[r].stamp /\ (~overlapped => InOrder(x))
    BY <1>3, <2>1, <2>2 DEF InOrder
  <2> QED BY <1>1, <1>2, <2>2, <2>3, RotationOn
<1>8. CASE ListSurplus(r)
  <2>1. /\ run[r].at = "counted" /\ run[r].stamp \in Stamp /\ run[r].family \in ArchiveKind
    BY <1>8 DEF ListSurplus, PairsInv, BackupTypes, NoRun, Dumping, Archiving, Pruning, Counting, Removing
  <2>2. PICK f : f = run[r].family
    OBVIOUS
  <2>3. PICK list : list = Surplus(f, run[r].total)
    OBVIOUS
  <2>4. PICK x : x = IF list = {} THEN NextFamily(r)
                     ELSE [at |-> "removing", stamp |-> run[r].stamp, family |-> f, list |-> list]
    OBVIOUS
  <2>5. run' = [run EXCEPT ![r] = x]
    BY <1>8, <2>2, <2>3, <2>4 DEF ListSurplus, PairsInv, BackupTypes
  <2>6. ASSUME ~overlapped
        PROVE  /\ list = {} /\ f = "dumps" => DumpsPruned
               /\ list # {} => Removable(f, list)
    <3>1. f \in ArchiveKind /\ (f = "dumps" \/ DumpsPruned) /\ run[r].total = Cardinality(Kept(f))
      BY <1>3, <2>1, <2>2, <2>6 DEF InOrder
    <3>2. BackupTypes /\ StampsFresh /\ Dated /\ Newest /\ Aligned
      BY <1>3, <2>6 DEF PairsInv, Archived
    <3> QED BY <2>3, <3>1, <3>2, SurplusOK
  <2>7. CASE list = {}
    <3>1. x = NextFamily(r)
      BY <2>4, <2>7
    <3>2. CASE f = "dumps"
      <4>1. x = [at |-> "prune", stamp |-> run[r].stamp, family |-> "uploads"]
        BY <2>2, <3>1, <3>2 DEF NextFamily
      <4>2. x.stamp = run[r].stamp /\ (~overlapped => InOrder(x))
        BY <2>6, <2>7, <3>2, <4>1 DEF InOrder
      <4> QED BY <1>1, <1>2, <2>5, <4>2, RotationOn
    <3>3. CASE f # "dumps"
      <4>1. x = NoRun
        BY <2>2, <3>1, <3>3 DEF NextFamily
      <4>2. InOrder(x)
        BY <4>1 DEF InOrder, NoRun
      <4> QED BY <1>1, <1>2, <2>5, <4>1, <4>2, RotationOn
    <3> QED BY <3>2, <3>3
  <2>8. CASE list # {}
    <3>1. x = [at |-> "removing", stamp |-> run[r].stamp, family |-> f, list |-> list]
      BY <2>4, <2>8
    <3>2. x.stamp = run[r].stamp /\ (~overlapped => InOrder(x))
      BY <2>6, <2>8, <3>1 DEF InOrder
    <3> QED BY <1>1, <1>2, <2>5, <3>2, RotationOn
  <2> QED BY <2>7, <2>8
<1> QED BY <1>4, <1>5, <1>6, <1>7, <1>8

\* Nothing of the application or of a restore touches the archives.
LEMMA RotationSite ==
    ASSUME RotationInv, UNCHANGED <<day, archiveVars, run, stamps, overlapped>> PROVE RotationInv'
<1> SUFFICES ASSUME ~overlapped PROVE Alone' /\ Archived' /\ RunsInOrder'
  BY DEF RotationInv, Archived
<1>1. UNCHANGED <<day, dumps, uploads, written>>
  BY DEF archiveVars
<1>2. Archived'
  BY <1>1, ArchivedStays DEF RotationInv, Archived
<1>3. Alone'
  BY DEF RotationInv, Alone
<1>4. RunsInOrder'
  <2>1. \A r \in BackupRun : InOrder(run[r])
    BY DEF RotationInv, RunsInOrder
  <2> SUFFICES ASSUME NEW r \in BackupRun PROVE InOrder(run[r])'
    BY DEF RunsInOrder
  <2>2. PICK x : x = run[r] /\ x = run'[r]
    OBVIOUS
  <2>3. InOrder(x)'
    BY <1>1, <2>1, <2>2, ArchivedStays
  <2> QED BY <2>2, <2>3
<1> QED BY <1>2, <1>3, <1>4

\* The next day comes while no run prunes.
LEMMA RotationMorning == ASSUME PairsInv, RotationInv, NextMorning PROVE RotationInv'
<1> SUFFICES ASSUME ~overlapped PROVE Alone' /\ Archived' /\ RunsInOrder'
  BY DEF RotationInv, Archived, NextMorning
<1>1. /\ day' = day + 1 /\ UNCHANGED <<dumps, uploads, written, run, stamps>>
      /\ \A r \in BackupRun : run[r].at \in {"none", "started", "dumped", "archiving"}
  BY DEF NextMorning, archiveVars
<1>2. \A f : Archives(f)' = Archives(f) /\ Kept(f)' = Kept(f)
  BY <1>1 DEF Archives, Kept
<1>3. Dated'
  <2>1. day \in Nat /\ \A f \in ArchiveKind : \A s \in Kept(f) : Archives(f)[s].day \in Nat /\ Archives(f)[s].day <= day
    BY KeptRows DEF PairsInv, BackupTypes, RotationInv, Dated
  <2>2. ASSUME NEW f \in ArchiveKind, NEW s \in Kept(f) PROVE Archives(f)[s].day <= day'
    <3>1. PICK d \in Nat : d = Archives(f)[s].day
      BY <2>1
    <3> QED BY <1>1, <2>1, <3>1
  <2>3. Dated
    BY DEF RotationInv
  <2> QED BY <1>1, <1>2, <2>2, <2>3 DEF Dated
<1>4. Newest' /\ Enough' /\ Aligned'
  BY <1>1, <1>2 DEF RotationInv, Newest, Enough, Aligned
<1>5. Alone'
  BY <1>1 DEF RotationInv, Alone
<1>6. RunsInOrder'
  <2> SUFFICES ASSUME NEW r \in BackupRun PROVE InOrder(run[r])'
    BY DEF RunsInOrder
  <2>1. run'[r] = run[r] /\ run[r].at \in {"none", "started", "dumped", "archiving"} /\ InOrder(run[r])
    BY <1>1 DEF RotationInv, RunsInOrder
  <2>2. run[r].at \in {"dumped", "archiving"} => run[r].stamp \in written["dumps"]
    BY <2>1 DEF InOrder
  <2> QED BY <1>1, <2>1, <2>2 DEF InOrder
<1> QED BY <1>3, <1>4, <1>5, <1>6 DEF Archived

\* An archive is written, under the newest stamp and the date of today.
LEMMA NewArchive ==
    ASSUME PairsInv, Archived, NEW f \in ArchiveKind, NEW s \in Stamp, s = stamps, s \notin written[f],
           NEW row, Archives(f)' = [Archives(f) EXCEPT ![s] = row], row.day = day, row # NoArchive,
           \A g \in ArchiveKind : g # f => Archives(g)' = Archives(g),
           written' = [written EXCEPT ![f] = @ \cup {s}], UNCHANGED day,
           f = "uploads" => s \in written["dumps"],
           f = "dumps" => s \notin written["uploads"]
    PROVE  Archived'
<1>1. /\ \A g \in ArchiveKind : Archives(g) \in [Stamp -> ArchiveRow \cup {NoArchive}]
      /\ \A g : Kept(g)' = {t \in Stamp : Archives(g)'[t] # NoArchive}
  BY DEF Archives, PairsInv, BackupTypes, Kept
<1>2. \A t \in Stamp : Archives(f)'[t] = IF t = s THEN row ELSE Archives(f)[t]
  BY <1>1
<1>3. Kept(f)' = Kept(f) \cup {s}
  BY <1>1, <1>2 DEF Kept
<1>4. \A g \in ArchiveKind : g # f => Kept(g)' = Kept(g)
  BY <1>1 DEF Kept
<1>5. \A g \in ArchiveKind : written'[g] = IF g = f THEN written[g] \cup {s} ELSE written[g]
  BY DEF PairsInv, BackupTypes
<1>6. s \notin Kept(f)
  BY DEF PairsInv, StampsFresh
<1>7. \A g \in ArchiveKind : /\ Kept(g) \subseteq written[g] /\ written[g] \subseteq Stamp
                             /\ \A t \in written[g] : t \in Nat /\ t <= s
  BY DEF PairsInv, StampsFresh, BackupTypes
<1>8. s \in Nat /\ day \in Nat
  BY BackupsAssumption DEF Stamp, PairsInv, BackupTypes
<1>9. Dated /\ Newest /\ Enough /\ Aligned
  BY DEF Archived
<1>10. \A g \in ArchiveKind : \A t \in Kept(g) : Archives(g)[t].day <= day
  BY <1>9 DEF Dated
<1>12. \A g \in ArchiveKind : \A t \in Kept(g) : Archives(g)'[t] = Archives(g)[t]
  BY <1>2, <1>6, <1>7
<1>13. Dated'
  <2>1. Archives(f)'[s].day = day
    BY <1>2
  <2>2. ASSUME NEW g \in ArchiveKind, NEW t \in Kept(g)'
        PROVE  /\ Archives(g)'[t].day <= day
               /\ \A u \in Kept(g)' : t < u => Archives(g)'[t].day <= Archives(g)'[u].day
    <3>1. CASE t \in Kept(g)
      <4>1. Archives(g)'[t] = Archives(g)[t] /\ Archives(g)[t].day <= day
        BY <1>10, <1>12, <3>1
      <4>2. ASSUME NEW u \in Kept(g)', t < u PROVE Archives(g)[t].day <= Archives(g)'[u].day
        <5>1. CASE u \in Kept(g)
          BY <1>9, <1>12, <3>1, <4>2, <5>1 DEF Dated
        <5>2. CASE u \notin Kept(g)
          BY <1>3, <1>4, <2>1, <4>1, <5>2
        <5> QED BY <5>1, <5>2
      <4> QED BY <4>1, <4>2
    <3>2. CASE t \notin Kept(g)
      <4>1. g = f /\ t = s
        BY <1>3, <1>4, <2>2, <3>2
      <4>2. ASSUME NEW u \in Kept(g)', t < u PROVE FALSE
        <5>1. CASE u = s
          BY <1>8, <4>1, <4>2, <5>1
        <5>2. CASE u # s
          <6>1. u \in Nat /\ u <= s
            BY <1>3, <1>7, <4>1, <5>2
          <6> QED BY <1>8, <4>1, <4>2, <6>1
        <5> QED BY <5>1, <5>2
      <4>3. Archives(g)'[t].day <= day
        <5>1. Archives(g)'[t].day = day
          BY <2>1, <4>1
        <5> QED BY <1>8, <5>1
      <4> QED BY <4>2, <4>3
    <3> QED BY <3>1, <3>2
  <2>3. ASSUME NEW t \in Kept("dumps")' \cap Kept("uploads")'
        PROVE  dumps'[t].day <= uploads'[t].day
    <3>1. "dumps" \in ArchiveKind /\ "uploads" \in ArchiveKind /\ (f = "dumps" \/ f = "uploads")
      BY DEF ArchiveKind
    <3>2. dumps' = Archives("dumps")' /\ uploads' = Archives("uploads")'
      BY DEF Archives
    <3>3. CASE t \in Kept("dumps") /\ t \in Kept("uploads")
      <4>1. dumps'[t] = dumps[t] /\ uploads'[t] = uploads[t]
        BY <1>12, <3>1, <3>2, <3>3 DEF Archives
      <4> QED BY <1>9, <3>3, <4>1 DEF Dated
    <3>4. CASE f = "uploads" /\ t = s
      <4>1. t \in Kept("dumps")
        BY <1>4, <2>3, <3>1, <3>4
      <4> QED BY <1>10, <1>12, <2>1, <3>1, <3>2, <3>4, <4>1
    <3>5. CASE f = "dumps" /\ t = s
      <4>1. t \in Kept("uploads")
        BY <1>4, <2>3, <3>1, <3>5
      <4> QED BY <1>7, <3>1, <3>5, <4>1
    <3> QED BY <1>3, <1>4, <2>3, <3>1, <3>3, <3>4, <3>5
  <2> QED BY <2>2, <2>3 DEF Dated
<1>14. Newest'
  <2> SUFFICES ASSUME NEW g \in ArchiveKind, NEW t \in Kept(g)', NEW u \in written'[g], t < u PROVE u \in Kept(g)'
    BY DEF Newest
  <2>1. CASE g # f
    BY <1>4, <1>5, <1>9, <2>1 DEF Newest
  <2>2. CASE g = f /\ u = s
    BY <1>3, <2>2
  <2>3. CASE g = f /\ u # s
    <3>1. u \in written[g] /\ u \in Nat /\ u <= s
      BY <1>5, <1>7, <2>3
    <3>2. t # s
      BY <1>8, <3>1
    <3>3. t \in Kept(g)
      BY <1>3, <2>3, <3>2
    <3> QED BY <1>3, <1>9, <2>3, <3>1, <3>3 DEF Newest
  <2> QED BY <2>1, <2>2, <2>3
<1>15. Enough'
  <2> SUFFICES ASSUME NEW g \in ArchiveKind PROVE Cardinality(Kept(g)') >= MinKept \/ Kept(g)' = written'[g]
    BY DEF Enough
  <2>1. CASE g # f
    BY <1>4, <1>5, <1>9, <2>1 DEF Enough
  <2>2. CASE g = f
    <3>1. IsFiniteSet(Kept(f)) /\ Cardinality(Kept(f)) \in Nat /\ MinKept \in Nat
      BY KeptFinite, BackupsAssumption
    <3>2. Cardinality(Kept(f)') = Cardinality(Kept(f)) + 1
      BY <1>3, <1>6, <3>1, FS_AddElement
    <3>3. Cardinality(Kept(f)) >= MinKept \/ Kept(f) = written[f]
      BY <1>9 DEF Enough
    <3>4. CASE Kept(f) = written[f]
      BY <1>3, <1>5, <2>2, <3>4
    <3>5. CASE Cardinality(Kept(f)) >= MinKept
      BY <2>2, <3>1, <3>2, <3>5
    <3> QED BY <3>3, <3>4, <3>5
  <2> QED BY <2>1, <2>2
<1>16. Aligned'
  <2>1. "dumps" \in ArchiveKind /\ "uploads" \in ArchiveKind /\ (f = "dumps" \/ f = "uploads")
    BY DEF ArchiveKind
  <2>2. CASE f = "dumps"
    BY <1>3, <1>4, <1>5, <1>9, <2>1, <2>2 DEF Aligned
  <2>3. CASE f = "uploads"
    BY <1>3, <1>4, <1>5, <1>9, <2>1, <2>3 DEF Aligned
  <2> QED BY <2>1, <2>2, <2>3
<1> QED BY <1>13, <1>14, <1>15, <1>16 DEF Archived

LEMMA RotationDump == ASSUME PairsInv, RotationInv, NEW r \in BackupRun, Dump(r) PROVE RotationInv'
<1> SUFFICES ASSUME ~overlapped PROVE Alone' /\ Archived' /\ RunsInOrder'
  BY DEF RotationInv, Archived, Dump
<1>1. PICK s : s = run[r].stamp
  OBVIOUS
<1>2. PICK row : row = [holds |-> RowKeys, day |-> day]
  OBVIOUS
<1>3. PICK x : x = [run[r] EXCEPT !.at = "dumped"]
  OBVIOUS
<1>4. /\ run[r].at = "started" /\ run' = [run EXCEPT ![r] = x]
      /\ dumps' = [dumps EXCEPT ![s] = row] /\ uploads' = uploads
      /\ written' = [written EXCEPT !["dumps"] = @ \cup {s}]
      /\ day' = day /\ stamps' = stamps
  BY <1>1, <1>2, <1>3 DEF Dump, PairsInv, BackupTypes
<1>5. run[r] \in Dumping /\ run[r] # NoRun /\ s \in Stamp
  BY <1>1, <1>4 DEF PairsInv, BackupTypes, NoRun, Dumping, Archiving, Pruning, Counting, Removing
<1>6. x.at = "dumped" /\ x.stamp = s
  BY <1>1, <1>3, <1>5 DEF Dumping
<1>7. s = stamps /\ \A q \in BackupRun : q # r => run[q] = NoRun
  BY <1>1, <1>5 DEF RotationInv, Alone
<1>8. s \notin written["dumps"] /\ s \notin written["uploads"]
  BY <1>1, <1>4, <1>5 DEF PairsInv, StampsFresh
<1>9. row \in ArchiveRow /\ row # NoArchive /\ row.day = day
  BY <1>2, BackupsAssumption DEF ArchiveRow, RowKeys, PairsInv, BackupTypes
<1>10. Archived
  BY DEF RotationInv, Archived
<1>11. Archived'
  <2>1. Archives("dumps")' = [Archives("dumps") EXCEPT ![s] = row]
    BY <1>4 DEF Archives
  <2>2. \A g \in ArchiveKind : g # "dumps" => Archives(g)' = Archives(g)
    BY <1>4 DEF Archives
  <2>3. "dumps" \in ArchiveKind
    BY DEF ArchiveKind
  <2> QED BY <1>4, <1>5, <1>7, <1>8, <1>9, <1>10, <2>1, <2>2, <2>3, NewArchive
<1>12. s \in written'["dumps"]
  BY <1>4 DEF PairsInv, BackupTypes, ArchiveKind
<1>13. InOrder(x)'
  BY <1>6, <1>12 DEF InOrder
<1>14. run \in [BackupRun -> RunState]
  BY DEF PairsInv, BackupTypes, RunState
<1>15. x # NoRun => x.stamp = stamps'
  BY <1>4, <1>6, <1>7
<1> QED BY <1>4, <1>7, <1>11, <1>13, <1>14, <1>15, OneGoesOn

LEMMA RotationArchive == ASSUME PairsInv, RotationInv, NEW r \in BackupRun, ArchiveDone(r) PROVE RotationInv'
<1> SUFFICES ASSUME ~overlapped PROVE Alone' /\ Archived' /\ RunsInOrder'
  BY DEF RotationInv, Archived, ArchiveDone
<1>1. PICK s : s = run[r].stamp
  OBVIOUS
<1>2. PICK row : row = [holds |-> run[r].list, day |-> day]
  OBVIOUS
<1>3. PICK x : x = [at |-> "prune", stamp |-> s, family |-> "dumps"]
  OBVIOUS
<1>4. /\ run[r].at = "archiving" /\ run' = [run EXCEPT ![r] = x]
      /\ uploads' = [uploads EXCEPT ![s] = row] /\ dumps' = dumps
      /\ written' = [written EXCEPT !["uploads"] = @ \cup {s}]
      /\ day' = day /\ stamps' = stamps
  BY <1>1, <1>2, <1>3 DEF ArchiveDone, PairsInv, BackupTypes
<1>5. run[r] \in Archiving /\ run[r] # NoRun /\ s \in Stamp
  BY <1>1, <1>4 DEF PairsInv, BackupTypes, NoRun, Dumping, Archiving, Pruning, Counting, Removing
<1>6. s = stamps /\ \A q \in BackupRun : q # r => run[q] = NoRun
  BY <1>1, <1>5 DEF RotationInv, Alone
<1>7. s \notin written["uploads"] /\ s \in written["dumps"]
  <2>1. s \notin written["uploads"]
    BY <1>1, <1>4, <1>5 DEF PairsInv, StampsFresh
  <2>2. InOrder(run[r])
    BY DEF RotationInv, RunsInOrder
  <2> QED BY <1>1, <1>4, <2>1, <2>2 DEF InOrder
<1>8. row \in ArchiveRow /\ row # NoArchive /\ row.day = day
  BY <1>2, <1>5, BackupsAssumption DEF ArchiveRow, Archiving, PairsInv, BackupTypes
<1>9. Archived
  BY DEF RotationInv, Archived
<1>10. Archived'
  <2>1. Archives("uploads")' = [Archives("uploads") EXCEPT ![s] = row]
    BY <1>4 DEF Archives
  <2>2. \A g \in ArchiveKind : g # "uploads" => Archives(g)' = Archives(g)
    BY <1>4 DEF Archives, ArchiveKind
  <2>3. "uploads" \in ArchiveKind
    BY DEF ArchiveKind
  <2> QED BY <1>4, <1>5, <1>6, <1>7, <1>8, <1>9, <2>1, <2>2, <2>3, NewArchive
<1>11. InOrder(x)'
  BY <1>3 DEF InOrder
<1>12. run \in [BackupRun -> RunState]
  BY DEF PairsInv, BackupTypes, RunState
<1>13. x # NoRun => x.stamp = stamps'
  BY <1>3, <1>4, <1>6
<1> QED BY <1>4, <1>6, <1>10, <1>11, <1>12, <1>13, OneGoesOn

LEMMA RotationRemove == ASSUME PairsInv, RotationInv, NEW r \in BackupRun, RemoveArchive(r) PROVE RotationInv'
<1> SUFFICES ASSUME ~overlapped PROVE Alone' /\ Archived' /\ RunsInOrder'
  BY DEF RotationInv, Archived, RemoveArchive
<1>1. PICK f : f = run[r].family
  OBVIOUS
<1>2. PICK list : list = run[r].list
  OBVIOUS
<1>3. PICK m : m = Min(list)
  OBVIOUS
<1>4. PICK rest : rest = list \ {m}
  OBVIOUS
<1>5. PICK x : x = IF rest = {} THEN NextFamily(r) ELSE [run[r] EXCEPT !.list = rest]
  OBVIOUS
<1>6. /\ run[r].at = "removing" /\ run' = [run EXCEPT ![r] = x]
      /\ dumps' = IF f = "dumps" THEN [dumps EXCEPT ![m] = NoArchive] ELSE dumps
      /\ uploads' = IF f = "uploads" THEN [uploads EXCEPT ![m] = NoArchive] ELSE uploads
      /\ UNCHANGED <<day, stamps, written>>
  BY <1>1, <1>2, <1>3, <1>4, <1>5 DEF RemoveArchive, PairsInv, BackupTypes
<1>7. run[r] \in Removing /\ run[r] # NoRun /\ f \in ArchiveKind
  BY <1>1, <1>6 DEF PairsInv, BackupTypes, NoRun, Dumping, Archiving, Pruning, Counting, Removing
<1>8. run[r].stamp = stamps /\ \A q \in BackupRun : q # r => run[q] = NoRun
  BY <1>7 DEF RotationInv, Alone
<1>9. BackupTypes /\ StampsFresh /\ Dated /\ Newest /\ Enough /\ Aligned
  BY DEF PairsInv, RotationInv
<1>10. Removable(f, list)
  <2>1. InOrder(run[r])
    BY DEF RotationInv, RunsInOrder
  <2> QED BY <1>1, <1>2, <1>6, <2>1 DEF InOrder
<1>11. \A g \in ArchiveKind : \A s \in Stamp :
          Archives(g)'[s] = IF g = f /\ s = m THEN NoArchive ELSE Archives(g)[s]
  <2>1. \A s \in Stamp : /\ dumps'[s] = IF f = "dumps" /\ s = m THEN NoArchive ELSE dumps[s]
                         /\ uploads'[s] = IF f = "uploads" /\ s = m THEN NoArchive ELSE uploads[s]
    BY <1>6, <1>9 DEF BackupTypes
  <2> QED BY <2>1 DEF Archives, ArchiveKind
<1>12. \A g \in ArchiveKind : Kept(g)' = IF g = f THEN Kept(g) \ {m} ELSE Kept(g)
  BY <1>11 DEF Kept
<1>13. \A g \in ArchiveKind : \A s \in Kept(g)' : Archives(g)'[s] = Archives(g)[s]
  <2>1. \A g \in ArchiveKind : \A s \in Kept(g)' : s \in Stamp /\ Archives(g)'[s] # NoArchive
    BY DEF Kept
  <2> QED BY <1>11, <2>1
<1>14. /\ Dated' /\ Newest' /\ Enough' /\ Aligned'
       /\ rest = {} /\ f = "dumps" => DumpsPruned'
       /\ rest # {} => Removable(f, rest)'
  <2>1. UNCHANGED <<day, written>>
    BY <1>6
  <2> QED BY <1>3, <1>4, <1>7, <1>9, <1>10, <1>12, <1>13, <2>1, RemovalKeeps
<1>15. InOrder(x)' /\ (x # NoRun => x.stamp = run[r].stamp)
  <2>1. CASE rest = {} /\ f = "dumps"
    <3>1. x = [at |-> "prune", stamp |-> run[r].stamp, family |-> "uploads"]
      BY <1>1, <1>5, <2>1 DEF NextFamily
    <3> QED BY <1>14, <2>1, <3>1 DEF InOrder
  <2>2. CASE rest = {} /\ f # "dumps"
    <3>1. x = NoRun
      BY <1>1, <1>5, <2>2 DEF NextFamily
    <3> QED BY <3>1 DEF InOrder, NoRun
  <2>3. CASE rest # {}
    <3>1. x.at = "removing" /\ x.stamp = run[r].stamp /\ x.family = f /\ x.list = rest
      BY <1>1, <1>5, <1>6, <1>7, <2>3 DEF Removing
    <3> QED BY <1>14, <2>3, <3>1 DEF InOrder
  <2> QED BY <2>1, <2>2, <2>3
<1>16. run \in [BackupRun -> RunState]
  BY DEF PairsInv, BackupTypes, RunState
<1>17. x # NoRun => x.stamp = stamps'
  BY <1>6, <1>8, <1>15
<1>18. Archived'
  BY <1>14 DEF Archived
<1> QED BY <1>6, <1>8, <1>15, <1>16, <1>17, <1>18, OneGoesOn

LEMMA RotationInit == BackupsInit => RotationInv
<1> SUFFICES ASSUME BackupsInit PROVE RotationInv
  OBVIOUS
<1>1. MaxStamps \in Nat /\ Earlier \in 0..MaxStamps /\ NoArchive \notin ArchiveRow
  BY BackupsAssumption DEF ArchiveRow
<1>2. PICK row : row = [holds |-> RowKeys, day |-> 0]
  OBVIOUS
<1>3. row \in ArchiveRow /\ row # NoArchive /\ row.day = 0
  BY <1>1, <1>2 DEF ArchiveRow, RowKeys
<1>4. /\ dumps = [s \in Stamp |-> IF s <= Earlier THEN row ELSE NoArchive]
      /\ uploads = [s \in Stamp |-> IF s <= Earlier THEN row ELSE NoArchive]
      /\ day = 1 /\ run = [r \in BackupRun |-> NoRun] /\ written = [f \in ArchiveKind |-> 1..Earlier]
  BY <1>2 DEF BackupsInit
<1>5. \A f \in ArchiveKind : Kept(f) = 1..Earlier /\ written[f] = 1..Earlier
  BY <1>1, <1>3, <1>4 DEF Kept, Archives, Stamp
<1>6. \A f \in ArchiveKind : \A s \in 1..Earlier : Archives(f)[s] = row
  BY <1>1, <1>4 DEF Archives, Stamp
<1>7. "dumps" \in ArchiveKind /\ "uploads" \in ArchiveKind
  BY DEF ArchiveKind
<1>8. Dated
  <2>1. \A f \in ArchiveKind : \A s \in Kept(f) :
           /\ Archives(f)[s].day <= day
           /\ \A t \in Kept(f) : s < t => Archives(f)[s].day <= Archives(f)[t].day
    <3> SUFFICES ASSUME NEW f \in ArchiveKind, NEW s \in Kept(f), NEW t \in Kept(f)
                 PROVE  Archives(f)[s].day <= day /\ Archives(f)[s].day <= Archives(f)[t].day
      OBVIOUS
    <3>1. Archives(f)[s].day = 0 /\ Archives(f)[t].day = 0
      BY <1>3, <1>5, <1>6
    <3> QED BY <1>4, <3>1
  <2>2. \A s \in Kept("dumps") \cap Kept("uploads") : dumps[s].day <= uploads[s].day
    <3> SUFFICES ASSUME NEW s \in Kept("dumps") \cap Kept("uploads") PROVE dumps[s].day <= uploads[s].day
      OBVIOUS
    <3>1. Archives("dumps")[s].day = 0 /\ Archives("uploads")[s].day = 0
      BY <1>3, <1>5, <1>6, <1>7
    <3>2. dumps[s].day = 0 /\ uploads[s].day = 0
      BY <3>1 DEF Archives
    <3> QED BY <3>2
  <2> QED BY <2>1, <2>2 DEF Dated
<1>9. Newest /\ Enough /\ Aligned
  BY <1>5, <1>7 DEF Newest, Enough, Aligned
<1>10. Alone /\ RunsInOrder
  BY <1>4 DEF Alone, RunsInOrder, InOrder, NoRun
<1> QED BY <1>8, <1>9, <1>10 DEF RotationInv

LEMMA RotationStep == PairsInv /\ RotationInv /\ [BackupsNext]_backupVars => RotationInv'
<1> SUFFICES ASSUME PairsInv, RotationInv, [BackupsNext]_backupVars PROVE RotationInv'
  OBVIOUS
<1>1. CASE UNCHANGED backupVars
  BY <1>1, RotationSite DEF backupVars, archiveVars
<1>2. ASSUME NEW k \in Picture, StorePhoto(k) \/ ShowPhoto(k) \/ ClearPhoto(k) \/ RemovePhoto(k) PROVE RotationInv'
  BY <1>2, RotationSite DEF StorePhoto, ShowPhoto, ClearPhoto, RemovePhoto, Becomes, archiveVars
<1>3. CASE \/ \E s \in Stamp : RestoreStart(s) \/ Extract(s)
           \/ \E fails \in BOOLEAN : StopApp(fails)
           \/ RestoreDone \/ RestoreFails
  BY <1>3, RotationSite DEF RestoreStart, Extract, StopApp, RestoreDone, RestoreFails, archiveVars
<1>4. ASSUME NEW r \in BackupRun, RunStep(r) PROVE RotationInv'
  BY <1>4, RotationStart, RotationDump, RotationArchive, RotationRuns, RotationRemove DEF RunStep
<1>5. CASE NextMorning
  BY <1>5, RotationMorning
<1> QED BY <1>1, <1>2, <1>3, <1>4, <1>5 DEF BackupsNext

LEMMA BackupsHold == PairsInv /\ RotationInv => BackupsInv
<1> SUFFICES ASSUME PairsInv, RotationInv PROVE BackupsInv
  OBVIOUS
<1>1. PairIsComplete
  BY DEF PairsInv
<1>2. RotationKeeps
  <2> SUFFICES ASSUME ~overlapped
               PROVE  /\ \A f \in ArchiveKind : Cardinality(Kept(f)) >= Min({MinKept, Cardinality(written[f])})
                      /\ Kept("dumps") \cap written["uploads"] \subseteq Kept("uploads")
    BY DEF RotationKeeps
  <2>1. ASSUME NEW f \in ArchiveKind PROVE Cardinality(Kept(f)) >= Min({MinKept, Cardinality(written[f])})
    <3>1. written[f] \in SUBSET Stamp /\ IsFiniteSet(Stamp)
      BY BackupsAssumption, FS_Interval DEF PairsInv, BackupTypes, Stamp
    <3>2. Cardinality(written[f]) \in Nat /\ Cardinality(Kept(f)) \in Nat /\ MinKept \in Nat
      BY <3>1, KeptFinite, FS_Subset, FS_CardinalityType, BackupsAssumption
    <3>3. PICK w \in Nat : w = Cardinality(written[f])
      BY <3>2
    <3>4. IsFiniteSet({MinKept, w}) /\ {MinKept, w} \subseteq Nat
      <4>1. {MinKept, w} = {MinKept} \cup {w}
        OBVIOUS
      <4>2. IsFiniteSet({MinKept})
        BY FS_Singleton
      <4>3. IsFiniteSet({MinKept} \cup {w})
        BY <4>2, FS_AddElement
      <4> QED BY <3>2, <4>1, <4>3
    <3>5. PICK least : least = Min({MinKept, w})
      OBVIOUS
    <3>6. least \in Nat /\ least <= MinKept /\ least <= w
      BY <3>4, <3>5, MinOf
    <3>7. Cardinality(Kept(f)) >= MinKept \/ Cardinality(Kept(f)) = w
      BY <3>3 DEF RotationInv, Enough
    <3>8. Cardinality(Kept(f)) >= least
      BY <3>2, <3>6, <3>7
    <3> QED BY <3>3, <3>5, <3>8
  <2>2. Kept("dumps") \cap written["uploads"] \subseteq Kept("uploads")
    BY DEF RotationInv, Aligned
  <2> QED BY <2>1, <2>2
<1> QED BY <1>1, <1>2 DEF BackupsInv

\* A run and its photos are a pair, and one run after the other keeps enough archives and
\* keeps them aligned.
THEOREM BackupsKeep == BackupsSpec => []BackupsInv
<1>1. BackupsInit => PairsInv /\ RotationInv
  BY BackupsInit1, RotationInit
<1>2. PairsInv /\ RotationInv /\ [BackupsNext]_backupVars => (PairsInv /\ RotationInv)'
  BY PairsStep, RotationStep
<1> QED BY <1>1, <1>2, BackupsHold, PTL DEF BackupsSpec
=============================================================================
