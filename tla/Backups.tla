-------------------------------- MODULE Backups --------------------------------
(***************************************************************************)
(* The scripts of deploy/backup beside the running application: a run      *)
(* dumps the database, archives the photos, then prunes both families of    *)
(* archives; a restore puts a dump back.  Nothing keeps two runs, or a run  *)
(* and a restore, from overlapping: cron starts one, an operator another.   *)
(*                                                                         *)
(* The database is the set of photos its rows name.  A photo is stored     *)
(* before its row names it and removed after (module Files); its key is    *)
(* never used again.  Two runs do not start in the same second.            *)
(***************************************************************************)
EXTENDS Naturals, FiniteSets, FiniteSetsExt

CONSTANTS
    Picture,        \* photos
    BackupRun,      \* runs of nod-crm-backup.sh under way
    MinKept,        \* NOD_CRM_MIN_KEPT
    Retention,      \* NOD_CRM_RETENTION_DAYS
    Earlier,        \* bound: runs made before
    LastMorning,    \* bound: the last day
    MaxStamps,      \* bound: runs started
    NoArchive       \* no such archive

VARIABLES
    day,
    picture,        \* [Picture -> the state of its row and of its file]
    dumps,      \* the archives, by their timestamp, NoArchive before and after
    uploads,
    run,        \* what each run has in hand
    stamps,     \* runs started
    restore,    \* the restore under way
    app,        \* "running" or "stopped"
    \* History: photos removed while a run was between its two archives, or gone before;
    \* whether two runs overlapped; the archives that were ever written.
    removedDuring, overlapped, written

backupVars == <<day, picture, dumps, uploads, run, stamps, restore, app, removedDuring, overlapped, written>>
siteVars == <<picture, app, restore>>
archiveVars == <<dumps, uploads, written>>

ASSUME BackupsAssumption ==
    /\ MinKept \in Nat /\ Retention \in Nat /\ LastMorning \in Nat
    /\ MaxStamps \in Nat /\ Earlier \in 0..MaxStamps
    /\ NoArchive \notin [holds : SUBSET Picture, day : Nat]

Stamp == 1..MaxStamps
NoRun == [at |-> "none"]
ArchiveKind == {"dumps", "uploads"}

Archives(family) == IF family = "dumps" THEN dumps ELSE uploads
Kept(family) == {s \in Stamp : Archives(family)[s] # NoArchive}

\* "doomed": its removal is under way while a restore put its row back.
RowKeys == {k \in Picture : picture[k] \in {"shown", "broken", "doomed"}}
FileKeys == {k \in Picture : picture[k] \in {"stored", "shown", "cleared", "doomed", "orphan"}}

\* Some runs were made before, on day 0; all of them archived the photos.
BackupsInit ==
    LET made == [s \in Stamp |-> IF s <= Earlier THEN [holds |-> RowKeys, day |-> 0] ELSE NoArchive] IN
    /\ day = 1 /\ stamps = Earlier
    /\ picture \in [Picture -> {"new", "shown"}]
    /\ dumps = made /\ uploads = made
    /\ run = [r \in BackupRun |-> NoRun]
    /\ restore = [at |-> "none"] /\ app = "running"
    /\ removedDuring = [s \in Stamp |-> {}] /\ overlapped = FALSE
    /\ written = [f \in ArchiveKind |-> 1..Earlier]

-----------------------------------------------------------------------------
(* The application, while it runs.                                         *)

Becomes(k, state) ==
    /\ app = "running"
    /\ picture' = [picture EXCEPT ![k] = state]
    /\ removedDuring' = [s \in Stamp |->
           IF picture[k] \in {"shown", "doomed"} /\ \E r \in BackupRun : run[r].at \in {"dumped", "archiving"} /\ run[r].stamp = s
           THEN removedDuring[s] \cup {k} ELSE removedDuring[s]]
    /\ UNCHANGED <<day, archiveVars, run, stamps, restore, app, overlapped>>

StorePhoto(k) == picture[k] = "new" /\ Becomes(k, "stored")
ShowPhoto(k) == picture[k] = "stored" /\ Becomes(k, "shown")
ClearPhoto(k) == picture[k] \in {"shown", "broken"} /\ Becomes(k, IF picture[k] = "shown" THEN "cleared" ELSE "gone")
RemovePhoto(k) == picture[k] \in {"cleared", "doomed"} /\ Becomes(k, IF picture[k] = "cleared" THEN "gone" ELSE "broken")

-----------------------------------------------------------------------------
(* nod-crm-backup.sh                                                       *)

Active == {r \in BackupRun : run[r] # NoRun}

\* The dump is one snapshot; it is renamed once it is verified.
StartBackup(r) ==
    /\ run[r] = NoRun /\ stamps < MaxStamps
    /\ stamps' = stamps + 1
    /\ run' = [run EXCEPT ![r] = [at |-> "started", stamp |-> stamps + 1]]
    /\ overlapped' = (overlapped \/ Active # {})
    /\ UNCHANGED <<day, siteVars, archiveVars, removedDuring>>

Dump(r) ==
    /\ run[r].at = "started"
    /\ dumps' = [dumps EXCEPT ![run[r].stamp] = [holds |-> RowKeys, day |-> day]]
    /\ written' = [written EXCEPT !["dumps"] = @ \cup {run[r].stamp}]
    /\ run' = [run EXCEPT ![r].at = "dumped"]
    /\ removedDuring' = [removedDuring EXCEPT ![run[r].stamp] = RowKeys \ FileKeys]
    /\ UNCHANGED <<day, siteVars, uploads, stamps, overlapped>>

\* tar lists the directory of the running application...
Archive(r) ==
    /\ run[r].at = "dumped" /\ app = "running"
    /\ run' = [run EXCEPT ![r] = [at |-> "archiving", stamp |-> @.stamp, list |-> FileKeys]]
    /\ UNCHANGED <<day, siteVars, archiveVars, stamps, removedDuring, overlapped>>

\* ... and fails when a file it listed is gone before it is read.
ArchiveDone(r) ==
    /\ run[r].at = "archiving" /\ app = "running"
    /\ uploads' = [uploads EXCEPT ![run[r].stamp] = [holds |-> run[r].list, day |-> day]]
    /\ written' = [written EXCEPT !["uploads"] = @ \cup {run[r].stamp}]
    /\ run' = [run EXCEPT ![r] = [at |-> "prune", stamp |-> @.stamp, family |-> "dumps"]]
    /\ UNCHANGED <<day, siteVars, dumps, stamps, removedDuring, overlapped>>

\* NOD_CRM_SKIP_UPLOADS: the database alone.
SkipUploads(r) ==
    /\ run[r].at = "dumped"
    /\ run' = [run EXCEPT ![r] = [at |-> "prune", stamp |-> @.stamp, family |-> "dumps"]]
    /\ UNCHANGED <<day, siteVars, archiveVars, stamps, removedDuring, overlapped>>

\* A step fails, or the script is killed: a dump may stay without its photos.
Abort(r) ==
    /\ run[r] # NoRun
    /\ run' = [run EXCEPT ![r] = NoRun]
    /\ UNCHANGED <<day, siteVars, archiveVars, stamps, removedDuring, overlapped>>

\* prune: the archives are counted...
CountArchives(r) ==
    /\ run[r].at = "prune"
    /\ run' = [run EXCEPT ![r] = [at |-> "counted", stamp |-> @.stamp, family |-> @.family,
                                  total |-> Cardinality(Kept(@.family))]]
    /\ UNCHANGED <<day, siteVars, archiveVars, stamps, removedDuring, overlapped>>

NextFamily(r) ==
    IF run[r].family = "dumps" THEN [at |-> "prune", stamp |-> run[r].stamp, family |-> "uploads"] ELSE NoRun

Old(family) == {s \in Kept(family) : day - Archives(family)[s].day > Retention}

\* The n oldest of a set of archives, or all of them.
Oldest(S, n) == {s \in S : Cardinality({t \in S : t < s}) < n}

\* Seeded fault of Surplus: the archives kept are not counted out.
SurplusOfOld(family, total) == IF total > MinKept THEN Old(family) ELSE {}

\* The surplus above MinKept, of the archives that are old.
Surplus(family, total) == IF total > MinKept THEN Oldest(Old(family), total - MinKept) ELSE {}

\* ... then the old ones are listed, and removed one by one.
ListSurplus(r) ==
    LET old == Surplus(run[r].family, run[r].total) IN
    /\ run[r].at = "counted"
    /\ run' = [run EXCEPT ![r] = IF old = {} THEN NextFamily(r)
           ELSE [at |-> "removing", stamp |-> @.stamp, family |-> @.family, list |-> old]]
    /\ UNCHANGED <<day, siteVars, archiveVars, stamps, removedDuring, overlapped>>

RemoveArchive(r) ==
    LET s == Min(run[r].list)
        rest == run[r].list \ {s}
        dropped(archive) == [archive EXCEPT ![s] = NoArchive]
    IN
    /\ run[r].at = "removing"
    /\ dumps' = IF run[r].family = "dumps" THEN dropped(dumps) ELSE dumps
    /\ uploads' = IF run[r].family = "uploads" THEN dropped(uploads) ELSE uploads
    /\ run' = [run EXCEPT ![r] = IF rest = {} THEN NextFamily(r) ELSE [@ EXCEPT !.list = rest]]
    /\ UNCHANGED <<day, siteVars, stamps, removedDuring, overlapped, written>>

-----------------------------------------------------------------------------
(* nod-crm-restore.sh --into-production                                    *)

\* The archive is chosen and a safety dump taken before anything is touched; the script
\* never reads that dump back.
RestoreStart(s) ==
    /\ restore.at = "none" /\ dumps[s] # NoArchive
    /\ restore' = [at |-> "saved", from |-> dumps[s].holds]
    /\ UNCHANGED <<day, picture, archiveVars, run, stamps, app, removedDuring, overlapped>>

\* A docker stop that fails is taken for an application already stopped.
StopApp(fails) ==
    /\ restore.at = "saved"
    /\ restore' = [restore EXCEPT !.at = "stopped"]
    /\ app' = IF fails THEN app ELSE "stopped"
    /\ UNCHANGED <<day, picture, archiveVars, run, stamps, removedDuring, overlapped>>

\* The rows of the dump replace those of the database; the files stay, and a row may
\* name a file that is gone.
Restored(k) ==
    CASE k \in restore.from /\ k \in FileKeys ->
             IF app = "running" /\ picture[k] \in {"cleared", "doomed"} THEN "doomed" ELSE "shown"
      [] k \in restore.from /\ k \notin FileKeys -> "broken"
      [] k \notin restore.from /\ k \in FileKeys -> IF app = "running" /\ picture[k] # "shown" THEN picture[k] ELSE "orphan"
      [] OTHER -> IF picture[k] = "new" THEN "new" ELSE "gone"

RestoreDone ==
    /\ restore.at \in {"stopped", "half"}
    /\ picture' = [k \in Picture |-> Restored(k)]
    /\ restore' = [at |-> "none"]
    /\ app' = "running"
    /\ UNCHANGED <<day, archiveVars, run, stamps, removedDuring, overlapped>>

\* psql commits statement by statement: the script stops with tables dropped, and the
\* application stays as it is.  The operator starts over.
RestoreFails ==
    /\ restore.at = "stopped"
    /\ picture' = [k \in Picture |-> IF k \in FileKeys THEN "orphan" ELSE IF picture[k] = "new" THEN "new" ELSE "gone"]
    /\ restore' = [restore EXCEPT !.at = "half"]
    /\ UNCHANGED <<day, archiveVars, run, stamps, app, removedDuring, overlapped>>

\* By hand, after a restore: tar adds the files of the archive and removes none.
Extract(s) ==
    /\ uploads[s] # NoArchive /\ app = "running"
    /\ picture' = [k \in Picture |->
           IF k \in uploads[s].holds /\ picture[k] = "broken" THEN "shown"
           ELSE IF k \in uploads[s].holds /\ picture[k] = "gone" THEN "orphan" ELSE picture[k]]
    /\ UNCHANGED <<day, archiveVars, run, stamps, restore, app, removedDuring, overlapped>>

\* The photos of a run are archived after its dump, by more than it takes to prune: an
\* archive of photos does not grow old between the two prunings of a run.
NextMorning ==
    /\ day < LastMorning
    /\ \A r \in BackupRun : run[r].at \in {"none", "started", "dumped", "archiving"}
    /\ day' = day + 1
    /\ UNCHANGED <<siteVars, archiveVars, run, stamps, removedDuring, overlapped>>

RunStep(r) ==
    \/ StartBackup(r) \/ Dump(r) \/ Archive(r) \/ ArchiveDone(r) \/ SkipUploads(r) \/ Abort(r)
    \/ CountArchives(r) \/ ListSurplus(r) \/ RemoveArchive(r)

BackupsNext ==
    \/ \E k \in Picture : StorePhoto(k) \/ ShowPhoto(k) \/ ClearPhoto(k) \/ RemovePhoto(k)
    \/ \E r \in BackupRun : RunStep(r)
    \/ \E s \in Stamp : RestoreStart(s) \/ Extract(s)
    \/ \E fails \in BOOLEAN : StopApp(fails)
    \/ RestoreDone \/ RestoreFails \/ NextMorning

BackupsSpec == BackupsInit /\ [][BackupsNext]_backupVars

-----------------------------------------------------------------------------
\* Restored together, the two archives of a run lose no photo but those somebody removed
\* while the run was between them: photos stored meanwhile are extra files.
PairIsComplete ==
    \A s \in Kept("dumps") \cap Kept("uploads") :
        dumps[s].holds \ uploads[s].holds \subseteq removedDuring[s]

\* "Never prune below this many backups", and "pruning them under identical rules keeps
\* them aligned": both hold of runs one after the other, some of them stopped half-way or
\* without photos.  prune counts before it lists, and nothing excludes a second run.
RotationKeeps ==
    ~overlapped =>
        /\ \A f \in ArchiveKind : Cardinality(Kept(f)) >= Min({MinKept, Cardinality(written[f])})
        /\ Kept("dumps") \cap written["uploads"] \subseteq Kept("uploads")

\* What the operator relies on to come back to a day.
BackupsInv == PairIsComplete /\ RotationKeeps
=============================================================================
