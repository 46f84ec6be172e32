------------------------------- MODULE Backups -------------------------------
(***************************************************************************)
(* Backups of a company, their placement elsewhere, the bookkeeping lock   *)
(* and restores (src/core/system-backups.ts, backup-governance.ts,         *)
(* system-restore.ts).  A backup is a directory filled in steps: the       *)
(* database snapshot under the write lock, the files copied after it, the  *)
(* manifest last.  Other processes ingest documents and import bank lines  *)
(* meanwhile, and any process may stop between two of its steps.  A restore*)
(* builds a company in a staging directory and renames it into the target. *)
(* Bytes are named by what they hold: hashes and signatures verify.        *)
(***************************************************************************)
EXTENDS Integers, FiniteSets

CONSTANTS
  Documents,     \* documents that may be ingested
  BankLines,     \* bank lines that may be imported
  BookingDate,   \* the booking date of each bank line
  BackupWeek,    \* BACKUP_INTERVAL_MS
  Grace,         \* the lock's graceDays
  Destinations,  \* registered places for archives, with their attestations
  Restorers,     \* processes that restore
  MaxTime        \* bound on the clock

ASSUME BackupsAssumption ==
  /\ Documents \cap BankLines = {}
  /\ BackupWeek \in Nat /\ Grace \in Nat /\ MaxTime \in Nat \ {0}
  /\ BookingDate \in [BankLines -> Nat]

VARIABLES
  now,            \* the clock
  originals,      \* documents whose file is in documents/originals
  rows,           \* documents and bank lines in the ledger, with their time
  backups,        \* the backup directories, named by createdAt
  backupJob,      \* the backup in progress
  enforced,       \* backup-lock.json
  offsite,        \* the archives each destination holds, by backup
  placements,     \* backup-destinations.json: recorded placements
  restoreTarget,  \* the directory a company is restored into
  restores        \* each restoring process with its staging directory

backupsVars == <<now, originals, rows, backups, backupJob, enforced, offsite,
                 placements, restoreTarget, restores>>

Nothing == [pc |-> "none"]

(* listBackupManifests: a directory without a manifest is not a backup.     *)
Listed == {b \in backups : b.manifest}

Latest == {b \in Listed : \A o \in Listed : o.createdAt =< b.createdAt}

(* latestActivityTimestamps: the insert time of a document, the booking     *)
(* date of a bank line.                                                     *)
Moment(r) == IF r.item \in BankLines THEN BookingDate[r.item] ELSE r.at

(* hasActivitySinceBackup.                                                  *)
ActivitySince(b) == \E r \in rows : Moment(r) > b.createdAt

(* evaluateBackupLock, with the deadline of a company that never took a     *)
(* backup counted from its first activity.                                  *)
Locked ==
  /\ enforced
  /\ \/ /\ Listed = {}
        /\ \E r \in rows : now >= Moment(r) + BackupWeek + Grace
     \/ \E b \in Latest :
          /\ ActivitySince(b)
          /\ now - b.createdAt > BackupWeek
          /\ now >= b.createdAt + BackupWeek + Grace

-----------------------------------------------------------------------------
(* Bookkeeping.  The file of a document is published before its row is      *)
(* inserted; both mutations are behind the lock.                            *)

PublishFile(d) ==
  /\ ~Locked
  /\ d \notin originals
  /\ originals' = originals \union {d}
  /\ UNCHANGED <<now, rows, backups, backupJob, enforced, offsite, placements,
                 restoreTarget, restores>>

InsertDocument(d) ==
  /\ d \in originals
  /\ \A r \in rows : r.item # d
  /\ rows' = rows \union {[item |-> d, at |-> now]}
  /\ UNCHANGED <<now, originals, backups, backupJob, enforced, offsite,
                 placements, restoreTarget, restores>>

ImportLine(l) ==
  /\ ~Locked
  /\ BookingDate[l] =< now
  /\ \A r \in rows : r.item # l
  /\ rows' = rows \union {[item |-> l, at |-> now]}
  /\ UNCHANGED <<now, originals, backups, backupJob, enforced, offsite,
                 placements, restoreTarget, restores>>

ConfigureLock ==
  /\ enforced' = ~enforced
  /\ UNCHANGED <<now, originals, rows, backups, backupJob, offsite, placements,
                 restoreTarget, restores>>

Tick ==
  /\ now < MaxTime
  /\ now' = now + 1
  /\ UNCHANGED <<originals, rows, backups, backupJob, enforced, offsite,
                 placements, restoreTarget, restores>>

-----------------------------------------------------------------------------
(* createSystemBackup.                                                      *)

Job(b) == backupJob' = b

(* The directory must be new; a directory an earlier attempt left behind    *)
(* refuses the same createdAt.                                              *)
StartBackup ==
  /\ backupJob = Nothing
  /\ \A b \in backups : b.createdAt # now
  /\ backups' = backups \union
       {[createdAt |-> now, rows |-> {}, files |-> {}, manifest |-> FALSE]}
  /\ Job([pc |-> "snapshot", createdAt |-> now, rows |-> {}, files |-> {}])
  /\ UNCHANGED <<now, originals, rows, enforced, offsite, placements,
                 restoreTarget, restores>>

(* buildLockedSnapshot: VACUUM INTO while this process holds the write lock.*)
Snapshot ==
  /\ backupJob.pc = "snapshot"
  /\ Job([backupJob EXCEPT !.pc = "copy", !.rows = rows])
  /\ UNCHANGED <<now, originals, rows, backups, enforced, offsite, placements,
                 restoreTarget, restores>>

(* A mutant of CopyFiles: the files are copied before the snapshot is taken.*)
CopyFilesFirst ==
  /\ backupJob.pc \in {"snapshot", "copy"}
  /\ IF backupJob.pc = "snapshot"
       THEN Job([backupJob EXCEPT !.files = originals])
       ELSE Job([backupJob EXCEPT !.pc = "manifest"])
  /\ UNCHANGED <<now, originals, rows, backups, enforced, offsite, placements,
                 restoreTarget, restores>>

(* copyDirWithManifest, after the lock is released.                         *)
CopyFiles ==
  /\ backupJob.pc = "copy"
  /\ Job([backupJob EXCEPT !.pc = "manifest", !.files = originals])
  /\ UNCHANGED <<now, originals, rows, backups, enforced, offsite, placements,
                 restoreTarget, restores>>

(* The signatures are durable before the manifest is renamed into place.    *)
PromoteManifest ==
  /\ backupJob.pc = "manifest"
  /\ backups' = {IF b.createdAt = backupJob.createdAt
                   THEN [b EXCEPT !.rows = backupJob.rows, !.files = backupJob.files,
                                  !.manifest = TRUE]
                   ELSE b : b \in backups}
  /\ Job(Nothing)
  /\ UNCHANGED <<now, originals, rows, enforced, offsite, placements,
                 restoreTarget, restores>>

(* The process stops; what it wrote stays, without a manifest.              *)
CrashBackup ==
  /\ backupJob # Nothing
  /\ Job(Nothing)
  /\ UNCHANGED <<now, originals, rows, backups, enforced, offsite, placements,
                 restoreTarget, restores>>

-----------------------------------------------------------------------------
(* Placement of archives.                                                   *)

Record(d, b, sha, verified) ==
  placements' = placements \union
    {[at |-> d, backup |-> b, sha |-> sha, verified |-> verified]}

(* packBackupArchive and placeBackupArchive into a local or synced folder:  *)
(* the copy is read again before the placement is recorded.                 *)
PlaceArchive(d, b) ==
  /\ b \in Listed
  /\ offsite' = [offsite EXCEPT ![d] = @ \union {b.createdAt}]
  /\ Record(d, b.createdAt, b.createdAt, TRUE)
  /\ UNCHANGED <<now, originals, rows, backups, backupJob, enforced, restoreTarget,
                 restores>>

(* confirmBackupPlacement: the caller names the backup and the digest of an *)
(* archive.  A readable folder that holds some archive must hold that one;  *)
(* otherwise the placement is recorded as declared.                         *)
ConfirmPlacement(d, b, sha) ==
  /\ sha \in {l.createdAt : l \in Listed}
  /\ \/ sha \in offsite[d] /\ Record(d, b, sha, TRUE)
     \/ offsite[d] = {} /\ Record(d, b, sha, FALSE)
  /\ UNCHANGED <<now, originals, rows, backups, backupJob, enforced, offsite,
                 restoreTarget, restores>>

(* getBackupGovernanceStatus: the latest backup has a verified placement.   *)
PlacedOffsite ==
  \E b \in Latest : \E p \in placements : p.backup = b.createdAt /\ p.verified

-----------------------------------------------------------------------------
(* restoreFromBackupDir.                                                    *)

Restore(r, s) == restores' = [restores EXCEPT ![r] = s]

HoldsLedger == restoreTarget.kind = "company"

(* The manifest, the signatures and every file verify, and the target holds *)
(* no ledger; the staging directory is named at random.                     *)
BeginRestore(r, b) ==
  /\ restores[r] = Nothing
  /\ b \in Listed
  /\ ~HoldsLedger
  /\ Restore(r, [pc |-> "staging", backup |-> b, rows |-> {}, files |-> {}])
  /\ UNCHANGED <<now, originals, rows, backups, backupJob, enforced, offsite,
                 placements, restoreTarget>>

(* The snapshot and the files are copied; the image is migrated, validated  *)
(* and stamped in memory, and written to staging.                           *)
BuildStaging(r) ==
  /\ restores[r].pc = "staging"
  /\ Restore(r, [restores[r] EXCEPT !.pc = "built", !.rows = restores[r].backup.rows,
                                    !.files = restores[r].backup.files])
  /\ UNCHANGED <<now, originals, rows, backups, backupJob, enforced, offsite,
                 placements, restoreTarget>>

(* The target is examined again: a ledger there ends the restore, so do     *)
(* files unless the caller allowed it (allowed).                            *)
Recheck(r, allowed) ==
  /\ restores[r].pc = "built"
  /\ IF HoldsLedger \/ (restoreTarget.kind = "files" /\ ~allowed)
       THEN Restore(r, Nothing)
       ELSE Restore(r, [restores[r] EXCEPT
              !.pc = IF restoreTarget.kind = "absent" THEN "rename" ELSE "remove"])
  /\ UNCHANGED <<now, originals, rows, backups, backupJob, enforced, offsite,
                 placements, restoreTarget>>

(* removePathWithRetry(target).                                             *)
RemoveTarget(r) ==
  /\ restores[r].pc = "remove"
  /\ restoreTarget' = [kind |-> "absent"]
  /\ Restore(r, [restores[r] EXCEPT !.pc = "rename"])
  /\ UNCHANGED <<now, originals, rows, backups, backupJob, enforced, offsite,
                 placements>>

(* A mutant of RenameStaging: the company is built in the target itself.    *)
RenameEarly(r) ==
  /\ restores[r].pc \in {"staging", "rename"}
  /\ IF restoreTarget.kind \in {"absent", "empty"}
       THEN restoreTarget' = [kind |-> "company", rows |-> restores[r].backup.rows,
                       files |-> restores[r].files]
       ELSE UNCHANGED restoreTarget
  /\ Restore(r, Nothing)
  /\ UNCHANGED <<now, originals, rows, backups, backupJob, enforced, offsite,
                 placements>>

(* rename(2) lands on nothing or on an empty directory; otherwise it fails  *)
(* and the staging directory is removed.                                    *)
RenameStaging(r) ==
  /\ restores[r].pc = "rename"
  /\ IF restoreTarget.kind \in {"absent", "empty"}
       THEN restoreTarget' = [kind |-> "company", rows |-> restores[r].rows,
                       files |-> restores[r].files]
       ELSE UNCHANGED restoreTarget
  /\ Restore(r, Nothing)
  /\ UNCHANGED <<now, originals, rows, backups, backupJob, enforced, offsite,
                 placements>>

(* The restore fails or its process stops; the target is as it was left.    *)
AbandonRestore(r) ==
  /\ restores[r] # Nothing
  /\ Restore(r, Nothing)
  /\ UNCHANGED <<now, originals, rows, backups, backupJob, enforced, offsite,
                 placements, restoreTarget>>

(* Somebody makes the directory, or puts files of their own there.          *)
UseTarget ==
  /\ \/ restoreTarget.kind = "absent" /\ restoreTarget' = [kind |-> "empty"]
     \/ restoreTarget.kind = "empty" /\ restoreTarget' = [kind |-> "files"]
  /\ UNCHANGED <<now, originals, rows, backups, backupJob, enforced, offsite,
                 placements, restores>>

-----------------------------------------------------------------------------
BackupsInit ==
  /\ now = 1
  /\ originals = {} /\ rows = {} /\ backups = {} /\ backupJob = Nothing
  /\ enforced = FALSE
  /\ offsite = [d \in Destinations |-> {}] /\ placements = {}
  /\ restoreTarget = [kind |-> "absent"]
  /\ restores = [r \in Restorers |-> Nothing]

BackupsNext ==
  \/ \E d \in Documents : PublishFile(d) \/ InsertDocument(d)
  \/ \E l \in BankLines : ImportLine(l)
  \/ ConfigureLock \/ Tick
  \/ StartBackup \/ Snapshot \/ CopyFiles \/ PromoteManifest \/ CrashBackup
  \/ \E d \in Destinations :
       \/ \E b \in Listed : PlaceArchive(d, b)
       \/ \E b, s \in Listed : ConfirmPlacement(d, b.createdAt, s.createdAt)
  \/ \E r \in Restorers :
       \/ \E b \in Listed : BeginRestore(r, b)
       \/ BuildStaging(r) \/ RemoveTarget(r) \/ RenameStaging(r)
       \/ AbandonRestore(r)
       \/ \E allowed \in BOOLEAN : Recheck(r, allowed)
  \/ UseTarget

BackupsSpec == BackupsInit /\ [][BackupsNext]_backupsVars

-----------------------------------------------------------------------------
BackupsTypeOK ==
  /\ now \in 1 .. MaxTime
  /\ originals \subseteq Documents
  /\ \A r \in rows : r.item \in Documents \union BankLines /\ r.at \in 1 .. MaxTime
  /\ \A b \in backups : b.rows \subseteq rows /\ b.files \subseteq originals
  /\ restoreTarget.kind \in {"absent", "empty", "files", "company"}
  /\ \A r \in Restorers :
       restores[r].pc \in {"none", "staging", "built", "remove", "rename"}

(* A restored company is whole: its rows are those of one finished backup   *)
(* and it has the file of every document among them, although the files     *)
(* were copied outside the snapshot's lock and a step of the backup or the  *)
(* restore may have been the last (system-backups.ts:343, :425;             *)
(* system-restore.ts:607).                                                  *)
RestoredIsWhole ==
  restoreTarget.kind = "company" =>
    /\ \E b \in Listed : b.rows = restoreTarget.rows
    /\ \A r \in restoreTarget.rows : r.item \in Documents => r.item \in restoreTarget.files

(* A placement counts as off-site evidence for the backup it is recorded    *)
(* for only if that backup's archive was read there                         *)
(* (backup-governance.ts:975).                                              *)
OffsiteIsTheBackup ==
  PlacedOffsite => \E b \in Latest : \E d \in Destinations : b.createdAt \in offsite[d]
=============================================================================
