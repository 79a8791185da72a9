------------------------------- MODULE Operations -------------------------------
(***************************************************************************)
(* What the operator and the owner do with the database as a whole:        *)
(* backups, the archive, retention and deletion, the calibration dataset,  *)
(* the start of the container.  One component moves in a behaviour, the    *)
(* others stay in one of their initial states.  The components share no    *)
(* variable, so each keeps the constants of its own.                       *)
(***************************************************************************)
EXTENDS Integers, Sequences, FiniteSets

CONSTANTS
    Moves,                                                    \* the components that move
    Process, Path, MaxRows, MaxCrashes, MaxDamages, Absent, Torn, Idle,  \* of DatabaseBackup
    MaxRequests,                                              \* of OwnerArchive
    Histories, Draft, Feedback, RetentionDays, MaxDay, MaxSessions, MaxPages,  \* of DataLifecycle
    Worker, Owner, Demo, MaxRevisions, MaxVersion,            \* of CalibrationConsent
    Action, Releases, MaxAccounts                             \* of Startup

VARIABLES
    component,                                                \* the one that moves
    live, past, stage, temporary, output, manifest, task, reported, contended, damaged, crashes,  \* of DatabaseBackup
    db, clock, asked, read, at,                               \* of OwnerArchive
    today, enabled, account, history, changed, sessions, pages,          \* of DataLifecycle
    rows, consent, version, draft, file, wishes,              \* of CalibrationConsent
    release, step, schema, catalog, user, accounts, demo, ongoing, recorded, events, states,
    failure                                                   \* of Startup

Backup == INSTANCE DatabaseBackup WITH Worker <- Process, MaxVersion <- MaxRows
Archive == INSTANCE OwnerArchive
Lifecycle == INSTANCE DataLifecycle
Consent == INSTANCE CalibrationConsent
Start == INSTANCE Startup

-----------------------------------------------------------------------------
\* What is no database, and no task, is neither.
ASSUME BackupAssumption ==
    /\ Absent # Torn /\ Absent \notin Backup!Database /\ Torn \notin Backup!Database
    /\ Idle \notin Backup!Task
    /\ MaxRows \in Nat /\ MaxCrashes \in Nat

\* An owner has rows in tables of the schema; the drafts and feedback there may be are finite, and
\* the time they are kept is a number of days.
ASSUME LifecycleAssumption ==
    /\ Histories \subseteq SUBSET Lifecycle!Table
    /\ IsFiniteSet(Draft) /\ IsFiniteSet(Feedback)
    /\ RetentionDays \in Nat

-----------------------------------------------------------------------------
backupVars == <<live, past, stage, temporary, output, manifest, task, reported, contended, damaged, crashes>>
archiveVars == <<db, clock, asked, read, at>>
lifecycleVars == <<today, enabled, account, history, changed, sessions, pages>>
consentVars == <<rows, consent, version, draft, file, wishes>>
startVars == <<release, step, schema, catalog, user, accounts, demo, ongoing, recorded, events, states, failure>>
vars == <<component, backupVars, archiveVars, lifecycleVars, consentVars, startVars>>

Init ==
    /\ component \in Moves
    /\ Backup!Init /\ Archive!Init /\ Lifecycle!Init /\ Consent!Init /\ Start!Init
    /\ component # "lifecycle" => enabled /\ history = Lifecycle!Table

Next ==
    /\ UNCHANGED component
    /\ \/ component = "backup" /\ Backup!Next
          /\ UNCHANGED <<archiveVars, lifecycleVars, consentVars, startVars>>
       \/ component = "archive" /\ Archive!Next
          /\ UNCHANGED <<backupVars, lifecycleVars, consentVars, startVars>>
       \/ component = "lifecycle" /\ Lifecycle!Next
          /\ UNCHANGED <<backupVars, archiveVars, consentVars, startVars>>
       \/ component = "consent" /\ Consent!Next
          /\ UNCHANGED <<backupVars, archiveVars, lifecycleVars, startVars>>
       \/ component = "start" /\ Start!Next
          /\ UNCHANGED <<backupVars, archiveVars, lifecycleVars, consentVars>>

Spec == Init /\ [][Next]_vars

-----------------------------------------------------------------------------
\* Whatever crashed, was damaged or ran at the same time: a backup that verifies is a database that
\* was live, and one that was reported stays good unless two processes shared its path.
BackupsAreTrue ==
    component = "backup" => Backup!TypeOK /\ Backup!VerifiedWasLive /\ Backup!ReportedStaysGood

\* An archive holds every row there was when it was asked for, and whatever a row refers to,
\* whatever is committed while it is drawn.
ArchiveIsWhole == component = "archive" => Archive!ArchiveIsWhole

\* Whatever an owner has recorded, the deletion of the account is not refused by a PROTECT key
\* and leaves no row.
DeletionIsComplete == component = "lifecycle" => Lifecycle!DeletionIsComplete

\* The consent history always verifies, and a dataset holds exactly the runs whose owner wanted
\* them in it when it was read.
ConsentIsHonoured == component = "consent" => Consent!ConsentIsHonoured

\* The server never answers from a database the release is not ready for, and no task somebody is
\* doing is replaced, wherever a start was cut short.
StartIsSafe == component = "start" => Start!StartIsSafe

\* A finished backup or sidecar is only overwritten where two processes shared its path, a rollback
\* only ends on what was live before, and retention removes exactly what the page showed as old.
NothingIsLostUnseen ==
    /\ Backup!OverwrittenOnlyByContention /\ Backup!ComesBackAsItWas
    /\ Lifecycle!RetentionRemovesWhatWasShown

-----------------------------------------------------------------------------
(* What the documentation says and the code does not keep. *)

\* docs/backup-and-restore.md: backup_database refuses to overwrite an existing snapshot.
SnapshotsAreKept == Backup!SnapshotsAreKept

\* docs/evidence/M6H-02: the archive holds all records; the page delivers it or says that stored
\* records failed verification.
ArchiveIsDelivered == Archive!ArchiveIsDelivered

\* canonical_import.py:457: finishing the practice makes a refused release installable.
FinishingUnblocksTheUpgrade == Start!FinishingUnblocksTheUpgrade
=============================================================================
