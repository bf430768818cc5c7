------------------------------- MODULE Recovery -------------------------------
(***************************************************************************)
(* Backups and restores of a deployment that is in use.  The API goes on   *)
(* accepting votes and recording packages while db-backup.sh reads the     *)
(* logical evidence, dumps, reads the evidence again and describes the     *)
(* dump; while backup-artifacts.sh walks the package directories; and      *)
(* while db-restore.sh replaces the database.  Nothing but the existence   *)
(* of files keeps the scripts apart, and each may fail or be killed        *)
(* between any two commands: a failed db-backup.sh removes its files, a    *)
(* killed one leaves them.                                                 *)
(*                                                                         *)
(* The history of the database is named by its last event: every           *)
(* transaction the evidence is about appends to the audit trail, whose     *)
(* head hash determines everything before it and covers the time, so that  *)
(* the events that follow a restore are like none that were appended       *)
(* before.                                                                 *)
(***************************************************************************)
EXTENDS ArtifactStore, Naturals

CONSTANTS
  Runs,         \* runs of db-backup.sh, all given one output path
  MaxEvents,    \* bound on the events ever appended
  MaxRestores,  \* bound on the runs of db-restore.sh
  MaxFaults,    \* bound on what fails or is killed
  Nothing       \* no such file

Evidences == [auditHeadDigest : Nat, verificationPackageDigest : SUBSET Digests]
Dumps == [run : Runs, head : Nat, packages : SUBSET Digests]
Metadata == [archiveSha256 : Dumps, evidence : Evidences]

ASSUME RecoveryAssumption ==
  /\ MaxEvents \in Nat /\ MaxRestores \in Nat /\ MaxFaults \in Nat
  /\ Nothing \notin Dumps /\ Nothing \notin Metadata

VARIABLES
  phase,        \* of the database: "up", "dropped", or "partial" while pg_restore runs
  head,         \* last event of the audit trail
  events,       \* events ever appended
  faults,
  \* db-backup.sh
  step,         \* where each run is
  before,       \* evidence_before
  temporary,    \* its temporary file, then the bytes it describes
  archive,      \* the output path ...
  metadata,     \* ... with .metadata.json
  sidecar,      \* ... with .sha256
  disturbed,    \* runs that overlapped another one, or a restore
  \* db-restore.sh
  restoring,    \* where it is
  source,       \* the archive pg_restore reads
  restores,
  \* backup-artifacts.sh
  taping,       \* where it is
  unread,       \* directories tar has still to visit
  tape,         \* what it has copied of each directory
  dumped        \* the archive there was when it started

database == <<phase, head, events, faults>>
backup == <<step, before, temporary, archive, metadata, sidecar, disturbed>>
restore == <<restoring, source, restores>>
artifacts == <<taping, unread, tape, dumped>>
recoveryVars == <<storeVars, database, backup, restore, artifacts>>

\* what pg_dump writes of the tables; two dumps never have the same bytes
Dump(r) == [run |-> r, head |-> head, packages |-> packages]
\* operational-evidence.sql
Evidence(state) == [auditHeadDigest |-> state.head, verificationPackageDigest |-> state.packages]
LiveEvidence == [auditHeadDigest |-> head, verificationPackageDigest |-> packages]

Active == {r \in Runs : step[r] \notin {"new", "done", "stopped"}}
Restoring == restoring \in {"dropping", "loading", "finishing", "checking"}

RecoveryTypeOK ==
  /\ StoreTypeOK
  /\ phase \in {"up", "dropped", "partial"}
  /\ head \in Nat /\ events \in Nat /\ faults \in Nat
  /\ step \in [Runs -> {"new", "reading", "dumping", "moving", "comparing", "describing",
                        "sealing", "reporting", "done", "stopped"}]
  /\ before \in [Runs -> Evidences \cup {Nothing}]
  /\ temporary \in [Runs -> Dumps \cup {Nothing}]
  /\ archive \in Dumps \cup {Nothing} /\ sidecar \in Dumps \cup {Nothing}
  /\ metadata \in Metadata \cup {Nothing}
  /\ disturbed \subseteq Runs
  /\ restoring \in {"idle", "dropping", "loading", "finishing", "checking", "restored", "failed"}
  /\ source \in Dumps \cup {Nothing} /\ restores \in Nat
  /\ taping \in {"new", "walking", "done", "stopped"}
  /\ unread \subseteq Digests /\ dumped \in Dumps \cup {Nothing}
  /\ tape \in [Digests -> (SUBSET Files) \cup {NoDirectory}]

RecoveryInit ==
  /\ StoreInit
  /\ phase = "up" /\ head = 0 /\ events = 0 /\ faults = 0
  /\ step = [r \in Runs |-> "new"]
  /\ before = [r \in Runs |-> Nothing]
  /\ temporary = [r \in Runs |-> Nothing]
  /\ archive = Nothing /\ metadata = Nothing /\ sidecar = Nothing
  /\ disturbed = {}
  /\ restoring = "idle" /\ source = Nothing /\ restores = 0
  /\ taping = "new" /\ unread = {} /\ dumped = Nothing
  /\ tape = [d \in Digests |-> NoDirectory]

\* something outside the program's control goes wrong
Fault ==
  /\ faults < MaxFaults
  /\ faults' = faults + 1
  /\ UNCHANGED <<phase, head, events>>
-----------------------------------------------------------------------------
\* The API, connected to the database.

Transact ==
  /\ phase = "up" /\ events < MaxEvents
  /\ events' = events + 1 /\ head' = events + 1
  /\ UNCHANGED <<phase, faults>>

\* a vote, a transition, any audited operation
Write ==
  /\ Transact
  /\ UNCHANGED <<storeVars, backup, restore, artifacts>>

Store ==
  \E w \in Workers :
    \/ /\ \/ \E d \in Digests : Generate(w, d)
          \/ Look(w) \/ WriteFile(w) \/ Promote(w) \/ Verify(w)
       /\ UNCHANGED <<database, backup, restore, artifacts>>
    \/ /\ Stop(w)
       /\ \/ Fault
          \/ pc[w] = "recording" /\ (phase # "up" \/ packages # {}) /\ UNCHANGED database
       /\ UNCHANGED <<backup, restore, artifacts>>
    \/ /\ RecordPackage(w) /\ Transact
       /\ UNCHANGED <<backup, restore, artifacts>>
-----------------------------------------------------------------------------
\* db-backup.sh.

others == <<storeVars, restore, artifacts>>

At(r, from, to) == step[r] = from /\ step' = [step EXCEPT ![r] = to]

\* the run is over, with its variables and its temporary file
Exit(r, outcome) ==
  /\ step' = [step EXCEPT ![r] = outcome]
  /\ before' = [before EXCEPT ![r] = Nothing]
  /\ temporary' = [temporary EXCEPT ![r] = Nothing]
  /\ UNCHANGED disturbed

\* the EXIT trap of a run that fails removes the three files, whoever wrote them
Cleanup(r) ==
  /\ Exit(r, "stopped")
  /\ archive' = Nothing /\ metadata' = Nothing /\ sidecar' = Nothing

\* none of the three files exists
Start(r) ==
  /\ At(r, "new", "reading")
  /\ archive = Nothing /\ metadata = Nothing /\ sidecar = Nothing
  /\ disturbed' = IF Active # {} \/ Restoring
                  THEN disturbed \cup Active \cup {r} ELSE disturbed
  /\ UNCHANGED <<database, before, temporary, archive, metadata, sidecar, others>>

ReadEvidence(r) ==
  /\ At(r, "reading", "dumping") /\ phase = "up"
  /\ before' = [before EXCEPT ![r] = LiveEvidence]
  /\ UNCHANGED <<database, temporary, archive, metadata, sidecar, disturbed, others>>

\* pg_dump reads one snapshot; pg_restore --list accepts the archive
PgDump(r) ==
  /\ At(r, "dumping", "moving") /\ phase = "up"
  /\ temporary' = [temporary EXCEPT ![r] = Dump(r)]
  /\ UNCHANGED <<database, before, archive, metadata, sidecar, disturbed, others>>

\* psql or pg_dump finds no database, or one without the tables
NoDatabase(r) ==
  /\ step[r] \in {"reading", "dumping", "comparing"} /\ phase # "up"
  /\ Cleanup(r)
  /\ UNCHANGED <<database, others>>

\* mv over whatever has that name now
Move(r) ==
  /\ At(r, "moving", "comparing")
  /\ archive' = temporary[r]
  /\ temporary' = [temporary EXCEPT ![r] = Nothing]
  /\ UNCHANGED <<database, before, metadata, sidecar, disturbed, others>>

\* Mutant of Compare: the evidence is not read again.
CompareNothing(r) ==
  /\ At(r, "comparing", "describing")
  /\ UNCHANGED <<database, before, temporary, archive, metadata, sidecar, disturbed, others>>

\* the evidence is read again and must not have changed
Compare(r) ==
  /\ step[r] = "comparing" /\ phase = "up"
  /\ \/ /\ LiveEvidence = before[r]
        /\ At(r, "comparing", "describing")
        /\ UNCHANGED <<before, temporary, archive, metadata, sidecar, disturbed>>
     \/ LiveEvidence # before[r] /\ Cleanup(r)
  /\ UNCHANGED <<database, others>>

\* backup-metadata.mjs reads the archive and writes its description, flag `wx'
Describe(r) ==
  /\ step[r] = "describing"
  /\ \/ /\ archive # Nothing /\ metadata = Nothing
        /\ At(r, "describing", "sealing")
        /\ temporary' = [temporary EXCEPT ![r] = archive]
        /\ metadata' = [archiveSha256 |-> archive, evidence |-> before[r]]
        /\ UNCHANGED <<before, archive, sidecar, disturbed>>
     \/ (archive = Nothing \/ metadata # Nothing) /\ Cleanup(r)
  /\ UNCHANGED <<database, others>>

\* ... and the digest it computed next to it; one that another run left there in
\* between takes three runs
Seal(r) ==
  /\ step[r] = "sealing"
  /\ \/ /\ sidecar = Nothing
        /\ At(r, "sealing", "reporting")
        /\ sidecar' = temporary[r]
        /\ UNCHANGED <<before, temporary, archive, metadata, disturbed>>
     \/ sidecar # Nothing /\ Cleanup(r)
  /\ UNCHANGED <<database, others>>

\* backup_complete=true: `Backup created'
Report(r) ==
  /\ step[r] = "reporting"
  /\ Exit(r, "done")
  /\ UNCHANGED <<database, archive, metadata, sidecar, others>>

\* any command fails
FailBackup(r) ==
  /\ r \in Active /\ Fault
  /\ Cleanup(r)
  /\ UNCHANGED others

\* SIGKILL or power loss: the files stay
KillBackup(r) ==
  /\ r \in Active /\ Fault
  /\ Exit(r, "stopped")
  /\ UNCHANGED <<archive, metadata, sidecar, others>>

DbBackup ==
  \E r \in Runs :
    \/ Start(r) \/ ReadEvidence(r) \/ PgDump(r) \/ NoDatabase(r) \/ Move(r) \/ Compare(r)
    \/ Describe(r) \/ Seal(r) \/ Report(r) \/ FailBackup(r) \/ KillBackup(r)
-----------------------------------------------------------------------------
\* db-restore.sh.

\* verify-backup.mjs without evidence
Verified ==
  /\ archive # Nothing /\ metadata # Nothing /\ sidecar # Nothing
  /\ metadata.archiveSha256 = archive /\ sidecar = archive

\* the archive verifies, pg_restore --list reads it
StartRestore ==
  /\ ~Restoring /\ restores < MaxRestores
  /\ Verified
  /\ restoring' = "dropping" /\ restores' = restores + 1
  /\ disturbed' = disturbed \cup Active
  /\ UNCHANGED <<storeVars, database, step, before, temporary, archive, metadata, sidecar,
                 source, artifacts>>

\* DROP DATABASE IF EXISTS ... WITH (FORCE), which ends the sessions of the API, CREATE
DropDatabase ==
  /\ restoring = "dropping"
  /\ phase' = "dropped" /\ head' = 0 /\ packages' = {}
  /\ restoring' = "loading"
  /\ UNCHANGED <<directory, worker, events, faults, backup, source, restores, artifacts>>

\* the script is over, with what it did so far
EndRestore(outcome) ==
  /\ restoring' = outcome
  /\ source' = Nothing
  /\ UNCHANGED restores

\* pg_restore opens the archive and begins; the runtime user has no rights yet
StartLoad ==
  /\ restoring = "loading"
  /\ \/ /\ archive # Nothing
        /\ source' = archive
        /\ phase' = "partial"
        /\ restoring' = "finishing"
        /\ UNCHANGED restores
     \/ archive = Nothing /\ EndRestore("failed") /\ UNCHANGED phase
  /\ UNCHANGED <<storeVars, head, events, faults, backup, artifacts>>

\* data, constraints, triggers, then the rights of the runtime user
FinishLoad ==
  /\ restoring = "finishing"
  /\ phase' = "up" /\ head' = source.head /\ packages' = source.packages
  /\ restoring' = "checking"
  /\ UNCHANGED <<directory, worker, events, faults, backup, source, restores, artifacts>>

\* Mutant of Restored: the evidence is not compared.
RestoredDigest == Verified

\* what the script checks last: the runtime user connects, the invariants hold, and
\* verify-backup.mjs again, with the evidence of the restored database
Restored == Verified /\ metadata.evidence = LiveEvidence

\* `Database restored', or a failure
CheckRestored ==
  /\ restoring = "checking"
  /\ EndRestore(IF Restored THEN "restored" ELSE "failed")
  /\ UNCHANGED <<storeVars, database, backup, artifacts>>

\* a command fails or the script is killed
StopRestore ==
  /\ Restoring /\ Fault
  /\ EndRestore("failed")
  /\ UNCHANGED <<storeVars, backup, artifacts>>

DbRestore == StartRestore \/ DropDatabase \/ StartLoad \/ FinishLoad \/ CheckRestored \/ StopRestore
-----------------------------------------------------------------------------
\* backup-artifacts.sh.

\* the output does not exist; tar lists the directories.  Operators run it for a
\* backup of the database that is there.
StartTape ==
  /\ taping = "new" /\ archive # Nothing
  /\ taping' = "walking" /\ unread' = Stored /\ dumped' = archive
  /\ UNCHANGED <<storeVars, database, backup, restore, tape>>

\* tar copies one directory
TapeDirectory(d) ==
  /\ taping = "walking" /\ d \in unread
  /\ tape' = [tape EXCEPT ![d] = directory[d]]
  /\ unread' = unread \ {d}
  /\ UNCHANGED <<storeVars, database, backup, restore, taping, dumped>>

\* metadata and digest of the archive; nothing changes it from now on
FinishTape ==
  /\ taping = "walking" /\ unread = {}
  /\ taping' = "done"
  /\ UNCHANGED <<storeVars, database, backup, restore, unread, tape, dumped>>

\* tar fails, as when a staging directory it listed is gone, or is killed
StopTape ==
  /\ taping = "walking" /\ Fault
  /\ taping' = "stopped"
  /\ UNCHANGED <<storeVars, backup, restore, unread, tape, dumped>>

BackupArtifacts == StartTape \/ (\E d \in Digests : TapeDirectory(d)) \/ FinishTape \/ StopTape

RecoveryNext == Write \/ Store \/ DbBackup \/ DbRestore \/ BackupArtifacts

RecoverySpec == RecoveryInit /\ [][RecoveryNext]_recoveryVars
-----------------------------------------------------------------------------
\* Properties.

\* A backup that was reported, and that no other run of the same output path and no
\* restore overlapped, is there with the metadata and the digest of its own dump, and
\* the evidence recorded is the evidence of the dump, although the evidence and the
\* dump were read by three connections while the API went on.
ReportedIsSound ==
  \A r \in Runs \ disturbed : step[r] = "done" =>
    Verified /\ archive.run = r /\ metadata.evidence = Evidence(archive)

\* Files that a killed run left behind never verify unless they are such a backup.
LeftoversAreSound ==
  Verified /\ archive.run \notin disturbed => metadata.evidence = Evidence(archive)

\* A backup is there when one is reported, and what verifies is a backup: db-backup.sh
\* compares, describes and seals before it says so.
BackupsAreSound == ReportedIsSound /\ LeftoversAreSound

\* A restore that reports success, of an archive whose run nothing overlapped, leaves
\* the database that was dumped: the archive at the path is still the one it loaded,
\* and no write of the API since went unnoticed.
RestoreIsTheBackup ==
  [][Restoring /\ restoring' = "restored" /\ archive.run \notin disturbed =>
       source = archive /\ LiveEvidence = Evidence(archive)]_recoveryVars

\* The packages a dump names are on a tape that was started after that dump, file
\* by file: what is restored from the two has the files of every row.
TapeCompletesTheDump ==
  taping = "done" /\ dumped # Nothing => \A d \in dumped.packages : tape[d] = Files
-----------------------------------------------------------------------------
\* The inductive invariant behind the properties.

\* What a worker has on disk when, and that a directory is never there in part.
DirectoriesInv ==
  /\ \A d \in Digests : directory[d] \in {NoDirectory, Files}
  /\ \A w \in Workers :
       /\ pc[w] # "idle" => digest[w] \in Digests
       /\ pc[w] = "writing" => staging[w] \in SUBSET Files
       /\ pc[w] = "promoting" => staging[w] = Files
       /\ pc[w] = "recording" => digest[w] \in Whole

\* A dump, wherever it is kept, is of an earlier time: no later than the last event, and
\* with packages that were stored then, hence still are.
Earlier(x) == x.head <= events /\ x.packages \subseteq Whole

DumpsInv ==
  /\ head <= events
  /\ \A x \in {archive, source, dumped} \cup {temporary[r] : r \in Runs} :
       x # Nothing => Earlier(x)

\* What tar has not copied of the dump's packages it will still visit.
TapeInv ==
  taping \in {"walking", "done"} /\ dumped # Nothing =>
    \A d \in dumped.packages : tape[d] = Files \/ (taping = "walking" /\ d \in unread)

\* Variables of the scripts that are read later are set.
ScriptsInv ==
  /\ \A r \in Runs :
       /\ step[r] \in {"dumping", "moving", "comparing", "describing"} => before[r] \in Evidences
       /\ step[r] = "moving" => temporary[r] \in Dumps /\ temporary[r].run = r
  /\ restoring = "finishing" => source \in Dumps

\* No event was appended between two moments when they have one last event.
Between(evidence, x) ==
  /\ evidence.auditHeadDigest <= x.head /\ x.head <= head
  /\ evidence.auditHeadDigest = x.head => evidence = Evidence(x)

NoFiles == archive = Nothing /\ metadata = Nothing /\ sidecar = Nothing
DescriptionOf(x) == [archiveSha256 |-> x, evidence |-> Evidence(x)]
Describes(x) == metadata = DescriptionOf(x)
Kept(r) == archive # Nothing /\ archive.run = r

\* A run that nothing overlaps is alone with its files.
AloneInv(r) ==
  /\ Active = {r} /\ ~Restoring
  /\ step[r] \in {"reading", "dumping", "moving"} => NoFiles
  /\ step[r] = "dumping" =>
       /\ before[r].auditHeadDigest <= head
       /\ before[r].auditHeadDigest = head => before[r] = LiveEvidence
  /\ step[r] = "moving" => Between(before[r], temporary[r])
  /\ step[r] \in {"comparing", "describing"} =>
       Kept(r) /\ metadata = Nothing /\ sidecar = Nothing
  /\ step[r] = "comparing" => Between(before[r], archive)
  /\ step[r] = "describing" => before[r] = Evidence(archive)
  /\ step[r] = "sealing" =>
       Kept(r) /\ temporary[r] = archive /\ Describes(archive) /\ sidecar = Nothing
  /\ step[r] = "reporting" => Kept(r) /\ Describes(archive) /\ sidecar = archive

RunsInv ==
  /\ \A r \in Active \ disturbed : AloneInv(r)
  /\ \A r \in Runs \ disturbed :
       step[r] = "done" => Kept(r) /\ Describes(archive) /\ sidecar = archive

\* The archive of such a run: nobody else is there to touch it until it is removed.
ArchiveInv ==
  archive # Nothing /\ archive.run \notin disturbed =>
    /\ Active \subseteq {archive.run}
    /\ metadata = Nothing \/ Describes(archive)
    /\ restoring \in {"finishing", "checking"} => source = archive

RecoveryInv ==
  /\ RecoveryTypeOK /\ DirectoriesInv /\ RecordedAreStored /\ DumpsInv /\ TapeInv
  /\ ScriptsInv /\ RunsInv /\ ArchiveInv
=============================================================================
