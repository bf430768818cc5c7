# SistemaElecciones: TLA+ verification project

TLA+ modules, TLC configurations and TLAPS proofs kept beside the code of an
anonymous electronic voting system: a NestJS API over PostgreSQL and Valkey
(`src/apps/api`), a browser application for voters (`src/apps/voter-web`), one
for administrators (`src/apps/admin-web`), zero-knowledge circuits and the
protocol packages (`src/packages`). The code is the reference of every
definition; `PROJECT.json` names the lines each definition stands for.

## 1. The system: parts, state, interaction

| Part | State it keeps | Operations | Talks to |
|---|---|---|---|
| elections (`modules/elections`) | row of `elections` (status, row version, configuration version, window, eligibility reference), `election_options`, `election_configuration_versions`, `election_manifests` | create, updateDraft, prepare, open, close, cancel, reopenDraft | eligibility (readiness), audit |
| eligibility (`modules/eligibility`) | `eligible_voters`, `electoral_credentials`, `eligibility_snapshots` with their members | registerVoter, importVoters, deactivateVoter, registerCredential (with rotation), revokeCredential, buildSnapshot, freezeSnapshot | elections (the row it references) |
| voting (`modules/voting`) | `accepted_votes`, `vote_proof_evidence` | cast, getReceipt; admission limits in front of it | elections (row lock), zk, audit |
| verification (`modules/verification`) | `accepted_vote_set_snapshots`, tally manifests, `election_results`, `verification_packages`, `result_publications`, files on disk | enterCounting, computeTally, generatePackage, publishResults, reads | elections, voting, audit, verification-protocol |
| audit (`modules/audit`, `drizzle/0006`, `0007`) | hash chain head and events per stream, checkpoints | append_event, create_checkpoint | called inside every other transaction |
| auth (`modules/auth`) | administrators, sessions and their generation in Valkey, login limits | login, resolve, authenticate, logout, changePassword; admin-cli reset-password, revoke-sessions | Valkey |
| zk (`modules/zk`, `packages/zk-protocol`) | none beyond loaded artefacts | verify | voting |
| verification-protocol (`packages/verification-protocol`) | none | canonical records, verifyElectionPackage | verification |
| voter-web | the page: credential, eligibility material, selection, proof, submission state, receipt | create/import credential, select, generate, cancel, submit, retry | voting, a Web Worker |
| admin-web | the list of elections, the selected one, whether an operation is under way, the panels as rendered | log in and out, create, select, the critical operations of an election | every administrative operation of the API |
| backup and restore (`infra/scripts`, `scripts/operations`, `infra/postgres`) | an archive with its metadata and digest, an archive of the package directories | db-backup, db-restore, backup-artifacts | the database and the artifact store, while the API uses both |
| http layer, configuration, health, other scripts, infrastructure | none | forms and probes | the API |

Components interact in three ways. Inside the API every operation is an async
handler of a process, of which several may run; handlers interleave at each
`await`. They share PostgreSQL at READ COMMITTED: row locks (`FOR UPDATE`),
optimistic row versions and unique indexes are all that orders them. Browsers
reach the API over HTTP, where an answer may be lost.

What is hard, by component, and what makes each correct:

* **voting**: an election is read without a lock, the proof verified outside any
  transaction, the election locked and everything checked again. Devices of one
  voter race for a nullifier; the administrator's close races the commit; an
  answer is lost and the vote retried. Correct: one vote per nullifier, each
  inside the window and of the configuration in force, a count that is exactly
  the accepted votes, and receipts that name recorded votes.
* **eligibility (the roll)**: loads, decisions and writes are apart; an import
  looks a reference up and inserts it in two statements. Correct: a person has
  one leaf and can prove it, a failed registration takes nothing away, what was
  withdrawn stays so.
* **elections and snapshots**: every request decides on a row and a list of
  options read by two statements, and commits against a row version. Correct:
  what is in force is what was frozen, frozen things never change, nobody
  commits a decision about something that is no longer there.
* **verification**: freezing, tally, generation and publication are separate
  requests, generation and publication long sequences with files in between.
  Correct: a publication happens whole or not at all, once, rests on the frozen
  vote set, tells the audit the truth, and can be taken up again after a crash.
  What the API writes passes the independent verification, and what passes it
  says what the votes were, whichever files of a package are lost or exchanged.
* **audit**: one chain per stream appended by concurrent transactions.
* **auth**: a session is read, judged and written back by every request that
  uses it, in separate calls to Valkey, while others log it out or revoke them
  all. Correct: no session outlives its absolute life or a revocation of all,
  and none is held that the audit does not know.
* **voter-web**: promises that settle after the voter did something else.
  Correct: the page is about one vote, whatever settles when.
* **backup and restore**: shell scripts that read and replace a database in use
  over several connections, and copy directories that appear meanwhile; any
  command may be the last. Correct: what is reported as a backup, or left behind
  and taken for one, is of one moment; a restore that succeeds is the backup; the
  packages a dump names have their files.
* **admin-web**: the same as voter-web, with operations that cannot be taken back. Correct:
  one operation at a time, nothing shown that was not there, and a confirmed
  operation shown as such.

The hazards, line by line and with the properties that would catch each, are
listed in `PROJECT.json` under `hazards`.

## 2. Modules and how they correspond to the code

| Module | What it is |
|---|---|
| `Lifecycle` | abstract specification of the election row: the allowed transitions and who numbers configurations |
| `BallotBox` | abstract specification of vote acceptance: one slot per nullifier, filled while the polls are open, counted as the polls left it |
| `Voting` | vote acceptance, composed with the lifecycle of the election (INSTANCE `Lifecycle`); implements `BallotBox` |
| `EligibilityTree` | operators: the Merkle tree of a roll, its paths and their verification, with a reference definition of its root |
| `EligibilityRegistry` | the electoral roll and its credentials, under several administrators; extends `EligibilityTree` |
| `Elections` | administration of one election with its eligibility snapshots; implements `Lifecycle` |
| `Results` | counting, packages, publication |
| `VotingProofs`, `ResultsProofs` | theorems about `Voting` and `Results` |
| `ElectionsProofs` | theorems about `Elections`, `EligibilityRegistry` and `EligibilityTree` |
| `MCVoting`, `MCEligibilityRegistry`, `MCElections`, `MCResults` | instances for TLC |
| `SubmissionMachine` | operators: the states of one submission and its transitions, as voter-web draws them |
| `VoterApp` | the page of a voter (INSTANCE `SubmissionMachine`), with its proof worker, its requests and the server behind them |
| `AuditLog` | abstract specification of the audit trail: a log per stream that grows at its end |
| `AuditChain` | append_event, create_checkpoint and verifyStream inside the transactions of their callers; implements `AuditLog` |
| `AdminSessions` | the administrator's sessions: Valkey, the account, the requests and admin-cli |
| `VerificationProtocol` | operators: the public evidence of an election and its verification |
| `VerificationPackage` | one package from the accepted votes to the artifact store and what becomes of its files; uses `VerificationProtocol` |
| `ImmutableStore` | abstract specification of the artifact store: a digest has nothing, or its package for good |
| `ArtifactStore` | putImmutable of several instances over one file system, inside the generatePackage that calls it; implements `ImmutableStore` |
| `Recovery` | backups, restores and artefact copies of a deployment in use; extends `ArtifactStore` |
| `AdminApp` | the page of an administrator (INSTANCE `Lifecycle`), its requests and the server behind them |
| `VoterAppProofs`, `AdminSessionsProofs`, `VerificationPackageProofs`, `AdminAppProofs` | theorems about the modules of those names |
| `EvidenceProofs` | theorems about `AuditChain` and about `Recovery` with `ArtifactStore` |
| `MCVoterApp`, `MCAuditChain`, `MCAdminSessions`, `MCVerificationPackage`, `MCAdminApp`, `MCRecovery` | their instances for TLC |

Conventions. A `pc` per handler, whose labels are the places between two
awaits; one action per stretch of code between them. A transaction whose first
statement takes the row lock of the election is one step; where the lock wait
can be observed (a statement that computes its row, clock included, before it
waits, or chooses the latest version before it waits) the statement has two
halves, its start and the grant of the lock. The checks of a handler are
set-valued: the set of errors it may answer with, empty when it passes. A
*mutant* is an operator next to the definition it alters: a plausible bug, used
to show that a property would notice it.

### Voting

`Submit` is the HTTP request; `LoadAcceptanceContext` and `VerifyProof` are
`CastVoteService.cast` before the transaction; `BeginAccept`, `LockElection`,
`InsertVote`, `InsertEvidence` and `CommitVote` are
`PostgresVoteRepository.accept`; `Reply` and `LoseReply` the answer and its
loss; `Abort` the failure of any query or of the process. `Transition` is any
UPDATE of the election row by the other components, `Tick` the database clock.
`open` of an election reads its clock before its UPDATE (`InWindow`): the window may be
over when the election is open.
The proof is data: whether it verifies is a field of the request, its public
signals are the nullifier, the option and the *version*, which stands for the
merkle root and election context of a configuration. `evidence` holds the rows of
`vote_proof_evidence`, each with the proof and the signals as they were submitted: what
`VotesAreValid` demands is that the vote committed with it is the one the proof was
verified for. That a valid proof for a
nullifier can only be made by the voter it belongs to is assumed, not modelled.

### EligibilityRegistry

A request that awaits holds a record in `request`: what it loaded, or where its
import stands. `DeactivateVoter` and `SaveDeactivation`, `RegisterCredential`
and `RegisterAndRotate`, `RevokeCredential` and `SaveRevocation` are the load
with its checks and the transaction of the three operations. `ImportVoters`
is the request once its records are checked; `UpsertUnreferenced`,
`SelectExisting`, `InsertRecord` and `UpdateRecord` are
`upsertAdministrativeRecord`. A constraint of the table is a guard
(`ReferenceIsFree`, the one row per commitment) whose failure rolls the
transaction back.

### EligibilityTree

`BuildMerkleTreeV1`, `MerkleProof` and `VerifyMerkleProofV1` are the functions of
`packages/zk-protocol/src/merkle.ts`, `MerkleRootV1` the template of the circuit
with which a voter proves membership. A field element is a number, Poseidon of two
children the pair of them. Only the nodes that have a leaf below them are computed,
as in the code; `CompleteRoot` is the tree with all its places. `Ascending` is the sort of
the leaves: the n-th of them is the one with n commitments up to it. `Listing` is what the
registry hands to `buildSnapshot`, `Artifact` and `Verify` are the tree builder of the API.
`MCEligibilityRegistry` assumes, so that TLC evaluates it, what holds of any list of
commitments: `TreesAreRight`, and `RootsAreSets`, which is why `Elections` may take the
set of members for their root. The theorem `RootsCommit` is the latter for trees of any depth.

### Elections

Credentials are here absent, eligible or withdrawn (`Register`, `Withdraw`);
`WithdrawnIsFinal` of the registry says that these are all the changes there are.
`Request` and `LoadOptions` are the two SELECTs of `findById`; `Decides` holds
the checks of the aggregate; `Assess` is the readiness verifier;
`SaveDraftChanges`, `TransitionState` and `Conflict` are the transaction that
compares the row version. `ListActive` and `CreateForElection` are
`buildSnapshot`; `FetchSnapshot` and `FreezeSnapshot` are `freezeSnapshot`. The
data of a draft is its window and its number of options; a Merkle root is the
set of the members it was computed from.

### Results

`EnterCounting` and `ComputeTally` are whole transactions; `CheckExisting`,
`CollectEvidence`, `NumberResult`, `RecordResult` are `generatePackage`;
`Select`, `BeginPublication`, `VerifyPackage`, `FailPublication`, `Reselect`,
`FinishPublication` are `publishResults`. `Corrupt` is the disk: the files of a
package stop verifying, or are restored. `Crash` ends a request at any await.

### VoterApp

JavaScript runs one callback at a time, so an action is a callback: a click, a
message of the worker, a settled fetch. `Generate` includes the cancellation of
a busy worker and the continuation of the handler that awaited it, which runs
in the same turn. `shown` holds what the last `renderFlow` rendered from;
`GenerateEnabled`, `CancelVisible`, `SubmitEnabled`, `ResetVisible` say which
buttons that page offers, which may differ from what the fields would say. A
request ends in one of four ways: the server's acceptance or refusal arrives
(`Accepted`, `Refused`), the fetch fails (`Timeout`), or what arrives is not the
server's answer (`Garbled`). The server is one ballot per credential: what
`Voting` shows of the API.

### AuditChain

`Begin` opens a transaction of any other component on a stream; `LockHead` is
the first SELECT ... FOR UPDATE of `append_event` or `create_checkpoint`, which
waits for whoever holds the head; `AppendEvent` and `CreateCheckpoint` are the
rest of the two functions; `Commit` and `Rollback` end the caller's
transaction. The number of an event is drawn from a PostgreSQL sequence, which
`Rollback` does not take back. `ReadEvents` and `ReadCheckpoints` are the two
queries of `verifyStream`. A hash is the chain of numbers and payloads that was
hashed: equal only for equal input. The row locks callers take on their
election are left out: they come before the head and only order transactions
further. Somebody who rewrites the tables outside these functions is not
modelled: the runtime role may read them and call the functions, no more (0006).

### AdminSessions

One action per call to Valkey or PostgreSQL of a handler, which is a request or a
run of admin-cli. `ReadGeneration`, `StoreSession` are `create`; `ReadSession`,
`CheckGeneration`, `Touch`, `Drop` are `resolve`; `Identify` is what
`authenticate` adds; `AuditLogin` and `RevokeQuietly` end a login or undo it.
`RevokeAll` happens twice around the new password of changePassword and
reset-password. Keys expire in `Tick`, with the time to live the code gives
them. `loggedOut` and `revokedUntil` remember what ended which session
(`RevokeAll` marks every token of the generation it ends, whether its login has stored
it already or not),
`issued` when and in which generation it began. The clock of Valkey and that of
the API are one.

### VerificationProtocol and VerificationPackage

The operators of `VerificationProtocol` carry the names of the functions of the
package; `SortedByNullifier` and the ORDER BY of `VotesSql` put each record at its rank among
all, which is what a stable sort does and can be reasoned about; the checks of `verifyElectionPackage` are one set of errors each, and
`Valid` is a report without any. A digest stands for the value it is taken of.
`VerificationPackage` is what the API does with them: `EnterCounting` freezes
the canonical vote set, `ComputeTally` compares the tally of the protocol with
the totals PostgreSQL groups (`TallyAgrees`), `WritePackage`, `RecordPackage`
and `DropPackage` are `generatePackage` once it has its evidence. The
interleavings of those requests are in `Results`, whose packages merely verify
or do not; here they run in order and the contents are what matters.
`FindSpare`, `Replace`, `LoseFile` and `Relist` are the disk: files disappear,
those of another package turn up, and the package manifest is rewritten over
what is there. `Reverified` is the check `generatePackage` makes before it answers with a package on
record and `publishResults` before it publishes one; the files `getVerificationFile` serves
to the public are read without it.

### ArtifactStore

A worker is a request whose generatePackage reaches `putImmutable`. `Look` is
the `access` of the destination, `WriteFile` one `writeFile` into the staging
directory, `Promote` the `rename`, with the second `access` of a worker whose
rename fails because the name is taken, and the `finally` clause; `Verify` and
`RecordPackage` are what the caller does with the path. `Stop` is any failure or the death of the process; a
staging directory it leaves is never read again and is dropped from the model.
A file system that loses what was written and renamed is not modelled here
(`Results` and `VerificationPackage` damage stored files).

### Recovery

One action per command of the three scripts that reads or changes something
shared. `Start` to `Report` are `db-backup.sh`: the three files must not
exist, the evidence is read, the database dumped, the dump moved to its name, the
evidence read again (`Compare`), metadata and digest written. `Cleanup` is the
EXIT trap of a run that fails, `KillBackup` an end without it. `StartRestore` to
`CheckRestored` are `db-restore.sh`; `pg_restore` is two steps, between which
the database is there without its data, and a backup or the API finds nothing
(`NoDatabase`). `StartTape`, `TapeDirectory`, `FinishTape` are
`backup-artifacts.sh`, whose `tar` visits one directory at a time. `Write` and
`Store` are the API. The state of the database is the head of its audit trail
and its packages; every transaction the evidence covers appends an event, so two
states with one head are one state. `disturbed` collects the backups that
overlapped another one of the same path, or a restore.

### AdminApp

As in `VoterApp` an action is a callback. A task is a promise under way: the
handler it belongs to (`kind`), the call it awaits (`call`), what the server
answered, and whether the panel it was started from is still on the page.
`Serve` and `Lose` are the server's answer and its loss, `Continue` what the
handler does then. `cards` and `detail` hold what was last rendered, disabled
buttons included; a click acts on that, as the page's listeners do. The server
is the sequence of statuses each election has had, which `Elsewhere` extends on
behalf of other administrators.

## 3. Runs

Two workers of TLC; every bound is a CONSTANT named in the module.

| Run | States | What it shows |
|---|---|---|
| `voting` | 1.1 M | two devices of one voter and one of another, with submissions of either option, of an option out of range and of a proof of another configuration that does not verify, two configurations: unique votes with a proof that verifies, recorded in the window and counted, answers that match the box, `BallotBox` implemented, every submission ends |
| `registry` | 837 k | two administrators, two voters, three commitments, one reference: imports, registrations, rotations, revocations and deactivations at once leave one leaf per person, and the tree of any roll so reached proves who is on it and nobody else |
| `elections` | 1.9 M | two administrators, two windows, one or two options, two configurations by reopening: what is in force is what was frozen, what was frozen never changes, decisions are about what is there, and `Lifecycle` is implemented |
| `results` | 325 k | two workers, a crash, a cancellation, damaged packages: publication is atomic, is told to the audit, and completes if it is repeated |
| `voter` | 298 k | two credentials, two options, two requests: whatever is clicked and whenever proofs and answers arrive, what is sent is what is selected, a retry repeats it, a receipt is recorded, and nothing leaves the page busy |
| `audit` | 44 k | two streams, two callers, a reader: chains never fork, checkpoints seal, verification succeeds, and `AuditLog` is implemented |
| `sessions` | 1.1 M | two handlers, each a login, a request, a logout, a password change or a run of admin-cli, with time, failures and a deactivated account: no session outlives its absolute life or a revocation of all that came after its token was made |
| `packages` | 168 k | three voters, two options, two configurations: the votes of any ballot can be counted and become a package that verifies; files are lost, exchanged with those of another package, and listed anew |
| `recovery` | 1.5 M | two instances store a package, two backups to one path, a restore and a copy of the artefacts, a write and a crash anywhere: `ImmutableStore` is implemented, backups and leftovers are of one moment, a restore that succeeds is the backup, dump and copy belong together |
| `admin` | 663 k | two promises over two elections, one of which the page creates: one operation at a time, nothing shown that was not there, a confirmed operation ends on its outcome, no page busy for good |
| `voting_retry`, `elections_manifest` | violations | findings 1 and 2 |

The type invariants and the inductive invariants (`IInv`, `RegistryInv`, `RecoveryInv`)
are theorems and not run; they hold on the instances of the runs too. The runs with a liveness property check the safety properties under the fair
specification too; fairness removes no finite behaviour, so they lose nothing by it.

**Bounds.** `MaxTime = 2` with the window [1, 2) puts the clock before, inside
and after the window of `Voting`. Two configurations are what it takes to hold a proof or
a snapshot of the wrong one. Two clients of one nullifier are every race for it, and
the second is the retry of the first when it submits the same; in `voting_retry`
one client makes both attempts. `MaxRowVersion` stops new
requests of administrators, never one under way: 5 updates are enough to
build, freeze, prepare, reopen and edit. Two workers can record at most two versions
(both must have seen none), so `MaxVersions` never binds; two corruptions
damage a package while it is being published and restore it, and after one
crash nothing but a repeated request is left to go on. Two requests of a page
are a submission and its retry, or two votes of two credentials.
`MaxSequence = 3` lets two events of one stream surround one of the other, and
a rolled-back append leave its gap between two committed ones; with 4 the run
passes too (536 k states). `idleSeconds = 1`, `absoluteSeconds = 2` and four
ticks let a session idle out, be renewed to its absolute end, and let the key of
a generation expire; two revocations are the two of one password change; one
token suffices because keys of different tokens share the generation only.
In `EligibilityRegistry` two rows are what one person may wrongly come to have,
three commitments are a first credential, its replacement and one more, and two
updates of a row outdate what a deactivation loaded. A tree of depth 3 has odd layers
at the leaves and above them when it has one or three leaves; the assumptions about
trees take lists of up to eight leaves, which fill it, and the ninth, which is too many. The nullifiers 2, 9 and 10
have different orders as numbers and as text. One rewriting of the package
manifest over exchanged files is what hides an exchange from the file digests.
In `Recovery` one event is what a dump can miss, or
what changes a database while it is read or restored; one package, stored by two workers
out of two files, is every race for a name; one crash leaves the files it leaves, since
nobody repairs them. With two events or two
restores the properties hold too on instances with one worker less or one file less (1 to 4.2 M states).
Runs of a path of their own do not meet, so two runs are all that matters of it; only that a
digest file another run left makes a run fail would take three (`Seal`).
The administrator's page starts with a CLOSED election, which others or the page
move to COUNTING; with two statuses of each election an answer can be about an
older one, and two promises are an operation and whatever is started beside it.

**Deadlock.** Checked in the runs of `VoterApp` and `AdminApp`, where somebody can
always act, and of `AuditChain`, where a transaction can always roll back. Not elsewhere: there
the bounds stop the environment (attempts, clock, requests, crashes), after
which nothing need happen; that a handler waits for ever is excluded by
`EverySubmissionEnds` and `PublicationCompletes` instead.

**Symmetry** is used over interchangeable clients, handlers, administrators, workers,
streams, callers and payloads, in runs without liveness properties only; commitments
are numbers, which a tree orders, and are not interchangeable.

**Fairness.** A handler is a promise of a running process and PostgreSQL grants
a free row lock, so each handler has weak fairness as a whole (`Progress`).
Clients, administrators, failures and the clock owe nothing, with one exception
stated in `Results!FairSpec`: that a publication completes assumes that
publishResults is repeated (strong fairness of that request), because the code
has no background job that would take a publication up again.
The page of a voter assumes that the worker ends and that every fetch settles
(the code sets no time limit, the browser does), and nothing of the voter or
the server. The page of an administrator assumes that every fetch settles and
that the handler awaiting it then goes on (`AdminApp!FairSpec`), and nothing of
the administrators.

## 4. Findings

1. **A retry after the window does not recover the receipt** (`voting_retry`,
   `RetryRecoversReceipt`). `cast` checks that the election is open before it
   looks for a recorded vote; docs/11 (505-506, 635) promises the receipt to
   whoever retries after a lost answer.
2. **The manifest of an earlier configuration may be served**
   (`elections_manifest`, `ServedManifestIsInForce`): `getManifest` does not
   filter by configuration version and nothing retires a manifest (docs/12:447).

Observations: what the models show besides, each stated in its module as a
property that does not hold where one is named (TLC refutes it when it is
added to the instance of the component's run), or that no document contradicts:

* the registration of a credential accepts any field element, `ZERO_LEAF_V1` included
  (`electoral-credential.ts:22`), which a tree refuses (`BuildErrors`): every
  `buildSnapshot` would then fail until the credential is revoked. Nobody has that
  commitment by the protocol, and `RollIsProvable` is about rolls without it;
* two backups to one path that overlap, as by the default name, which has a
  resolution of one second, may end with neither: both see that the files do not exist, and
  the one that finds the other's metadata (`wx`) fails and removes, in its trap, the
  files that were reported; a backup that overlaps a restore may carry the evidence
  of what was restored meanwhile. The properties of `Recovery` speak of the runs
  nothing overlapped (`disturbed`); docs/operations does not say that they must not overlap;
* `verify-backup.mjs` compares `JSON.stringify` of the evidence as the query orders its
  keys with that of the metadata, whose keys were sorted: it works because
  `operational-evidence.sql` happens to list them in that order;
* two generations at once record two versions of one result, against docs/13:840
  and 981-986 (`SingleLogicalVersion` in `Results`);
* the answer of a recorded vote whose body is lost, or in whose place a gateway
  answers, is shown as a rejection: only a rejected fetch counts as a network
  error, against docs/14:255 (`LostAnswerIsUnknown` in `VoterApp`);
* a request that read a session before it was logged out writes it back
  (`RevokedStaysOut` in `AdminSessions`); revocation of all is not undone this
  way, since the copy is of the old generation, and neither is that of a session whose
  login stores it after the revocation (`RevokedAreRefused`, proved);
* after a refused operation the administrator's list is read again but the
  selected election stays the old object, though the message says that the
  state was refreshed (docs/14:388, `RefusedIsRefreshed` in `AdminApp`);
* a workspace built while an operation is under way keeps the disabled buttons it
  was rendered with until a card is clicked (`ButtonsComeBack`, likewise);
* a confirmed operation is shown as an error when the list read after it fails,
  "Sesion cerrada" is shown whatever the logout answered, and a list that
  arrives late replaces a newer one;
* the manifest of finding 2 makes generatePackage fail rather than record a
  package of another configuration: `RecordedIsInForce` is proved;
* the error DUPLICATE_NULLIFIER of `verifier.ts:285` is never reported: the
  canonical encoding before it throws on such votes;
* importing a record without a reference twice makes two voters of it; with a
  reference the second import is an update;
* a credential revoked while `buildSnapshot` runs enters the snapshot, against
  docs/09:112: the list is read before the transaction, which looks at the
  election only (`WithdrawnStayOut` in `Elections`, refuted by TLC on the
  instance of `elections` as an invariant added to its cfg);
* a selection changed once a proof exists cannot be confirmed, against
  docs/14:181: nothing is rendered after the change, so the button stays
  disabled (`SelectionCanBeConfirmed` in `VoterApp`, likewise);
* the key of a generation expires as its *first* increment said, so after it the
  count may return to that of a session revoked shortly before
  (`valkey.service.ts:95`); `RevokedAreRefused` speaks of the time before;
* a login that rehashes a password overwrites one changed meanwhile
  (`admin-auth.service.ts:173-176`); stored passwords are not modelled;
* a publication has no attempt number, so a worker whose verification succeeded
  in one attempt may finish a later attempt whose own verification failed (the hazard at `verification.service.ts:844`); the directory
  verified is the same;
* once two versions of a result are on record, repeating
  publishResults is rejected instead of answered with what is published;
* the radio buttons of the ballot put any state to READY without asking the
  submission machine; an acceptance that arrives after that makes the machine
  throw, so nothing is rendered and the receipt is not shown.

## 5. Proofs

All theorems are checked by TLAPS to the last leaf, for every value of the
constants under the module's named assumption (`VotingAssumption`,
`ElectionsAssumption`, `ResultsAssumption`, `VoterAppAssumption`, `AuditChainAssumption`, `AdminSessionsAssumption`,
`AdminAppAssumption`, `RegistryAssumption` with `TreeAssumption`: finitely many
commitments, which are numbers, any positive depth, and imports without repeated references;
`RecoveryAssumption` with `ArtifactStoreAssumption`: a package has files and the values that
stand for nothing are none of the others; and the five assumptions of `VerificationPackage`: finite sets
of nullifiers, which are numbers, and of options, positive configuration
versions, two different keys, a number of relistings): the clients are any set, the bounds any numbers.

Each inductive invariant has the type invariant of its module as a conjunct, which a theorem of its
own states (`TypeCorrect`, `RegistryTypeCorrect`, `RecoveryTypeCorrect`).

Besides the invariants the proofs need two kinds of facts about data. A recursive
function is for the prover a CHOOSE, so a lemma first shows that such a function exists
(`CountsAre`, `LayersAre` and their companions). What it computes is shown by induction
over a *set* of numbers (`Induction`) or from a least counterexample (`LeastNumber`): the
library's induction theorems take an operator, which the provers cannot instantiate.
A sorted sequence is given by ranks, and that ranks run from 1 to the number of
elements without gap is a count of finite sets (`Ranks`, `RanksOf`).

**Voting** (`VotingProofs`). `IInv` strengthens the three state properties by
who holds the row lock (`LockInv`), what the transaction that holds it may rely
on (`TransactionInv`), that its proof verified (`VerifiedInv`), what its uncommitted row is (`PendingInv`) and when votes
and a frozen set can exist (`VotesInv`). `OneVotePerNullifier` alone is not
inductive: a commit keeps it only because the row was inserted under a lock
that is still held and no vote of the nullifier existed then; that is
`PendingInv` with `LockInv`. `Invariance` is `Spec => []IInv`, by one step per
action; `TypeCorrect`, `VoteUniqueness`, `VoteValidity`, `CountCompleteness`
follow (a vote is valid because the evidence committed with it is of the very request that
was verified and rechecked under the lock); `VotesSealed` is an action property, from `IInv` and the lock;
`VotingImplementsBallotBox` is the refinement: a commit is `Cast`, entering the
count is `Count`, every other step is a change of the polls or a stutter.
`AnswersCorrect` needs a second invariant on top of `IInv`: what a handler
verified is in force (`LoadedInv`), since no configuration is numbered once the polls opened.

**Elections** (`ElectionsProofs`). All four properties of the run are theorems. That
the configuration in force is what was frozen depends on what a handler carries
from its load to its commit: its row version is never above the row's, and as long as
they are equal the row and its options are what it loaded (`LoadedInv`, since every
write of either bumps the version), and what it is about to save was allowed, and prepared,
then (`DecidedInv`). Snapshots change without the row changing, when one is frozen;
`SnapshotsInv` says why that harms nobody: a draft can freeze only a snapshot of the
version it will have, so those of `ConfigurationsInv`, whose versions are lower,
are out of its reach, and what a prepare in flight found frozen is not BUILDING.
`FrozenConfigurationsStay`, `DecisionsAreCurrent` and `ElectionsImplementLifecycle`
follow step by step.

**EligibilityRegistry** (`ElectionsProofs`). That a person has one leaf at most
(`OneLeaf`) is inductive only in parts: no two rows carry one reference
(`UniqueReferences`), no voter has two active credentials (`OneActiveCredential`), and
what a request holds exists (`RequestsInv`), however old it is; together with the types
they are `RegistryInv`. Every step is one of three to the credentials, none, a `Rotation` or a `Revocation`,
and keeps the rows of the roll where they are (`RollKept`) and nobody who was
deactivated comes back (`RollFades`): `RegistryStep` says so of each action. `RotationsReplace` and
`WithdrawnStays` are action properties over these cases: the request that loaded
an active voter long ago is harmless because the row is looked at again under its lock.

**EligibilityTree** (`ElectionsProofs`). `SnapshotsAreProvable` is `RollIsProvable`
at any depth. Each layer is a list of half the nodes of the one below
(`LayersAreLists`), and the nodes outside it are those over empty places, so that the root is
that of the complete tree (`RootIsComplete`). The path of a leaf stays inside the layers
(`PathStays`) and ends at the one node of the last (`PathEnds`, where 2^depth bounds the
leaves); its hashes are the nodes it meets (`PathIsHashed`), so the leaf proves itself. From the root downwards
no other leaf can have had the same hashes (`OneStart`). With the leaves sorted
without repetition (`AscendingIs`) a listed commitment therefore proves itself at one place
and nobody else at any (`Places`). `RootsCommit` compares two trees place by place
(`SamePlaces`): one root, one set of commitments, since the reserved leaf is in neither.
All this rests on Poseidon being injective, as the model has it.

**Results** (`ResultsProofs`). `PublicationIsAtomic` is not inductive either: a
worker at "finishing" must know that its version is recorded (`WorkersInv`), a
row of one table must imply the rows of the others (`RowsInv`), and a tally
must imply a frozen set and an election past CLOSED (`CountInv`). The same
invariant gives `ResultsFromTally`, `AuditedPublication` and, as an action
property, `FinalOutcome`.

**VoterApp** (`VoterAppProofs`). That a page never holds one proof while another
is under way depends on what was rendered: a generation can start only where
the last rendering saw no proof, and every proof at hand was rendered
(`RenderedInv`). With it, and with what the server holds for what it accepted
(`RequestsInv`), `IInv` is inductive, by one lemma per kind of callback, and
gives `HeldSelection`, `SameVote`, `SingleProof`, their conjunction
`SingleVote`, and `RecordedReceipt`.

**AuditChain** (`EvidenceProofs`). One predicate, `Chain`, says of a set of
rows and a head that the rows are linked, end in the head and have distinct
numbers. It holds of the committed rows of each stream (`StreamsInv`) and of
what the holder of a head sees, its own rows above all committed ones
(`HolderInv`); that there is one holder (`LockInv`) makes the two agree at a
commit. The lemma `ChainExtends` is the append. `IntactChain` follows at once,
`BackedCheckpoints` from `CheckpointsInv`; `SealingCheckpoints` and
`SuccessfulVerification` are action properties: a commit adds rows above every
checkpoint only, and what verifyStream read once (`ReadingInv`) stays linked.
`AuditImplementsLog` is the refinement of `AuditLog`: rows of distinct numbers are
finitely many, each place in their order is taken by one row (both by injections
between finite sets, `Places`), and rows of higher numbers leave the places of the
others alone (`LogGrows`); a commit is `Extend`, every other step a stutter.

**AdminSessions** (`AdminSessionsProofs`). The properties speak of sessions at
one place, while copies of a session wander: from the store to a handler and
back. `IInv` says that every copy is of the time and generation its token was
issued in (`CopiesInv`, `HandlersInv`), that a token is issued to one login only
(`LoginsInv`), and that the generation that ended a session is larger than its
own while its key lives (`RevokedInv`). `RevokedRefused` then needs no word on
the order of the calls: whichever copy is written back or stored late, its generation is old.
The assumption idleSeconds < absoluteSeconds is the check of
`config/app-config.ts:374`.

**VerificationPackage** (`VerificationPackageProofs`). `ValidIsProved` is about any
directory whatever: from a report without errors it follows that each vote of
the package carries a proof of itself under the key of the trusted manifest,
because the binding, proof and receipt checks together speak of the same files.
`Invariance` says what the recorded digest is a digest of (`RecordedInv`) and
what a freshly written directory is (`GeneratedShape`); `RecordedForTheElection`
and `ReverifiedHoldsTheBox` follow, the latter because nothing but the recorded
digest decides which files pass that check.

The counting rests on `BoxInv`: a row is an accepted vote of its own nullifier, the
frozen set is what was in the box, and the tally is the count of it. That PostgreSQL's grouped totals agree
with the tally of the protocol (`SqlAgrees`, hence `NeverStalls`) means that a loop over the
canonical votes counts, per option, as many as there are rows: `CountsAre` is the loop,
`VotesAreOrdered` the order of the rows, `BallotVotesAre` what becomes of each on the way, its decimal text
sorted again included. `GeneratedIsVerified` runs every check of `verifyElectionPackage`
over the package the code writes (`GeneratedIsValid`). `TotalsAdd` is about
any directory that verifies, whoever wrote its votes (`FilesInv` says only that they are a
list and that the manifest has the options): totals, counted votes and public votes are one number.

**AdminApp** (`AdminAppProofs`). `OneOperation` depends on what was rendered: a
button that can be clicked was rendered when nothing was under way
(`DetailInv`). That only what was there is shown, and that a confirmed outcome
is shown, depend on what answers carry (`PromiseInv`, `AnswerInv`): rows and
lists the server once had, a list after a confirmed operation no older than its
outcome. The lemmas around `Extends` carry these facts over every growth of
the server's history.

**Recovery** (`EvidenceProofs`). The evidence of a database is compared by the head of its
audit trail; that equal heads mean equal evidence is not a definition but follows from
what the head can have done between two readings: it only rises while no restore runs
(`Between`). `RecoveryInv` therefore follows a run of db-backup.sh that
nothing overlapped from statement to statement (`AloneInv`): it is the only one
active, the files at its path are the ones it made, and each describes the
dump. `ArchiveInv` keeps that for the time after it, up to a restore in progress. Dumps are of an
earlier time (`DumpsInv`) and directories of packages are whole or absent
(`DirectoriesInv`), which together with `TapeInv`, what tar has yet to visit, gives
`TapeIsComplete` and `RowsHaveFiles`. `BackupIsOfOneMoment` and `RestoreIsSound` follow;
`StoreIsImmutable` is the refinement of `ImmutableStore` through all crashes and restores:
a rename is the one step that shows, every other one stutters (`StoreKept`).

**Only model-checked**: liveness (`EverySubmissionEnds`, `PublicationCompletes`, `NothingHangs`,
`OperationEnds`), which the prover cannot do, and the two findings, which are
refuted. Every safety property a passing run checks is a theorem. The other way round,
`HeldIsSelected` and its companions, `ResultsRestOnTally`, `HeldAreAudited`,
`VotesSealed`, `FinalOutcome`, `BackedCheckpoints`, `RecordedAreStored` and `RootsCommit` are proved
for every instance and have no run of their own.

## 6. Not modelled, and why

Cryptography (hashes, circuits, Groth16) is a perfect oracle. HTTP parsing,
configuration, logging, metrics, health probes, migrations, and the scripts of deployment
and release do not interleave with the electoral state. Of backup and restore
the invariants of `post-restore-invariants.sql` are left out, since they hold of any database
restored whole, as are the drill, a restore into a database of its own, and
`restore-artifacts.sh`, which unpacks into an empty directory. Of voter-web the forms that load an election and look up the verification of
results are left out, of admin-web the panels for provisioning and for reading
the audit trail. The admission limits of voting (Valkey counters) are not
modelled: they only refuse requests.

## 7. Plan

The order was: `Voting` with `Lifecycle` and `BallotBox` first, because a vote is
what the system is for; `Elections`, which moves the row `Voting` reads;
`Results`, which counts what `Voting` recorded; `VoterApp`, the other end of
its requests; `AuditChain`, inside every transaction; `AdminSessions`, in front of every
administrative request; `VerificationPackage`, what a count is worth to the
public; `AdminApp`, where the operations start; `EligibilityRegistry`, who may
vote; `ArtifactStore` and `Recovery`, what is left of it all after a crash. What is left:

1. That a snapshot of `Elections` is one that `EligibilityRegistry` could have listed:
   today the two meet in `WithdrawnIsFinal` and `RootsCommit`, not in one specification.
2. The composition of `Results` with `VerificationPackage`, whose packages are
   only damaged or not in the former.
3. The admission limits in front of `Voting`.
