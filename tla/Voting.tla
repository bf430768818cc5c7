------------------------------- MODULE Voting -------------------------------
(***************************************************************************)
(* Acceptance of an anonymous vote.  Every client submits a proof over     *)
(* HTTP; a handler reads the election without a lock, verifies the proof   *)
(* outside any transaction, then locks the election row, checks everything *)
(* again and inserts the vote.  Handlers of several clients, the           *)
(* administrator's transitions of the election and the clock interleave at *)
(* every await; any handler may fail at any await, and an answer may be    *)
(* lost after its vote was committed.                                      *)
(*                                                                         *)
(* PostgreSQL runs these transactions at READ COMMITTED.  A statement      *)
(* SELECT ..., clock_timestamp() ... FOR UPDATE computes its row when it   *)
(* starts, then waits for the row lock; once it has the lock it keeps the  *)
(* computed row, clock included, unless the locked row was updated in the  *)
(* meantime: then it computes the row again.  BeginAccept and LockElection *)
(* are the two halves.                                                     *)
(***************************************************************************)
EXTENDS Naturals

CONSTANTS
  Clients,             \* concurrent submitters: browsers, tabs, devices
  Nullifiers,
  NullifierOf,         \* [Clients -> Nullifiers]; one voter may use two clients
  OptionCount,         \* options of the election
  Submissions,         \* what a client may submit
  OpensAt, ClosesAt,   \* voting window [OpensAt, ClosesAt)
  MaxTime,             \* bound on the clock
  MaxConfigurations,   \* bound on how often the election is prepared
  MaxAttempts,         \* bound on the submissions of a client
  NoClient, NoVote

Encodings == 0 .. OptionCount - 1

\* A version stands for the configuration whose merkleRoot and electionContext
\* the proof was made for.
Requests == [encoding : Nat, version : Nat, proof : {"valid", "invalid"}]

\* a row of accepted_votes
Vote == [nullifier : Nullifiers, encoding : Nat, version : Nat, acceptedAt : Nat]

\* a row of vote_proof_evidence: the public signals of the vote it belongs to, and
\* whether the proof beside them verifies
Evidence == [nullifier : Nullifiers, encoding : Nat, version : Nat,
             proof : {"valid", "invalid"}]

ASSUME VotingAssumption ==
  /\ Submissions \subseteq Requests
  /\ NullifierOf \in [Clients -> Nullifiers]
  /\ NoClient \notin Clients
  /\ OptionCount \in Nat /\ OpensAt \in Nat /\ ClosesAt \in Nat
  /\ MaxTime \in Nat /\ MaxConfigurations \in Nat /\ MaxAttempts \in Nat
  /\ NoVote \notin Vote

\* voteSet while nothing is frozen; no set of votes
NotFrozen == {NoVote}

VARIABLES
  status, configurationVersion,   \* the election row, with ...
  rowVersion,                     \* ... the counter every update of it bumps
  preparedAt,    \* when the election became READY, 0 while it is not
  rowLock,       \* the client whose transaction holds the row lock
  now,           \* the database clock
  votes,         \* committed rows of accepted_votes
  evidence,      \* committed rows of vote_proof_evidence
  voteSet,       \* votes frozen by enterCounting
  pc,            \* where the handler of each client is
  request,       \* what the client submitted
  context,       \* configuration version the handler loaded
  observed,      \* [rowVersion, at]: row and clock the locking SELECT computed
  pending,       \* row inserted by the transaction, not committed yet
  answer,        \* last answer the client got, or "unknown"
  receipts,      \* receipts the client holds
  attempts       \* submissions so far

election == <<status, configurationVersion, rowVersion, preparedAt>>
database == <<votes, evidence, voteSet>>
handler  == <<request, context, observed, pending>>
client   == <<answer, receipts, attempts>>
vars == <<election, rowLock, now, database, pc, handler, client>>

L == INSTANCE Lifecycle

WindowErrors == {"ELECTION_NOT_OPEN", "ELECTION_NOT_STARTED", "ELECTION_CLOSED"}
Rejections == WindowErrors \cup
  {"VOTE_ACCEPTANCE_UNAVAILABLE", "PROOF_ROOT_MISMATCH", "INVALID_VOTE_ENCODING",
   "PROOF_VERIFICATION_FAILED", "ZK_VERIFIER_UNAVAILABLE",
   "VOTE_SUBMISSION_CONFLICT", "NULLIFIER_ALREADY_USED"}

InTransaction == {"inserting", "evidencing", "committing"}
InService == {"loading", "verifying", "accepting", "locking"} \cup InTransaction

TypeOK ==
  /\ status \in L!Status /\ configurationVersion \in Nat /\ rowVersion \in Nat
  /\ preparedAt \in Nat
  /\ rowLock \in Clients \cup {NoClient}
  /\ now \in Nat
  /\ votes \subseteq Vote
  /\ evidence \subseteq Evidence
  /\ voteSet \in (SUBSET Vote) \cup {NotFrozen}
  /\ pc \in [Clients -> InService \cup {"idle", "replying"}]
  /\ request \in [Clients -> Requests]
  /\ context \in [Clients -> Nat]
  /\ observed \in [Clients -> [rowVersion : Nat, at : Nat]]
  /\ pending \in [Clients -> Vote \cup {NoVote}]
  /\ answer \in [Clients -> Rejections \cup {"none", "unknown", "accepted"}]
  /\ receipts \in [Clients -> SUBSET Vote]
  /\ attempts \in [Clients -> Nat]

Init ==
  /\ L!Init
  /\ rowVersion = 0 /\ preparedAt = 0 /\ rowLock = NoClient /\ now = 0
  /\ votes = {} /\ evidence = {} /\ voteSet = NotFrozen
  /\ pc = [c \in Clients |-> "idle"]
  /\ request = [c \in Clients |-> [encoding |-> 0, version |-> 0, proof |-> "invalid"]]
  /\ context = [c \in Clients |-> 0]
  /\ observed = [c \in Clients |-> [rowVersion |-> 0, at |-> 0]]
  /\ pending = [c \in Clients |-> NoVote]
  /\ answer = [c \in Clients |-> "none"]
  /\ receipts = [c \in Clients |-> {}]
  /\ attempts = [c \in Clients |-> 0]

-----------------------------------------------------------------------------
\* The checks of the handler.  Each is the set of errors it may answer with:
\* empty when it passes.

\* status and half-open window, against the clock value t
AssertOpen(t) ==
  IF status # "OPEN" THEN {"ELECTION_NOT_OPEN"}
  ELSE IF t < OpensAt THEN {"ELECTION_NOT_STARTED"}
  ELSE IF t >= ClosesAt THEN {"ELECTION_CLOSED"} ELSE {}

\* contextFromRow refuses a row without a frozen configuration, and one whose
\* draft was edited after it was frozen.
ContextErrors ==
  IF configurationVersion = 0 THEN {"VOTE_ACCEPTANCE_UNAVAILABLE"}
  ELSE IF status \in {"DRAFT", "CANCELLED"}
       THEN {"VOTE_ACCEPTANCE_UNAVAILABLE", "ELECTION_NOT_OPEN"} ELSE {}

\* merkleRoot and electionContext are those of the loaded version; the option is in range
SignalErrors(r, version) ==
  IF r.version # version THEN {"PROOF_ROOT_MISMATCH"}
  ELSE IF r.encoding >= OptionCount THEN {"INVALID_VOTE_ENCODING"} ELSE {}

\* protocolVersion, electionContext, merkleRoot, nullifier and encoding
SubmissionFingerprint(v) == <<v.nullifier, v.version, v.encoding>>

Fingerprint(c) == <<NullifierOf[c], request[c].version, request[c].encoding>>

\* Mutant of Finish: the connection goes back to the pool without ROLLBACK.
FinishWithoutRollback(c, a) ==
  /\ pc' = [pc EXCEPT ![c] = "idle"]
  /\ answer' = [answer EXCEPT ![c] = a]
  /\ pending' = [pending EXCEPT ![c] = NoVote]
  /\ context' = [context EXCEPT ![c] = 0]
  /\ observed' = [observed EXCEPT ![c] = [rowVersion |-> 0, at |-> 0]]
  /\ UNCHANGED <<rowLock, request, receipts, attempts>>

\* the handler of c ends, its transaction if any is rolled back
Finish(c, a) ==
  /\ pc' = [pc EXCEPT ![c] = "idle"]
  /\ answer' = [answer EXCEPT ![c] = a]
  /\ pending' = [pending EXCEPT ![c] = NoVote]
  /\ context' = [context EXCEPT ![c] = 0]
  /\ observed' = [observed EXCEPT ![c] = [rowVersion |-> 0, at |-> 0]]
  /\ rowLock' = IF rowLock = c THEN NoClient ELSE rowLock
  /\ UNCHANGED <<request, receipts, attempts>>

Goto(c, label) == pc' = [pc EXCEPT ![c] = label]
-----------------------------------------------------------------------------
\* POST elections/:electionId/votes, for the first time or as a retry
Submit(c) ==
  /\ pc[c] = "idle" /\ attempts[c] < MaxAttempts
  /\ \E r \in Submissions : request' = [request EXCEPT ![c] = r]
  /\ attempts' = [attempts EXCEPT ![c] = @ + 1]
  /\ Goto(c, "loading")
  /\ UNCHANGED <<election, rowLock, now, database, context, observed, pending,
                 answer, receipts>>

\* loadAcceptanceContext and the checks before the proof, without a lock
LoadAcceptanceContext(c) ==
  /\ pc[c] = "loading"
  /\ LET errors == IF ContextErrors # {} THEN ContextErrors
                   ELSE IF AssertOpen(now) # {} THEN AssertOpen(now)
                   ELSE SignalErrors(request[c], configurationVersion)
     IN \/ /\ errors = {}
           /\ context' = [context EXCEPT ![c] = configurationVersion]
           /\ Goto(c, "verifying")
           /\ UNCHANGED <<rowLock, request, observed, pending, client>>
        \/ \E e \in errors : Finish(c, e)
  /\ UNCHANGED <<election, now, database>>

\* Mutant of VerifyProof: what the verifier answers is ignored.
VerifyProofUnheeded(c) ==
  /\ pc[c] = "verifying"
  /\ \/ Goto(c, "accepting") /\ UNCHANGED <<rowLock, handler, client>>
     \/ Finish(c, "ZK_VERIFIER_UNAVAILABLE")
  /\ UNCHANGED <<election, now, database>>

\* VoteProofVerifier.verify
VerifyProof(c) ==
  /\ pc[c] = "verifying"
  /\ \/ /\ request[c].proof = "valid"
        /\ Goto(c, "accepting")
        /\ UNCHANGED <<rowLock, handler, client>>
     \/ /\ request[c].proof = "invalid"
        /\ Finish(c, "PROOF_VERIFICATION_FAILED")
     \/ Finish(c, "ZK_VERIFIER_UNAVAILABLE")
  /\ UNCHANGED <<election, now, database>>

\* BEGIN, and the locking SELECT computes its row and waits
BeginAccept(c) ==
  /\ pc[c] = "accepting"
  /\ observed' = [observed EXCEPT ![c] = [rowVersion |-> rowVersion, at |-> now]]
  /\ Goto(c, "locking")
  /\ UNCHANGED <<election, rowLock, now, database, request, context, pending, client>>

\* the lock is granted: assertOpen, sameContext and the encoding check
LockElection(c) ==
  /\ pc[c] = "locking" /\ rowLock = NoClient
  /\ LET at == IF observed[c].rowVersion = rowVersion THEN observed[c].at ELSE now
         errors == IF AssertOpen(at) # {} THEN AssertOpen(at)
                   ELSE IF configurationVersion # context[c]
                        THEN {"VOTE_SUBMISSION_CONFLICT"}
                   ELSE SignalErrors(request[c], context[c])
     IN \/ /\ errors = {}
           /\ rowLock' = c
           /\ observed' = [observed EXCEPT ![c] = [rowVersion |-> rowVersion, at |-> at]]
           /\ Goto(c, "inserting")
           /\ UNCHANGED <<request, context, pending, client>>
        \/ \E e \in errors : Finish(c, e)
  /\ UNCHANGED <<election, now, database>>

\* Mutant of Existing: the unique index also has the encoded vote.
ExistingSameOption(c) ==
  {v \in votes : v.nullifier = NullifierOf[c] /\ v.encoding = request[c].encoding}

\* the row the unique index on (election_id, protocol_version, nullifier) would clash with
Existing(c) == {v \in votes : v.nullifier = NullifierOf[c]}

\* the row of accepted_votes the handler of c inserts
NewVote(c) == [nullifier |-> NullifierOf[c], encoding |-> request[c].encoding,
               version |-> context[c], acceptedAt |-> observed[c].at]

\* the row of vote_proof_evidence it inserts: proof and signals as they were submitted
NewEvidence(c) == [nullifier |-> NullifierOf[c], encoding |-> request[c].encoding,
                   version |-> request[c].version, proof |-> request[c].proof]

\* Mutant of InsertVote: a conflict returns the recorded row without comparing
\* fingerprints.
InsertVoteAnyReceipt(c) ==
  /\ pc[c] = "inserting"
  /\ IF Existing(c) = {}
     THEN /\ pending' = [pending EXCEPT ![c] = NewVote(c)]
          /\ Goto(c, "evidencing") /\ UNCHANGED rowLock
     ELSE /\ \E v \in Existing(c) : pending' = [pending EXCEPT ![c] = v]
          /\ Goto(c, "replying") /\ rowLock' = NoClient
  /\ UNCHANGED <<request, context, observed, client, election, now, database>>

\* INSERT ... ON CONFLICT (election_id, protocol_version, nullifier) DO NOTHING,
\* and on a conflict the comparison of fingerprints
InsertVote(c) ==
  /\ pc[c] = "inserting"
  /\ \/ /\ Existing(c) = {}
        /\ pending' = [pending EXCEPT ![c] = NewVote(c)]
        /\ Goto(c, "evidencing")
        /\ UNCHANGED <<rowLock, request, context, observed, client>>
     \/ \E v \in Existing(c) :
          \/ /\ SubmissionFingerprint(v) = Fingerprint(c)
             /\ pending' = [pending EXCEPT ![c] = v]
             /\ rowLock' = NoClient
             /\ Goto(c, "replying")
             /\ UNCHANGED <<request, context, observed, client>>
          \/ /\ SubmissionFingerprint(v) # Fingerprint(c)
             /\ Finish(c, "NULLIFIER_ALREADY_USED")
  /\ UNCHANGED <<election, now, database>>

\* INSERT INTO vote_proof_evidence
InsertEvidence(c) ==
  /\ pc[c] = "evidencing"
  /\ Goto(c, "committing")
  /\ UNCHANGED <<election, rowLock, now, database, handler, client>>

\* append of vote_accepted to the audit stream, COMMIT
CommitVote(c) ==
  /\ pc[c] = "committing"
  /\ votes' = votes \cup {pending[c]}
  /\ evidence' = evidence \cup {NewEvidence(c)}
  /\ rowLock' = NoClient
  /\ Goto(c, "replying")
  /\ UNCHANGED <<election, now, voteSet, handler, client>>

\* the answer reaches the client; pending[c] is its receipt
Reply(c) ==
  /\ pc[c] = "replying"
  /\ receipts' = [receipts EXCEPT ![c] = @ \cup {pending[c]}]
  /\ answer' = [answer EXCEPT ![c] = "accepted"]
  /\ pending' = [pending EXCEPT ![c] = NoVote]
  /\ context' = [context EXCEPT ![c] = 0]
  /\ observed' = [observed EXCEPT ![c] = [rowVersion |-> 0, at |-> 0]]
  /\ Goto(c, "idle")
  /\ UNCHANGED <<election, rowLock, now, database, request, attempts>>

\* The COMMIT took effect but is not acknowledged, which the handler answers as a
\* failure; or the process dies or the answer is lost.
LoseReply(c) ==
  /\ pc[c] = "replying"
  /\ \E a \in {"VOTE_ACCEPTANCE_UNAVAILABLE", "unknown"} : Finish(c, a)
  /\ UNCHANGED <<election, now, database>>

\* a query fails or the process dies before COMMIT: ROLLBACK
Abort(c) ==
  /\ pc[c] \in InService
  /\ Finish(c, "VOTE_ACCEPTANCE_UNAVAILABLE")
  /\ UNCHANGED <<election, now, database>>
-----------------------------------------------------------------------------
HasEvidence(v) == \E e \in evidence : e.nullifier = v.nullifier

\* open looked at its clock at some time since the election became READY; the window
\* may be over when its UPDATE comes.
InWindow == \E t \in preparedAt .. now : OpensAt <= t /\ t < ClosesAt

\* Mutant of Transition: it does not wait for the row lock.
TransitionUnlocked(s) ==
  /\ L!MoveTo(s)
  /\ configurationVersion' <= MaxConfigurations
  /\ s = "OPEN" => InWindow
  /\ rowVersion' = rowVersion + 1
  /\ preparedAt' = IF s = "READY" THEN now ELSE 0
  /\ voteSet' = IF s = "COUNTING"
                THEN {v \in votes : v.version = configurationVersion /\ HasEvidence(v)}
                ELSE voteSet
  /\ UNCHANGED <<rowLock, now, votes, evidence, pc, handler, client>>

\* A transition of the election: one UPDATE of its row, which waits for the
\* lock.  enterCounting freezes the votes that have evidence in its transaction.
Transition(s) ==
  /\ rowLock = NoClient
  /\ L!MoveTo(s)
  /\ configurationVersion' <= MaxConfigurations
  /\ s = "OPEN" => InWindow
  /\ rowVersion' = rowVersion + 1
  /\ preparedAt' = IF s = "READY" THEN now ELSE 0
  /\ voteSet' = IF s = "COUNTING"
                THEN {v \in votes : v.version = configurationVersion /\ HasEvidence(v)}
                ELSE voteSet
  /\ UNCHANGED <<rowLock, now, votes, evidence, pc, handler, client>>

Tick == /\ now < MaxTime
        /\ now' = now + 1
        /\ UNCHANGED <<election, rowLock, database, pc, handler, client>>

Progress(c) ==
  \/ LoadAcceptanceContext(c) \/ VerifyProof(c) \/ BeginAccept(c) \/ LockElection(c)
  \/ InsertVote(c) \/ InsertEvidence(c) \/ CommitVote(c) \/ Reply(c)

Next ==
  \/ \E c \in Clients : Submit(c) \/ Progress(c) \/ LoseReply(c) \/ Abort(c)
  \/ \E s \in L!Status : Transition(s)
  \/ Tick

Spec == Init /\ [][Next]_vars
-----------------------------------------------------------------------------
\* Properties.

\* A nullifier never has two votes: INSERT ... ON CONFLICT under the row lock,
\* for any interleaving of the handlers of one voter's clients.
OneVotePerNullifier ==
  \A v, w \in votes : v.nullifier = w.nullifier => v = w

\* Every recorded vote has, beside it, a proof that verifies for its own nullifier,
\* option and configuration; its option is one of the configuration in force, and its
\* acceptance time inside the half-open window: verified before the transaction,
\* against a row that may have changed when the vote is recorded.
VotesAreValid ==
  \A v \in votes :
    /\ \E e \in evidence :
         e.proof = "valid" /\ SubmissionFingerprint(e) = SubmissionFingerprint(v)
    /\ v.encoding \in Encodings
    /\ v.version = configurationVersion
    /\ OpensAt <= v.acceptedAt /\ v.acceptedAt < ClosesAt

\* accepted_votes only grows, and only while the election is OPEN: once a close
\* or a cancellation has won the row lock no vote commits any more.
SealedBox == [][votes \subseteq votes' /\ (votes' # votes => status = "OPEN")]_vars

\* The vote set frozen for the count is, and stays, every accepted vote.
CountIsComplete == voteSet # NotFrozen => voteSet = votes

\* what the client c was told
AnswerMatches(c) ==
  /\ \A r \in receipts[c] : r \in votes /\ r.nullifier = NullifierOf[c]
  /\ pc[c] = "idle" /\ answer[c] = "accepted" =>
       \E v \in receipts[c] : SubmissionFingerprint(v) = Fingerprint(c)
  /\ pc[c] = "idle" /\ answer[c] = "NULLIFIER_ALREADY_USED" =>
       \E v \in votes : /\ v.nullifier = NullifierOf[c]
                       /\ SubmissionFingerprint(v) # Fingerprint(c)
  /\ answer[c] # "VOTE_SUBMISSION_CONFLICT"

\* What the clients were told is what the box holds.  A client holds receipts of
\* recorded votes of its own nullifier only; when its last answer was "accepted" the
\* recorded vote is the one it submitted; and it is told that its nullifier is used
\* only when another selection is recorded for it: a retry of the recorded vote is
\* never refused that way.  Nobody is told VOTE_SUBMISSION_CONFLICT: the configuration a
\* proof was verified against is still in force when its handler gets the row lock of an
\* OPEN election, so the defensive sameContext check never fires.
AnswersMatchTheBox == \A c \in Clients : AnswerMatches(c)

\* Every submission is eventually answered, or its connection fails: no handler
\* waits forever for the row lock.
EverySubmissionEnds == \A c \in Clients : []<>(pc[c] = "idle")

\* Handlers are promises of a running process; the statement that waits for the
\* row lock runs once the lock is free.  Clients, administrators, failures and
\* the clock owe nothing.
FairSpec == Spec /\ \A c \in Clients : WF_vars(Progress(c))

\* A client that lost the answer to its recorded vote and retries it recovers the
\* receipt: what docs/11 says of a failure after the commit and before the response.
RetryRecoversReceipt ==
  [][\A c \in Clients : answer[c] = "unknown" /\ answer'[c] \in WindowErrors =>
       \A v \in votes : SubmissionFingerprint(v) # Fingerprint(c)]_vars
-----------------------------------------------------------------------------
\* The inductive invariant behind the properties: who holds the row lock, what
\* the transaction that holds it may rely on, and when votes can exist.

LockInv == \A c \in Clients : rowLock = c <=> pc[c] \in InTransaction

TransactionInv ==
  \A c \in Clients : pc[c] \in InTransaction =>
    /\ status = "OPEN"
    /\ context[c] = configurationVersion
    /\ request[c].version = configurationVersion
    /\ request[c].encoding \in Encodings
    /\ OpensAt <= observed[c].at /\ observed[c].at < ClosesAt

\* a handler that passed VerifyProof holds a proof that verifies
VerifiedInv ==
  \A c \in Clients :
    pc[c] \in {"accepting", "locking"} \cup InTransaction => request[c].proof = "valid"

PendingInv ==
  \A c \in Clients :
    /\ pc[c] \in {"evidencing", "committing"} =>
         /\ \A v \in votes : v.nullifier # NullifierOf[c]
         /\ pending[c] = NewVote(c)
    /\ pc[c] = "replying" =>
         pending[c] \in votes /\ SubmissionFingerprint(pending[c]) = Fingerprint(c)

VotesInv ==
  /\ votes # {} => status \notin {"DRAFT", "READY"}
  /\ voteSet # NotFrozen => status \in {"COUNTING", "RESULTS_PUBLISHED", "CANCELLED"}

IInv == /\ TypeOK /\ LockInv /\ TransactionInv /\ VerifiedInv /\ PendingInv /\ VotesInv
        /\ OneVotePerNullifier /\ VotesAreValid /\ CountIsComplete

\* What a handler verifies and waits for the lock with is in force: no configuration
\* is numbered once the polls have opened.
LoadedInv ==
  \A c \in Clients : pc[c] \in InService \ {"loading"} =>
    context[c] = configurationVersion /\ status \notin {"DRAFT", "READY"}
-----------------------------------------------------------------------------
\* The ballot box this machine implements.
BoxOf(vs) ==
  [n \in Nullifiers |->
     IF \E v \in vs : v.nullifier = n
     THEN (CHOOSE v \in vs : v.nullifier = n).encoding ELSE NoVote]

Polls == IF status \in {"DRAFT", "READY"} THEN "before"
         ELSE IF status = "OPEN" THEN "open" ELSE "ended"

CountOf == IF voteSet = NotFrozen THEN NoVote ELSE BoxOf(voteSet)

Abstract == INSTANCE BallotBox WITH
  polls <- Polls, box <- BoxOf(votes), count <- CountOf,
  NoBallot <- NoVote, NoCount <- NoVote

\* Every step of the handlers, the administrator and the clock is a step of the
\* ballot box or leaves it as it was.
ImplementsBallotBox == Abstract!Spec
=============================================================================
