---------------------------- MODULE VotingProofs ----------------------------
(***************************************************************************)
(* Proofs about Voting for any number of clients, nullifiers, options and  *)
(* attempts and any voting window.                                         *)
(***************************************************************************)
EXTENDS Voting, TLAPS

USE VotingAssumption DEF NewVote, NotFrozen, Encodings, Requests, Vote, Evidence, election, database, handler, client,
    InTransaction, InService, Rejections, WindowErrors, L!Status

LEMMA InitInv == Init => IInv
  <1> SUFFICES ASSUME Init PROVE IInv OBVIOUS
  <1> USE DEF Init, L!Init
  <1>1. TypeOK
    <2>1. request \in [Clients -> Requests] OBVIOUS
    <2>2. observed \in [Clients -> [rowVersion : Nat, at : Nat]] OBVIOUS
    <2>3. votes \subseteq Vote /\ voteSet \in (SUBSET Vote) \cup {NotFrozen} OBVIOUS
    <2> QED BY <2>1, <2>2, <2>3 DEF TypeOK
  <1>2. LockInv /\ TransactionInv /\ VerifiedInv /\ PendingInv
    BY DEF LockInv, TransactionInv, VerifiedInv, PendingInv
  <1>3. VotesInv /\ OneVotePerNullifier /\ VotesAreValid /\ CountIsComplete
    BY DEF VotesInv, OneVotePerNullifier, VotesAreValid, CountIsComplete
  <1> QED BY <1>1, <1>2, <1>3 DEF IInv

LEMMA SubmitInv == ASSUME IInv, NEW c \in Clients, Submit(c) PROVE IInv'
  <1> USE DEF IInv, Submit, Goto
  <1>1. TypeOK' BY DEF TypeOK
  <1>2. LockInv' BY DEF TypeOK, LockInv
  <1>3. TransactionInv' /\ VerifiedInv' BY DEF TypeOK, TransactionInv, VerifiedInv
  <1>4. PendingInv' BY DEF TypeOK, PendingInv, SubmissionFingerprint, Fingerprint
  <1>5. VotesInv' /\ OneVotePerNullifier' /\ VotesAreValid' /\ CountIsComplete'
    BY DEF TypeOK, VotesInv, OneVotePerNullifier, VotesAreValid, CountIsComplete
  <1> QED BY <1>1, <1>2, <1>3, <1>4, <1>5

LEMMA FinishInv ==
  ASSUME IInv, NEW c \in Clients, NEW a \in Rejections \cup {"unknown"}, Finish(c, a),
         UNCHANGED <<election, now, database>>
  PROVE  IInv'
  <1> USE DEF IInv, Finish
  <1>1. TypeOK' BY DEF TypeOK
  <1>2. LockInv' BY DEF TypeOK, LockInv
  <1>3. TransactionInv' /\ VerifiedInv' BY DEF TypeOK, TransactionInv, VerifiedInv
  <1>4. PendingInv' BY DEF TypeOK, PendingInv, SubmissionFingerprint, Fingerprint
  <1>5. VotesInv' /\ OneVotePerNullifier' /\ VotesAreValid' /\ CountIsComplete'
    BY DEF TypeOK, VotesInv, OneVotePerNullifier, VotesAreValid, CountIsComplete
  <1> QED BY <1>1, <1>2, <1>3, <1>4, <1>5

LEMMA ChecksRejectOrPass ==
  ASSUME NEW t, NEW r, NEW v
  PROVE  /\ AssertOpen(t) \subseteq Rejections
         /\ ContextErrors \subseteq Rejections
         /\ SignalErrors(r, v) \subseteq Rejections
  BY DEF AssertOpen, ContextErrors, SignalErrors

LEMMA OpenWhenPassed ==
  ASSUME NEW t, AssertOpen(t) = {}
  PROVE  status = "OPEN" /\ ~(t < OpensAt) /\ ~(t >= ClosesAt)
  BY Zenon DEF AssertOpen

LEMMA SignalsWhenPassed ==
  ASSUME NEW r, NEW v, SignalErrors(r, v) = {}
  PROVE  r.version = v /\ ~(r.encoding >= OptionCount)
  BY Zenon DEF SignalErrors

LEMMA LoadInv == ASSUME IInv, NEW c \in Clients, LoadAcceptanceContext(c) PROVE IInv'
  <1>1. CASE \E e \in Rejections : Finish(c, e)
    BY <1>1, FinishInv DEF LoadAcceptanceContext
  <1>2. CASE /\ context' = [context EXCEPT ![c] = configurationVersion]
             /\ Goto(c, "verifying")
             /\ UNCHANGED <<rowLock, request, observed, pending, client>>
    <2> USE <1>2 DEF IInv, LoadAcceptanceContext, Goto
    <2>1. TypeOK' BY DEF TypeOK
    <2>2. LockInv' BY DEF TypeOK, LockInv
    <2>3. TransactionInv' /\ VerifiedInv' BY DEF TypeOK, TransactionInv, VerifiedInv
    <2>4. PendingInv' BY DEF TypeOK, PendingInv, SubmissionFingerprint, Fingerprint
    <2>5. VotesInv' /\ OneVotePerNullifier' /\ VotesAreValid' /\ CountIsComplete'
      BY DEF TypeOK, VotesInv, OneVotePerNullifier, VotesAreValid, CountIsComplete
    <2> QED BY <2>1, <2>2, <2>3, <2>4, <2>5
  <1> QED BY <1>1, <1>2, ChecksRejectOrPass DEF LoadAcceptanceContext

LEMMA VerifyInv == ASSUME IInv, NEW c \in Clients, VerifyProof(c) PROVE IInv'
  <1>1. CASE \E e \in Rejections : Finish(c, e)
    BY <1>1, FinishInv DEF VerifyProof
  <1>2. CASE request[c].proof = "valid" /\ Goto(c, "accepting") /\ UNCHANGED <<rowLock, handler, client>>
    <2> USE <1>2 DEF IInv, VerifyProof, Goto
    <2>1. TypeOK' BY DEF TypeOK
    <2>2. LockInv' BY DEF TypeOK, LockInv
    <2>3. TransactionInv' /\ VerifiedInv' BY DEF TypeOK, TransactionInv, VerifiedInv
    <2>4. PendingInv' BY DEF TypeOK, PendingInv, SubmissionFingerprint, Fingerprint
    <2>5. VotesInv' /\ OneVotePerNullifier' /\ VotesAreValid' /\ CountIsComplete'
      BY DEF TypeOK, VotesInv, OneVotePerNullifier, VotesAreValid, CountIsComplete
    <2> QED BY <2>1, <2>2, <2>3, <2>4, <2>5
  <1> QED BY <1>1, <1>2 DEF VerifyProof

LEMMA BeginInv == ASSUME IInv, NEW c \in Clients, BeginAccept(c) PROVE IInv'
  <1> USE DEF IInv, BeginAccept, Goto
  <1>1. TypeOK' BY DEF TypeOK
  <1>2. LockInv' BY DEF TypeOK, LockInv
  <1>3. TransactionInv' /\ VerifiedInv' BY DEF TypeOK, TransactionInv, VerifiedInv
  <1>4. PendingInv' BY DEF TypeOK, PendingInv, SubmissionFingerprint, Fingerprint
  <1>5. VotesInv' /\ OneVotePerNullifier' /\ VotesAreValid' /\ CountIsComplete'
    BY DEF TypeOK, VotesInv, OneVotePerNullifier, VotesAreValid, CountIsComplete
  <1> QED BY <1>1, <1>2, <1>3, <1>4, <1>5

LEMMA LockStepInv == ASSUME IInv, NEW c \in Clients, LockElection(c) PROVE IInv'
  <1> DEFINE at == IF observed[c].rowVersion = rowVersion THEN observed[c].at ELSE now
  <1>1. CASE \E e \in Rejections : Finish(c, e)
    BY <1>1, FinishInv DEF LockElection
  <1>2. CASE /\ AssertOpen(at) = {} /\ configurationVersion = context[c]
             /\ SignalErrors(request[c], context[c]) = {}
             /\ rowLock' = c
             /\ observed' = [observed EXCEPT ![c] = [rowVersion |-> rowVersion, at |-> at]]
             /\ Goto(c, "inserting")
             /\ UNCHANGED <<request, context, pending, client>>
    <2> USE <1>2 DEF IInv, LockElection, Goto
    <2>0. at \in Nat BY DEF TypeOK
    <2>1. TypeOK' BY <2>0 DEF TypeOK
    <2>2. LockInv' BY DEF TypeOK, LockInv
    <2>3. TransactionInv'
      <3>1. /\ status = "OPEN" /\ OpensAt <= at /\ at < ClosesAt
        <4> HIDE DEF at
        <4> QED BY <1>2, <2>0, OpenWhenPassed
      <3>2. request[c].version = configurationVersion /\ request[c].encoding \in Encodings
        <4>1. request[c].version = context[c] /\ ~(request[c].encoding >= OptionCount)
          BY SignalsWhenPassed
        <4>2. request[c].encoding \in Nat BY DEF TypeOK
        <4> QED BY <1>2, <4>1, <4>2
      <3>3. pc' = [pc EXCEPT ![c] = "inserting"]
            /\ UNCHANGED <<status, configurationVersion, request, context>>
        OBVIOUS
      <3>4. observed'[c].at = at
            /\ \A d \in Clients \ {c} : observed'[d] = observed[d]
        BY DEF TypeOK
      <3> HIDE DEF at
      <3>5. ASSUME NEW d \in Clients, pc'[d] \in InTransaction
            PROVE  /\ status' = "OPEN"
                   /\ context'[d] = configurationVersion'
                   /\ request'[d].version = configurationVersion'
                   /\ request'[d].encoding \in Encodings
                   /\ OpensAt <= observed'[d].at /\ observed'[d].at < ClosesAt
        <4>1. CASE d = c BY <4>1, <1>2, <3>1, <3>2, <3>3, <3>4 DEF TypeOK
        <4>2. CASE d # c BY <4>2, <3>5, <3>3, <3>4 DEF TypeOK, TransactionInv
        <4> QED BY <4>1, <4>2
      <3> QED BY <3>5 DEF TransactionInv
    <2>4. VerifiedInv' BY DEF TypeOK, VerifiedInv
    <2>5. PendingInv' BY DEF TypeOK, PendingInv, SubmissionFingerprint, Fingerprint
    <2>6. VotesInv' /\ OneVotePerNullifier' /\ VotesAreValid' /\ CountIsComplete'
      BY DEF TypeOK, VotesInv, OneVotePerNullifier, VotesAreValid, CountIsComplete
    <2> QED BY <2>1, <2>2, <2>3, <2>4, <2>5, <2>6
  <1> QED BY <1>1, <1>2, ChecksRejectOrPass DEF LockElection

LEMMA InsertVoteInv == ASSUME IInv, NEW c \in Clients, InsertVote(c) PROVE IInv'
  <1>1. CASE Finish(c, "NULLIFIER_ALREADY_USED")
    BY <1>1, FinishInv DEF InsertVote
  <1>2. CASE /\ Existing(c) = {}
             /\ pending' = [pending EXCEPT ![c] = NewVote(c)]
             /\ Goto(c, "evidencing")
             /\ UNCHANGED <<rowLock, request, context, observed, client>>
    <2> USE <1>2 DEF IInv, InsertVote, Goto
    <2>1. TypeOK'
      <3>1. NewVote(c) \in Vote BY DEF TypeOK
      <3> QED BY <3>1 DEF TypeOK
    <2>2. LockInv' BY DEF TypeOK, LockInv
    <2>3. TransactionInv' /\ VerifiedInv' BY DEF TypeOK, TransactionInv, VerifiedInv
    <2>4. PendingInv'
      BY DEF TypeOK, PendingInv, SubmissionFingerprint, Fingerprint, Existing
    <2>5. VotesInv' /\ OneVotePerNullifier' /\ VotesAreValid' /\ CountIsComplete'
      BY DEF TypeOK, VotesInv, OneVotePerNullifier, VotesAreValid, CountIsComplete
    <2> QED BY <2>1, <2>2, <2>3, <2>4, <2>5
  <1>3. ASSUME NEW v \in Existing(c),
               /\ SubmissionFingerprint(v) = Fingerprint(c)
               /\ pending' = [pending EXCEPT ![c] = v]
               /\ rowLock' = NoClient
               /\ Goto(c, "replying")
               /\ UNCHANGED <<request, context, observed, client>>
        PROVE  IInv'
    <2> USE <1>3 DEF IInv, InsertVote, Goto, Existing
    <2>1. TypeOK' BY DEF TypeOK
    <2>2. LockInv' BY DEF TypeOK, LockInv
    <2>3. TransactionInv' /\ VerifiedInv' BY DEF TypeOK, TransactionInv, VerifiedInv
    <2>4. PendingInv' BY DEF TypeOK, PendingInv, SubmissionFingerprint, Fingerprint
    <2>5. VotesInv' /\ OneVotePerNullifier' /\ VotesAreValid' /\ CountIsComplete'
      BY DEF TypeOK, VotesInv, OneVotePerNullifier, VotesAreValid, CountIsComplete
    <2> QED BY <2>1, <2>2, <2>3, <2>4, <2>5
  <1> QED BY <1>1, <1>2, <1>3 DEF InsertVote

LEMMA InsertEvidenceInv == ASSUME IInv, NEW c \in Clients, InsertEvidence(c) PROVE IInv'
  <1> USE DEF IInv, InsertEvidence, Goto
  <1>1. TypeOK' BY DEF TypeOK
  <1>2. LockInv' BY DEF TypeOK, LockInv
  <1>3. TransactionInv' /\ VerifiedInv' BY DEF TypeOK, TransactionInv, VerifiedInv
  <1>4. PendingInv' BY DEF TypeOK, PendingInv, SubmissionFingerprint, Fingerprint
  <1>5. VotesInv' /\ OneVotePerNullifier' /\ VotesAreValid' /\ CountIsComplete'
    BY DEF TypeOK, VotesInv, OneVotePerNullifier, VotesAreValid, CountIsComplete
  <1> QED BY <1>1, <1>2, <1>3, <1>4, <1>5

\* No other transaction is between its INSERT and its COMMIT, and the frozen vote
\* set is only there when the election is past OPEN: that is why the new row keeps
\* the votes unique, valid and complete.
LEMMA CommitInv == ASSUME IInv, NEW c \in Clients, CommitVote(c) PROVE IInv'
  <1> USE DEF IInv, CommitVote, Goto
  <1>0. /\ status = "OPEN" /\ rowLock = c /\ rowLock' = NoClient
        /\ pending[c] \in Vote /\ pending[c].nullifier = NullifierOf[c]
        /\ \A d \in Clients \ {c} : pc[d] \notin InTransaction
        /\ \A v \in votes : v.nullifier # NullifierOf[c]
        /\ pending[c] = NewVote(c)
    BY DEF TypeOK, LockInv, TransactionInv, PendingInv
  <1>1. TypeOK'
    <2>1. NewEvidence(c) \in Evidence BY DEF NewEvidence, TypeOK
    <2> QED BY <1>0, <2>1 DEF TypeOK
  <1>2. LockInv' BY <1>0 DEF TypeOK, LockInv
  <1>3. TransactionInv' /\ VerifiedInv' BY <1>0 DEF TypeOK, TransactionInv, VerifiedInv
  <1>4. PendingInv' BY <1>0 DEF TypeOK, PendingInv, SubmissionFingerprint, Fingerprint, TransactionInv
  <1>5. VotesInv' BY <1>0 DEF TypeOK, VotesInv
  <1>6. OneVotePerNullifier' BY <1>0 DEF OneVotePerNullifier
  <1>7. VotesAreValid'
    <2>1. /\ NewEvidence(c).proof = "valid"
          /\ SubmissionFingerprint(NewEvidence(c)) = SubmissionFingerprint(pending[c])
      BY <1>0 DEF NewEvidence, SubmissionFingerprint, TransactionInv, VerifiedInv
    <2>2. /\ evidence' = evidence \cup {NewEvidence(c)} /\ votes' = votes \cup {pending[c]}
          /\ configurationVersion' = configurationVersion
      OBVIOUS
    <2>3. ASSUME NEW v \in votes'
          PROVE  \E e \in evidence' :
                   e.proof = "valid" /\ SubmissionFingerprint(e) = SubmissionFingerprint(v)
      <3> HIDE DEF CommitVote
      <3> QED BY <2>1, <2>2 DEF VotesAreValid
    <2>4. ASSUME NEW v \in votes'
          PROVE  /\ v.encoding \in Encodings /\ v.version = configurationVersion
                 /\ OpensAt <= v.acceptedAt /\ v.acceptedAt < ClosesAt
      BY <1>0, <2>2 DEF VotesAreValid, TransactionInv, TypeOK
    <2> QED BY <2>2, <2>3, <2>4 DEF VotesAreValid, SubmissionFingerprint
  <1>8. CountIsComplete' BY <1>0 DEF CountIsComplete, VotesInv
  <1> QED BY <1>1, <1>2, <1>3, <1>4, <1>5, <1>6, <1>7, <1>8

LEMMA ReplyInv == ASSUME IInv, NEW c \in Clients, Reply(c) PROVE IInv'
  <1> USE DEF IInv, Reply, Goto
  <1>1. TypeOK'
    <2>1. receipts' \in [Clients -> SUBSET Vote] BY DEF TypeOK, PendingInv
    <2> QED BY <2>1 DEF TypeOK
  <1>2. LockInv' BY DEF TypeOK, LockInv
  <1>3. TransactionInv' /\ VerifiedInv' BY DEF TypeOK, TransactionInv, VerifiedInv
  <1>4. PendingInv' BY DEF TypeOK, PendingInv, SubmissionFingerprint, Fingerprint
  <1>5. VotesInv' /\ OneVotePerNullifier' /\ VotesAreValid' /\ CountIsComplete'
    BY DEF TypeOK, VotesInv, OneVotePerNullifier, VotesAreValid, CountIsComplete
  <1> QED BY <1>1, <1>2, <1>3, <1>4, <1>5

\* enterCounting joins the votes with their evidence and so leaves none out.
LEMMA EvidenceOfVotes ==
  ASSUME IInv
  PROVE  \A v \in votes : v.version = configurationVersion /\ HasEvidence(v)
  <1> SUFFICES ASSUME NEW v \in votes PROVE v.version = configurationVersion /\ HasEvidence(v)
    OBVIOUS
  <1>1. PICK e \in evidence : SubmissionFingerprint(e) = SubmissionFingerprint(v)
    BY DEF IInv, VotesAreValid
  <1>2. e.nullifier = v.nullifier
    BY <1>1 DEF SubmissionFingerprint
  <1> QED BY <1>2 DEF HasEvidence, IInv, VotesAreValid

\* A transition waits for the row lock, so no transaction is under way; what is
\* left is that votes imply an election past READY, and that the frozen set is
\* all of them because each has its evidence and the configuration in force.
LEMMA TransitionInv == ASSUME IInv, NEW s \in L!Status, Transition(s) PROVE IInv'
  <1> USE DEF IInv, Transition
  <1>0. /\ status \in L!Status /\ status' \in L!Status /\ status' = s
        /\ s \in L!ALLOWED_ELECTION_TRANSITIONS[status]
        /\ configurationVersion' =
             IF s = "READY" THEN configurationVersion + 1 ELSE configurationVersion
    BY DEF L!MoveTo, TypeOK
  <1>1. /\ status = "DRAFT" => s \in {"READY", "CANCELLED"}
        /\ status = "READY" => s \in {"DRAFT", "OPEN", "CANCELLED"}
        /\ status = "OPEN" => s \in {"CLOSED", "CANCELLED"}
        /\ status = "CLOSED" => s \in {"COUNTING", "CANCELLED"}
        /\ status = "COUNTING" => s \in {"RESULTS_PUBLISHED", "CANCELLED"}
        /\ status \notin {"RESULTS_PUBLISHED", "CANCELLED"}
    BY <1>0, Zenon DEF L!ALLOWED_ELECTION_TRANSITIONS
  <1>2. \A c \in Clients : pc[c] \notin InTransaction
    BY DEF TypeOK, LockInv
  <1>3. configurationVersion' \in Nat /\ (votes # {} => configurationVersion' = configurationVersion)
    BY <1>0, <1>1 DEF TypeOK, VotesInv
  <1>4. voteSet' = voteSet \/ voteSet' = votes
    <2>1. \A v \in votes : v.version = configurationVersion /\ HasEvidence(v)
      BY EvidenceOfVotes
    <2> QED BY <1>0, <1>1, <2>1
  <1>5. TypeOK' BY <1>0, <1>3, <1>4 DEF TypeOK
  <1>6. LockInv' BY DEF TypeOK, LockInv
  <1>7. TransactionInv' /\ VerifiedInv' BY <1>2 DEF TypeOK, TransactionInv, VerifiedInv
  <1>8. PendingInv' BY DEF TypeOK, PendingInv, SubmissionFingerprint, Fingerprint
  <1>9. VotesInv'
    <2>1. votes # {} => s \notin {"DRAFT", "READY"} BY <1>0, <1>1 DEF VotesInv
    <2>2. voteSet' # NotFrozen => s \in {"COUNTING", "RESULTS_PUBLISHED", "CANCELLED"}
      BY <1>0, <1>1 DEF VotesInv
    <2> QED BY <1>0, <2>1, <2>2 DEF VotesInv
  <1>10. OneVotePerNullifier' /\ VotesAreValid' BY <1>3 DEF OneVotePerNullifier, VotesAreValid
  <1>11. CountIsComplete' BY <1>4 DEF CountIsComplete
  <1> QED BY <1>5, <1>6, <1>7, <1>8, <1>9, <1>10, <1>11

LEMMA TickInv == ASSUME IInv, Tick PROVE IInv'
  BY DEF IInv, Tick, TypeOK, LockInv, TransactionInv, VerifiedInv, PendingInv, VotesInv, OneVotePerNullifier,
     VotesAreValid, CountIsComplete, SubmissionFingerprint, Fingerprint

LEMMA StutterInv == ASSUME IInv, UNCHANGED vars PROVE IInv'
  BY DEF vars, IInv, TypeOK, LockInv, TransactionInv, VerifiedInv, PendingInv, VotesInv, OneVotePerNullifier,
     VotesAreValid, CountIsComplete, SubmissionFingerprint, Fingerprint

LEMMA NextInv == ASSUME IInv, [Next]_vars PROVE IInv'
  <1>1. ASSUME NEW c \in Clients, Submit(c) PROVE IInv' BY <1>1, SubmitInv
  <1>2. ASSUME NEW c \in Clients, Progress(c) PROVE IInv'
    BY <1>2, LoadInv, VerifyInv, BeginInv, LockStepInv, InsertVoteInv, InsertEvidenceInv,
       CommitInv, ReplyInv DEF Progress
  <1>3. ASSUME NEW c \in Clients, LoseReply(c) PROVE IInv'
    BY <1>3, FinishInv DEF LoseReply
  <1>4. ASSUME NEW c \in Clients, Abort(c) PROVE IInv'
    BY <1>4, FinishInv DEF Abort
  <1>5. ASSUME NEW s \in L!Status, Transition(s) PROVE IInv' BY <1>5, TransitionInv
  <1>6. CASE Tick BY <1>6, TickInv
  <1>7. CASE UNCHANGED vars BY <1>7, StutterInv
  <1> QED BY <1>1, <1>2, <1>3, <1>4, <1>5, <1>6, <1>7 DEF Next

\* The inductive invariant holds in every reachable state of Voting.
THEOREM Invariance == Spec => []IInv
  BY InitInv, NextInv, PTL DEF Spec

\* The handlers, the administrator and the clock keep every variable in its type.
THEOREM TypeCorrect == Spec => []TypeOK
  <1>1. IInv => TypeOK BY DEF IInv
  <1> QED BY <1>1, Invariance, PTL

\* However many clients submit for one nullifier, and however their handlers
\* interleave, fail and retry, accepted_votes holds at most one row for it.
THEOREM VoteUniqueness == Spec => []OneVotePerNullifier
  <1>1. IInv => OneVotePerNullifier BY DEF IInv
  <1> QED BY <1>1, Invariance, PTL

\* Every row of accepted_votes has a row of vote_proof_evidence whose proof verifies for
\* the very nullifier, option and configuration of the vote; the configuration is the one
\* in force, the option one of its, the acceptance time inside [OpensAt, ClosesAt).
THEOREM VoteValidity == Spec => []VotesAreValid
  <1>1. IInv => VotesAreValid BY DEF IInv
  <1> QED BY <1>1, Invariance, PTL

\* enterCounting freezes exactly the accepted votes, and none is accepted later.
THEOREM CountCompleteness == Spec => []CountIsComplete
  <1>1. IInv => CountIsComplete BY DEF IInv
  <1> QED BY <1>1, Invariance, PTL

\* Which steps may write accepted_votes: a COMMIT, which adds the row it inserted
\* while its transaction holds the lock of an OPEN election.
LEMMA OnlyCommitAddsVotes ==
  ASSUME IInv, [Next]_vars
  PROVE  \/ votes' = votes
         \/ \E c \in Clients : CommitVote(c) /\ status = "OPEN"
  <1> USE DEF Next, Progress, vars, database
  <1>1. ASSUME NEW c \in Clients, Progress(c), ~CommitVote(c) PROVE votes' = votes
    BY <1>1 DEF LoadAcceptanceContext, VerifyProof, BeginAccept, LockElection,
       InsertVote, InsertEvidence, Reply
  <1>2. ASSUME NEW c \in Clients, Submit(c) \/ LoseReply(c) \/ Abort(c) PROVE votes' = votes
    BY <1>2 DEF Submit, LoseReply, Abort
  <1>3. ASSUME NEW s \in L!Status, Transition(s) PROVE votes' = votes
    BY <1>3 DEF Transition
  <1>4. CASE Tick BY <1>4 DEF Tick
  <1>5. ASSUME NEW c \in Clients, CommitVote(c) PROVE status = "OPEN"
    BY <1>5 DEF CommitVote, IInv, TransactionInv
  <1> QED BY <1>1, <1>2, <1>3, <1>4, <1>5

\* accepted_votes is append-only, and closed once the election has left OPEN.
THEOREM VotesSealed == Spec => SealedBox
  <1>1. ASSUME IInv, [Next]_vars
        PROVE  [votes \subseteq votes' /\ (votes' # votes => status = "OPEN")]_vars
    BY <1>1, OnlyCommitAddsVotes DEF CommitVote
  <1> QED BY <1>1, Invariance, PTL DEF Spec, SealedBox

-----------------------------------------------------------------------------
\* The clients are told what the box holds.

LEMMA InitAnswers == Init => LoadedInv /\ AnswersMatchTheBox
  BY DEF Init, LoadedInv, AnswersMatchTheBox, AnswerMatches

\* Votes that are recorded stay so: nobody's answer becomes wrong by the step of
\* another client, nor by a step of a handler that has not answered yet.
LEMMA StaysMatching ==
  ASSUME AnswersMatchTheBox, NEW c \in Clients, votes \subseteq votes',
         receipts'[c] = receipts[c], answer'[c] = answer[c],
         pc'[c] = "idle" => pc[c] = "idle" /\ request'[c] = request[c]
  PROVE  AnswerMatches(c)'
  BY DEF AnswersMatchTheBox, AnswerMatches, SubmissionFingerprint, Fingerprint

LEMMA FinishMatches ==
  ASSUME TypeOK, AnswersMatchTheBox, NEW c \in Clients, NEW a, Finish(c, a), UNCHANGED votes,
         a \notin {"accepted", "VOTE_SUBMISSION_CONFLICT"},
         a = "NULLIFIER_ALREADY_USED" =>
           \E v \in votes : v.nullifier = NullifierOf[c] /\ SubmissionFingerprint(v) # Fingerprint(c)
  PROVE  AnswersMatchTheBox'
  <1>1. AnswerMatches(c)'
    BY DEF TypeOK, Finish, AnswersMatchTheBox, AnswerMatches, SubmissionFingerprint, Fingerprint
  <1>2. \A b \in Clients \ {c} : AnswerMatches(b)' BY StaysMatching DEF TypeOK, Finish
  <1> QED BY <1>1, <1>2 DEF AnswersMatchTheBox

LEMMA LoadedStep == ASSUME IInv, LoadedInv, [Next]_vars PROVE LoadedInv'
  <1> USE DEF IInv, TypeOK
  <1>1. ASSUME NEW c \in Clients, NEW a, Finish(c, a), UNCHANGED election PROVE LoadedInv'
    BY <1>1 DEF Finish, LoadedInv
  <1>2. ASSUME NEW c \in Clients, LoadAcceptanceContext(c) PROVE LoadedInv'
    <2>1. ContextErrors = {} /\ AssertOpen(now) = {} => status = "OPEN" BY DEF AssertOpen
    <2> QED BY <1>1, <1>2, <2>1 DEF LoadAcceptanceContext, LoadedInv, Goto
  <1>3. ASSUME NEW c \in Clients, VerifyProof(c) PROVE LoadedInv'
    BY <1>1, <1>3 DEF VerifyProof, LoadedInv, Goto
  <1>4. ASSUME NEW c \in Clients, BeginAccept(c) PROVE LoadedInv'
    BY <1>4 DEF BeginAccept, LoadedInv, Goto
  <1>5. ASSUME NEW c \in Clients, LockElection(c) PROVE LoadedInv'
    BY <1>1, <1>5 DEF LockElection, LoadedInv, Goto
  <1>6. ASSUME NEW c \in Clients, InsertVote(c) PROVE LoadedInv'
    BY <1>1, <1>6 DEF InsertVote, LoadedInv, Goto
  <1>7. ASSUME NEW c \in Clients, Submit(c) \/ InsertEvidence(c) \/ CommitVote(c) \/ Reply(c)
        PROVE  LoadedInv'
    BY <1>7 DEF Submit, InsertEvidence, CommitVote, Reply, LoadedInv, Goto
  <1>8. ASSUME NEW c \in Clients, LoseReply(c) \/ Abort(c) PROVE LoadedInv'
    BY <1>1, <1>8 DEF LoseReply, Abort
  <1>9. ASSUME NEW s \in L!Status, Transition(s) PROVE LoadedInv'
    <2>1. status \notin {"DRAFT", "READY"} =>
            status' \notin {"DRAFT", "READY"} /\ configurationVersion' = configurationVersion
      <3>1. s \in L!ALLOWED_ELECTION_TRANSITIONS[status] /\ status' = s
            /\ configurationVersion' = IF s = "READY" THEN configurationVersion + 1
                                                      ELSE configurationVersion
        BY <1>9 DEF Transition, L!MoveTo
      <3>2. status \in L!Status OBVIOUS
      <3>3. status \notin {"DRAFT", "READY"} => s \notin {"DRAFT", "READY"}
        BY <3>1, <3>2, Zenon DEF L!ALLOWED_ELECTION_TRANSITIONS
      <3> QED BY <3>1, <3>3
    <2> QED BY <1>9, <2>1 DEF Transition, LoadedInv
  <1>10. CASE Tick \/ UNCHANGED vars BY <1>10 DEF Tick, vars, LoadedInv
  <1> QED BY <1>2, <1>3, <1>4, <1>5, <1>6, <1>7, <1>8, <1>9, <1>10 DEF Next, Progress

LEMMA AnswersStep ==
  ASSUME IInv, LoadedInv, AnswersMatchTheBox, [Next]_vars PROVE AnswersMatchTheBox'
  <1>0. TypeOK BY DEF IInv
  <1>1. ASSUME NEW c \in Clients, votes \subseteq votes', UNCHANGED <<answer, receipts>>,
               pc'[c] # "idle", \A b \in Clients \ {c} : pc'[b] = pc[b] /\ request'[b] = request[b]
        PROVE  AnswersMatchTheBox'
    BY <1>1, StaysMatching DEF AnswersMatchTheBox
  <1>2. ASSUME NEW c \in Clients, LoadAcceptanceContext(c) PROVE AnswersMatchTheBox'
    <2> DEFINE errors == IF ContextErrors # {} THEN ContextErrors
                         ELSE IF AssertOpen(now) # {} THEN AssertOpen(now)
                         ELSE SignalErrors(request[c], configurationVersion)
    <2>1. \A e \in errors : e \notin {"accepted", "VOTE_SUBMISSION_CONFLICT",
                                      "NULLIFIER_ALREADY_USED"}
      BY DEF ContextErrors, AssertOpen, SignalErrors
    <2>2. \/ pc' = [pc EXCEPT ![c] = "verifying"] /\ UNCHANGED <<request, client>>
          \/ \E e \in errors : Finish(c, e)
      BY <1>2 DEF LoadAcceptanceContext, Goto
    <2>3. UNCHANGED votes BY <1>2 DEF LoadAcceptanceContext
    <2> HIDE DEF errors
    <2> QED BY <1>0, <1>1, <2>1, <2>2, <2>3, FinishMatches DEF TypeOK
  <1>3. ASSUME NEW c \in Clients, VerifyProof(c) PROVE AnswersMatchTheBox'
    BY <1>0, <1>1, <1>3, FinishMatches DEF VerifyProof, Goto, TypeOK
  <1>4. ASSUME NEW c \in Clients, Submit(c) \/ BeginAccept(c) \/ InsertEvidence(c) \/ CommitVote(c)
        PROVE  AnswersMatchTheBox'
    BY <1>0, <1>1, <1>4 DEF Submit, BeginAccept, InsertEvidence, CommitVote, Goto, TypeOK
  <1>5. ASSUME NEW c \in Clients, LockElection(c) PROVE AnswersMatchTheBox'
    <2> DEFINE at == IF observed[c].rowVersion = rowVersion THEN observed[c].at ELSE now
               errors == IF AssertOpen(at) # {} THEN AssertOpen(at)
                         ELSE IF configurationVersion # context[c]
                              THEN {"VOTE_SUBMISSION_CONFLICT"}
                         ELSE SignalErrors(request[c], context[c])
    <2>1. configurationVersion = context[c]
      BY <1>5 DEF LockElection, LoadedInv
    <2>2. \A e \in errors : e \notin {"accepted", "VOTE_SUBMISSION_CONFLICT",
                                      "NULLIFIER_ALREADY_USED"}
      BY <2>1 DEF AssertOpen, SignalErrors
    <2>3. \/ pc' = [pc EXCEPT ![c] = "inserting"] /\ UNCHANGED <<request, client>>
          \/ \E e \in errors : Finish(c, e)
      BY <1>5 DEF LockElection, Goto
    <2>4. UNCHANGED votes BY <1>5 DEF LockElection
    <2> HIDE DEF errors
    <2> QED BY <1>0, <1>1, <2>2, <2>3, <2>4, FinishMatches DEF TypeOK
  <1>6. ASSUME NEW c \in Clients, InsertVote(c) PROVE AnswersMatchTheBox'
    <2>1. UNCHANGED votes BY <1>6 DEF InsertVote
    <2>2. CASE pc' \in {[pc EXCEPT ![c] = "evidencing"], [pc EXCEPT ![c] = "replying"]}
               /\ UNCHANGED <<request, client>>
      BY <1>0, <1>1, <2>1, <2>2 DEF TypeOK
    <2>3. ASSUME NEW v \in Existing(c), SubmissionFingerprint(v) # Fingerprint(c),
                 Finish(c, "NULLIFIER_ALREADY_USED")
          PROVE  AnswersMatchTheBox'
      BY <1>0, <2>1, <2>3, FinishMatches DEF Existing
    <2> QED BY <1>6, <2>2, <2>3 DEF InsertVote, Goto
  <1>7. ASSUME NEW c \in Clients, Reply(c) PROVE AnswersMatchTheBox'
    <2>1. pending[c] \in votes /\ SubmissionFingerprint(pending[c]) = Fingerprint(c)
      BY <1>7 DEF Reply, IInv, PendingInv
    <2>2. pending[c].nullifier = NullifierOf[c] BY <2>1 DEF SubmissionFingerprint, Fingerprint
    <2>3. /\ pc'[c] = "idle" /\ answer'[c] = "accepted" /\ UNCHANGED <<votes, request>>
          /\ receipts'[c] = receipts[c] \cup {pending[c]}
      BY <1>0, <1>7 DEF Reply, Goto, TypeOK
    <2>4. AnswerMatches(c)'
      BY <2>1, <2>2, <2>3 DEF AnswersMatchTheBox, AnswerMatches, SubmissionFingerprint, Fingerprint
    <2>5. \A b \in Clients \ {c} : AnswerMatches(b)'
      BY <1>0, <1>7, <2>3, StaysMatching DEF Reply, Goto, TypeOK
    <2> QED BY <2>4, <2>5 DEF AnswersMatchTheBox
  <1>8. ASSUME NEW c \in Clients, LoseReply(c) \/ Abort(c) PROVE AnswersMatchTheBox'
    BY <1>0, <1>8, FinishMatches DEF LoseReply, Abort
  <1>9. CASE Tick \/ UNCHANGED vars \/ \E s \in L!Status : Transition(s)
    <2>1. UNCHANGED <<votes, pc, request, answer, receipts>> BY <1>9 DEF Tick, vars, Transition
    <2> QED BY <2>1, StaysMatching DEF AnswersMatchTheBox
  <1> QED BY <1>2, <1>3, <1>4, <1>5, <1>6, <1>7, <1>8, <1>9 DEF Next, Progress

\* Whatever a client was told, by the answers that reached it, is what the box holds.
THEOREM AnswersCorrect == Spec => []AnswersMatchTheBox
  <1>1. Spec => [](LoadedInv /\ AnswersMatchTheBox)
    <2>1. ASSUME IInv, LoadedInv /\ AnswersMatchTheBox, [Next]_vars
          PROVE  (LoadedInv /\ AnswersMatchTheBox)'
      BY <2>1, LoadedStep, AnswersStep
    <2> QED BY InitAnswers, <2>1, Invariance, PTL DEF Spec
  <1> QED BY <1>1, PTL

-----------------------------------------------------------------------------
\* Voting implements BallotBox.

\* With one vote per nullifier a new vote fills one slot of the box and leaves the
\* other slots alone.
LEMMA BoxOfNewVote ==
  ASSUME NEW vs \in SUBSET Vote, NEW w \in Vote,
         \A v \in vs : v.nullifier # w.nullifier,
         \A u, v \in vs : u.nullifier = v.nullifier => u = v
  PROVE  BoxOf(vs \cup {w}) = [BoxOf(vs) EXCEPT ![w.nullifier] = w.encoding]
  <1> DEFINE slot(s, n) == CHOOSE v \in s : v.nullifier = n
             ws == vs \cup {w}
  <1>1. slot(ws, w.nullifier) = w
    <2>1. \E v \in ws : v.nullifier = w.nullifier OBVIOUS
    <2>2. slot(ws, w.nullifier) \in ws /\ slot(ws, w.nullifier).nullifier = w.nullifier
      BY <2>1
    <2> QED BY <2>2
  <1>2. ASSUME NEW n \in Nullifiers, n # w.nullifier, \E v \in vs : v.nullifier = n
        PROVE  slot(ws, n) = slot(vs, n)
    <2>1. \E v \in ws : v.nullifier = n BY <1>2
    <2>2. slot(ws, n) \in ws /\ slot(ws, n).nullifier = n BY <2>1
    <2>3. slot(vs, n) \in vs /\ slot(vs, n).nullifier = n BY <1>2
    <2>4. slot(ws, n) \in vs BY <2>2, <1>2
    <2> QED BY <2>2, <2>3, <2>4
  <1>3. \A n \in Nullifiers \ {w.nullifier} :
          (\E v \in ws : v.nullifier = n) <=> (\E v \in vs : v.nullifier = n)
    OBVIOUS
  <1>4. BoxOf(ws)[w.nullifier] = w.encoding BY <1>1 DEF BoxOf
  <1>5. ASSUME NEW n \in Nullifiers, n # w.nullifier PROVE BoxOf(ws)[n] = BoxOf(vs)[n]
    BY <1>2, <1>3, <1>5 DEF BoxOf
  <1>6. BoxOf(ws) = [n \in Nullifiers |-> BoxOf(ws)[n]]
        /\ BoxOf(vs) = [n \in Nullifiers |-> BoxOf(vs)[n]]
    BY DEF BoxOf
  <1> HIDE DEF ws
  <1>7. BoxOf(ws) = [BoxOf(vs) EXCEPT ![w.nullifier] = w.encoding]
    BY <1>4, <1>5, <1>6
  <1> QED BY <1>7 DEF ws

LEMMA BoxInit == Init => Abstract!Init
  BY DEF Init, L!Init, Abstract!Init, Polls, BoxOf, CountOf

LEMMA CommitCasts ==
  ASSUME IInv, IInv', NEW c \in Clients, CommitVote(c)
  PROVE  Abstract!Cast(NullifierOf[c], request[c].encoding) /\ request[c].encoding \in Encodings
  <1> DEFINE w == pending[c]
  <1>1. /\ status = "OPEN" /\ status' = status
        /\ w \in Vote /\ w.nullifier = NullifierOf[c] /\ w.encoding = request[c].encoding
        /\ \A v \in votes : v.nullifier # NullifierOf[c]
        /\ votes' = votes \cup {w} /\ voteSet' = voteSet
    BY DEF IInv, CommitVote, TypeOK, TransactionInv, PendingInv
  <1>2. BoxOf(votes') = [BoxOf(votes) EXCEPT ![w.nullifier] = w.encoding]
    <2>1. votes \in SUBSET Vote /\ \A u, v \in votes : u.nullifier = v.nullifier => u = v
      BY DEF IInv, TypeOK, OneVotePerNullifier
    <2> HIDE DEF w, Vote
    <2> QED BY <1>1, <2>1, BoxOfNewVote
  <1>3. BoxOf(votes)[w.nullifier] = NoVote BY <1>1 DEF BoxOf
  <1>4. w.encoding \in Encodings BY <1>1 DEF IInv, VotesAreValid
  <1>5. Polls = "open" /\ Polls' = Polls BY <1>1 DEF Polls
  <1>6. CountOf' = CountOf BY <1>1 DEF CountOf
  <1> QED BY <1>1, <1>2, <1>3, <1>4, <1>5, <1>6 DEF Abstract!Cast

LEMMA TransitionMovesPolls ==
  ASSUME IInv, IInv', NEW s \in L!Status, Transition(s)
  PROVE  Abstract!Next \/ UNCHANGED Abstract!vars
  <1>1. /\ status \in L!Status /\ status' = s /\ votes' = votes
        /\ s \in L!ALLOWED_ELECTION_TRANSITIONS[status]
    BY DEF Transition, L!MoveTo, IInv, TypeOK
  <1>2. BoxOf(votes)' = BoxOf(votes) BY <1>1 DEF BoxOf
  <1>3. CASE s = "COUNTING"
    <2>1. status = "CLOSED" /\ voteSet = NotFrozen
      BY <1>1, <1>3, Zenon DEF L!ALLOWED_ELECTION_TRANSITIONS, IInv, VotesInv
    <2>2. voteSet' = votes
      <3>1. \A v \in votes : v.version = configurationVersion /\ HasEvidence(v)
        BY EvidenceOfVotes
      <3> QED BY <1>3, <3>1 DEF Transition
    <2>3. votes \in SUBSET Vote BY DEF IInv, TypeOK
    <2>4. CountOf' = BoxOf(votes) BY <2>2, <2>3, <1>2 DEF CountOf, BoxOf
    <2>5. Polls = "ended" /\ Polls' = "ended" /\ CountOf = NoVote
      BY <1>1, <1>3, <2>1 DEF Polls, CountOf
    <2> QED BY <1>2, <2>4, <2>5 DEF Abstract!Next, Abstract!Count
  <1>4. CASE s # "COUNTING"
    <2>1. CountOf' = CountOf BY <1>4 DEF Transition, CountOf, BoxOf
    <2>2. CASE s \in {"DRAFT", "READY"}
      <3>1. status \in {"DRAFT", "READY"}
        BY <1>1, <2>2, Zenon DEF L!ALLOWED_ELECTION_TRANSITIONS
      <3>2. Polls' = Polls BY <1>1, <2>2, <3>1 DEF Polls
      <3> QED BY <1>2, <2>1, <3>2 DEF Abstract!vars
    <2>3. CASE s = "OPEN"
      <3>1. status = "READY" BY <1>1, <2>3, Zenon DEF L!ALLOWED_ELECTION_TRANSITIONS
      <3>2. Polls = "before" /\ Polls' = "open" BY <1>1, <2>3, <3>1 DEF Polls
      <3> QED BY <1>2, <2>1, <3>2 DEF Abstract!Next, Abstract!OpenPolls
    <2>4. CASE s \in {"CLOSED", "RESULTS_PUBLISHED", "CANCELLED"}
      <3>1. Polls' = "ended" BY <1>1, <2>4 DEF Polls
      <3> QED BY <1>2, <2>1, <3>1 DEF Abstract!Next, Abstract!EndPolls
    <2> QED BY <1>4, <2>2, <2>3, <2>4
  <1> QED BY <1>3, <1>4

LEMMA BoxStep == ASSUME IInv, IInv', [Next]_vars PROVE [Abstract!Next]_Abstract!vars
  <1>1. ASSUME NEW c \in Clients, CommitVote(c) PROVE Abstract!Next
    <2>1. NullifierOf[c] \in Nullifiers OBVIOUS
    <2> QED BY <1>1, <2>1, CommitCasts DEF Abstract!Next
  <1>2. ASSUME NEW s \in L!Status, Transition(s) PROVE [Abstract!Next]_Abstract!vars
    BY <1>2, TransitionMovesPolls
  <1>3. ASSUME UNCHANGED <<election, database>> PROVE UNCHANGED Abstract!vars
    BY <1>3 DEF Abstract!vars, Polls, BoxOf, CountOf
  <1>4. ASSUME NEW c \in Clients, Progress(c), ~CommitVote(c)
        PROVE  UNCHANGED <<election, database>>
    BY <1>4 DEF Progress, LoadAcceptanceContext, VerifyProof, BeginAccept, LockElection,
       InsertVote, InsertEvidence, Reply
  <1>5. ASSUME NEW c \in Clients, Submit(c) \/ LoseReply(c) \/ Abort(c)
        PROVE  UNCHANGED <<election, database>>
    BY <1>5 DEF Submit, LoseReply, Abort
  <1>6. CASE Tick BY <1>6, <1>3 DEF Tick
  <1>7. CASE UNCHANGED vars BY <1>7, <1>3 DEF vars
  <1> QED BY <1>1, <1>2, <1>3, <1>4, <1>5, <1>6, <1>7 DEF Next

\* For any number of clients and any interleaving, failure and retry of their
\* handlers, accepted_votes behaves as the ballot box: a slot filled once per
\* nullifier, only while the polls are open, and counted as the polls left it.
THEOREM VotingImplementsBallotBox == Spec => ImplementsBallotBox
  BY BoxInit, BoxStep, Invariance, PTL DEF Spec, ImplementsBallotBox, Abstract!Spec
=============================================================================
