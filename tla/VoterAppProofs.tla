---------------------------- MODULE VoterAppProofs ----------------------------
(***************************************************************************)
(* Theorems about VoterApp, for any credentials and options and any number *)
(* of requests.                                                            *)
(***************************************************************************)
EXTENDS VoterApp, TLAPS

\* The machine of submission-machine.ts never leads out of its states.
LEMMA MachineStates ==
  ASSUME NEW s \in M!SubmissionState, NEW e, NEW t \in M!transitionSubmission(s, e)
  PROVE  t \in M!SubmissionState
  BY DEF M!transitionSubmission

\* SUBMIT and RETRY lead to SUBMITTING, from the two states that hold a proof.
LEMMA MachineSubmits ==
  ASSUME NEW s \in M!SubmissionState,
         NEW t \in M!transitionSubmission(s, IF s = "UNKNOWN_OUTCOME" THEN "RETRY" ELSE "SUBMIT")
  PROVE  s \in {"PROOF_READY", "UNKNOWN_OUTCOME"} /\ t = "SUBMITTING"
  BY DEF M!transitionSubmission, M!transitions, M!SubmissionState

\* The answer to a request moves a submission that waits, and no other.
LEMMA MachineSettles ==
  ASSUME NEW s \in M!SubmissionState, NEW e \in {"ACCEPT", "REJECT", "TIMEOUT"},
         NEW t \in M!transitionSubmission(s, e)
  PROVE  s = "SUBMITTING" /\ t \in {"ACCEPTED", "REJECTED", "UNKNOWN_OUTCOME"}
  BY DEF M!transitionSubmission, M!transitions, M!SubmissionState

\* RESET leads to READY.
LEMMA MachineResets ==
  ASSUME NEW s \in M!SubmissionState, NEW t \in M!transitionSubmission(s, "RESET")
  PROVE  t = "READY"
  BY DEF M!transitionSubmission, M!transitions, M!SubmissionState

-----------------------------------------------------------------------------
\* The page as it is when its manifest has been validated satisfies the invariant.
LEMMA InitInv == Init => IInv
  BY VoterAppAssumption DEF Init, IInv, TypeOK, RenderedInv, RequestsInv, HeldIsSelected,
     RetryIsSameVote, ReceiptIsRecorded, OneProofAtATime, M!SubmissionState, Requests

\* What only changes the credential or its material leaves the submission alone.
LEMMA CredentialInv ==
  ASSUME IInv, UNCHANGED <<selected, generated, receipt, state, worker, network>>, renderFlow,
         credential' \in Credentials, eligibility' \in Credentials \cup {None}
  PROVE  IInv'
  <1>1. TypeOK'
    BY DEF IInv, TypeOK, renderFlow, network
  <1>2. RenderedInv'
    BY VoterAppAssumption DEF RenderedInv, renderFlow
  <1>3. RequestsInv' /\ RetryIsSameVote' /\ ReceiptIsRecorded'
    BY DEF IInv, RequestsInv, RetryIsSameVote, ReceiptIsRecorded, network
  <1>4. HeldIsSelected' /\ OneProofAtATime'
    BY DEF IInv, HeldIsSelected, OneProofAtATime
  <1> QED BY <1>1, <1>2, <1>3, <1>4 DEF IInv

\* A change of the selection drops the proof and the submission with it.
LEMMA SelectInv == ASSUME IInv, NEW o \in Options, Select(o) PROVE IInv'
  <1> USE DEF Select
  <1>1. TypeOK'
    BY DEF IInv, TypeOK, M!SubmissionState, network
  <1>2. RenderedInv' /\ HeldIsSelected' /\ RetryIsSameVote'
    BY DEF IInv, RenderedInv, HeldIsSelected, RetryIsSameVote
  <1>3. RequestsInv' /\ ReceiptIsRecorded'
    BY DEF IInv, RequestsInv, ReceiptIsRecorded, network
  <1>4. OneProofAtATime'
    BY DEF OneProofAtATime
  <1> QED BY <1>1, <1>2, <1>3, <1>4 DEF IInv

\* A generation starts only where the rendered page had no proof, and with material.
LEMMA GenerateInv == ASSUME IInv, Generate PROVE IInv'
  <1> USE DEF Generate
  <1>1. generated = None
    BY DEF IInv, RenderedInv, GenerateEnabled
  <1>2. eligibility \in Credentials /\ credential \in Credentials
    BY DEF IInv, RenderedInv, GenerateEnabled, TypeOK
  <1>3. worker' \in Generation /\ worker'.vote.option = selected /\ worker' # None
    BY <1>2, VoterAppAssumption DEF IInv, TypeOK, Generation, Vote
  <1>4. TypeOK'
    BY <1>3 DEF IInv, TypeOK, M!SubmissionState, renderFlow, network
  <1>5. RenderedInv'
    BY DEF IInv, RenderedInv, renderFlow
  <1>6. RequestsInv' /\ ReceiptIsRecorded'
    BY DEF IInv, RequestsInv, ReceiptIsRecorded, network
  <1>7. HeldIsSelected' /\ RetryIsSameVote'
    BY DEF HeldIsSelected, RetryIsSameVote
  <1>8. OneProofAtATime'
    BY <1>1, <1>3 DEF OneProofAtATime
  <1> QED BY <1>4, <1>5, <1>6, <1>7, <1>8 DEF IInv

\* The worker's end and a cancellation leave the machine in a state without proof,
\* or with the proof of the option that is still selected.
LEMMA WorkerInv == ASSUME IInv, Cancel \/ WorkerEnds PROVE IInv'
  <1>1. /\ worker' = None /\ renderFlow /\ UNCHANGED <<credential, eligibility, selected, receipt, network>>
        /\ \/ state' = "READY" /\ generated' \in {generated, IF worker = None THEN None ELSE worker.vote}
           \/ state' = "PROOF_READY" /\ state = "GENERATING_PROOF" /\ worker # None /\ generated' = worker.vote
    BY DEF Cancel, WorkerEnds, ProofReady, ProofFailed
  <1>2. worker # None => worker.vote \in Vote
    BY DEF IInv, TypeOK, Generation
  <1>3. TypeOK'
    BY <1>1, <1>2 DEF IInv, TypeOK, M!SubmissionState, renderFlow, network
  <1>4. RenderedInv'
    BY <1>1 DEF IInv, RenderedInv, renderFlow
  <1>5. RequestsInv' /\ ReceiptIsRecorded'
    BY <1>1 DEF IInv, RequestsInv, ReceiptIsRecorded, network
  <1>6. HeldIsSelected'
    BY <1>1, <1>2, VoterAppAssumption DEF IInv, HeldIsSelected, OneProofAtATime
  <1>7. RetryIsSameVote' /\ OneProofAtATime'
    BY <1>1 DEF RetryIsSameVote, OneProofAtATime
  <1> QED BY <1>3, <1>4, <1>5, <1>6, <1>7 DEF IInv

\* A submission sends the proof at hand.
LEMMA SubmitInv == ASSUME IInv, Submit PROVE IInv'
  <1> USE DEF Submit
  <1>1. state \in {"PROOF_READY", "UNKNOWN_OUTCOME"} /\ state' = "SUBMITTING"
    BY MachineSubmits DEF IInv, TypeOK
  <1>2. PICK i \in Free : requests' = [requests EXCEPT ![i] =
                              [vote |-> generated, server |-> "none", settled |-> FALSE]]
    OBVIOUS
  <1>3. i \in Requests /\ requests[i] = None
    BY DEF Free
  <1>4. [vote |-> generated, server |-> "none", settled |-> FALSE] \in Request
    BY DEF IInv, TypeOK, Request
  <1>5. TypeOK'
    BY <1>1, <1>2, <1>4 DEF IInv, TypeOK, M!SubmissionState, renderFlow
  <1>6. RenderedInv'
    BY DEF IInv, RenderedInv, renderFlow
  <1>7. RequestsInv'
    BY <1>2, <1>3 DEF IInv, TypeOK, RequestsInv
  <1>8. ReceiptIsRecorded' /\ HeldIsSelected'
    BY <1>1 DEF IInv, ReceiptIsRecorded, HeldIsSelected
  <1>9. RetryIsSameVote'
    <2>1. requests'[i] # None /\ requests'[i].vote = generated'
      BY <1>2, <1>3, <1>4, VoterAppAssumption DEF IInv, TypeOK
    <2> QED BY <2>1, <1>3 DEF RetryIsSameVote
  <1>10. OneProofAtATime'
    BY <1>1 DEF IInv, OneProofAtATime
  <1> QED BY <1>5, <1>6, <1>7, <1>8, <1>9, <1>10 DEF IInv

\* What the server records stays recorded.
LEMMA ServerInv == ASSUME IInv, NEW i \in Requests, ServerAnswers(i) PROVE IInv'
  <1> USE DEF ServerAnswers, fields
  <1>1. requests[i] \in Request /\ requests[i].vote \in Vote
    BY DEF IInv, TypeOK, Request
  <1>2. PICK answer \in {"accepted", "refused"} :
          /\ requests' = [requests EXCEPT ![i].server = answer]
          /\ answer = "refused" => ballot' = ballot
          /\ answer = "accepted" =>
               /\ ballot[requests[i].vote.credential] \in {None, requests[i].vote.option}
               /\ ballot' = [ballot EXCEPT ![requests[i].vote.credential] = requests[i].vote.option]
    OBVIOUS
  <1>3. requests'[i] \in Request /\ requests'[i].vote = requests[i].vote /\ requests'[i] # None
    BY <1>1, <1>2, VoterAppAssumption DEF IInv, TypeOK, Request
  <1>4. \A j \in Requests : /\ j # i => requests'[j] = requests[j]
                            /\ requests'[j] = None <=> requests[j] = None
                            /\ requests[j] # None => requests'[j].vote = requests[j].vote
    BY <1>2, <1>3 DEF IInv, TypeOK
  <1>5. \A k \in Credentials : ballot[k] # None => ballot'[k] = ballot[k]
    BY <1>1, <1>2 DEF IInv, TypeOK, Vote
  <1>6. TypeOK'
    <2>1. requests' \in [Requests -> Request \cup {None}]
      BY <1>2, <1>3 DEF IInv, TypeOK
    <2>2. ballot' \in [Credentials -> Options \cup {None}]
      BY <1>1, <1>2 DEF IInv, TypeOK, Vote
    <2> QED BY <2>1, <2>2 DEF IInv, TypeOK
  <1>7. RequestsInv'
    <2> SUFFICES ASSUME NEW j \in Requests, requests'[j] # None, requests'[j].server = "accepted"
                 PROVE  ballot'[requests'[j].vote.credential] = requests'[j].vote.option
      BY DEF RequestsInv
    <2>1. CASE j = i
      <3>1. answer = "accepted"
        BY <2>1, <1>1, <1>2 DEF IInv, TypeOK, Request
      <3> QED BY <3>1, <2>1, <1>1, <1>2, <1>3 DEF IInv, TypeOK, Vote
    <2>2. CASE j # i
      <3>1. requests[j] \in Request /\ requests[j].vote \in Vote /\ requests'[j] = requests[j]
        BY <2>2, <1>4 DEF IInv, TypeOK, Request
      <3>2. ballot[requests[j].vote.credential] = requests[j].vote.option
        BY <3>1 DEF IInv, RequestsInv
      <3> QED BY <3>1, <3>2, <1>5, VoterAppAssumption DEF Vote
    <2> QED BY <2>1, <2>2
  <1>8. ReceiptIsRecorded'
    BY <1>5, VoterAppAssumption DEF IInv, TypeOK, ReceiptIsRecorded, Vote
  <1>9. RetryIsSameVote'
    BY <1>4 DEF IInv, RetryIsSameVote
  <1>10. RenderedInv' /\ HeldIsSelected' /\ OneProofAtATime'
    BY DEF IInv, RenderedInv, HeldIsSelected, OneProofAtATime
  <1> QED BY <1>6, <1>7, <1>8, <1>9, <1>10 DEF IInv

\* An answer ends the submission that waits, or leaves the page as it is.
LEMMA SettleInv == ASSUME IInv, NEW i \in Requests, Settles(i) PROVE IInv'
  <1>1. PICK event \in {"ACCEPT", "REJECT", "TIMEOUT"} :
          Settle(i, event) /\ (event = "ACCEPT" => requests[i].server = "accepted")
    BY DEF Settles, Accepted, Refused, Timeout, Garbled
  <1> USE DEF Settle
  <1>2. requests[i] \in Request /\ requests[i].vote \in Vote
    BY <1>1 DEF IInv, TypeOK, Request
  <1>3. requests'[i] \in Request /\ requests'[i] # None
        /\ requests'[i].vote = requests[i].vote /\ requests'[i].server = requests[i].server
    BY <1>1, <1>2, VoterAppAssumption DEF IInv, TypeOK, Request
  <1>4. \A j \in Requests : /\ requests'[j] = None <=> requests[j] = None
                            /\ requests[j] # None => /\ requests'[j].vote = requests[j].vote
                                                     /\ requests'[j].server = requests[j].server
    BY <1>1, <1>3 DEF IInv, TypeOK
  <1>5. \/ /\ state = "SUBMITTING" /\ state' \in {"ACCEPTED", "REJECTED", "UNKNOWN_OUTCOME"}
           /\ renderFlow
        \/ state' = state /\ shown' = shown
    BY <1>1, MachineSettles DEF IInv, TypeOK
  <1>6. TypeOK'
    <2>1. requests' \in [Requests -> Request \cup {None}]
      BY <1>1, <1>3 DEF IInv, TypeOK
    <2>2. receipt' \in Vote \cup {None}
      BY <1>1, <1>2 DEF IInv, TypeOK
    <2>3. state' \in M!SubmissionState
      BY <1>5 DEF IInv, TypeOK, M!SubmissionState
    <2>4. shown' \in [eligible : BOOLEAN, generated : BOOLEAN, state : M!SubmissionState]
      <3>1. CASE renderFlow
        BY <3>1, <2>3 DEF renderFlow
      <3>2. CASE shown' = shown
        BY <3>2 DEF IInv, TypeOK
      <3> QED BY <3>1, <3>2, <1>5
    <2> QED BY <1>1, <2>1, <2>2, <2>3, <2>4 DEF IInv, TypeOK
  <1>7. RenderedInv'
    <2>1. UNCHANGED <<credential, eligibility, generated>>
      BY <1>1
    <2>2. shown' = shown \/ (shown'.generated = (generated' # None)
                             /\ shown'.eligible = (eligibility' # None))
      BY <1>5 DEF renderFlow
    <2> QED BY <2>1, <2>2 DEF IInv, RenderedInv
  <1>8. RequestsInv'
    BY <1>1, <1>4 DEF IInv, RequestsInv
  <1>9. ReceiptIsRecorded'
    BY <1>1, <1>2 DEF IInv, ReceiptIsRecorded, RequestsInv
  <1>10. HeldIsSelected' /\ OneProofAtATime'
    BY <1>1, <1>5 DEF IInv, HeldIsSelected, OneProofAtATime
  <1>11. RetryIsSameVote'
    BY <1>1, <1>4, <1>5 DEF IInv, RetryIsSameVote
  <1> QED BY <1>6, <1>7, <1>8, <1>9, <1>10, <1>11 DEF IInv

\* A rejected submission is given up with its proof.
LEMMA ResetInv == ASSUME IInv, Reset PROVE IInv'
  <1> USE DEF Reset
  <1>1. state' = "READY"
    BY MachineResets DEF IInv, TypeOK
  <1>2. TypeOK'
    BY <1>1 DEF IInv, TypeOK, M!SubmissionState, renderFlow, network
  <1>3. RenderedInv'
    BY DEF IInv, RenderedInv, renderFlow
  <1>4. RequestsInv' /\ ReceiptIsRecorded'
    BY DEF IInv, RequestsInv, ReceiptIsRecorded, network
  <1>5. HeldIsSelected' /\ RetryIsSameVote' /\ OneProofAtATime'
    BY <1>1, MachineResets DEF IInv, HeldIsSelected, RetryIsSameVote, OneProofAtATime
  <1> QED BY <1>2, <1>3, <1>4, <1>5 DEF IInv

-----------------------------------------------------------------------------
\* Every step of the voter, the worker and the server preserves the invariant.
LEMMA NextInv == IInv /\ [Next]_vars => IInv'
  <1> SUFFICES ASSUME IInv, [Next]_vars PROVE IInv'
    OBVIOUS
  <1>1. ASSUME NEW k \in Credentials, CreateCredential(k) \/ ImportCredential(k) PROVE IInv'
    BY <1>1, CredentialInv DEF CreateCredential, ImportCredential, IInv, TypeOK
  <1>2. CASE ImportEligibility
    BY <1>2, CredentialInv DEF ImportEligibility, IInv, TypeOK
  <1>3. ASSUME NEW o \in Options, Select(o) PROVE IInv'
    BY <1>3, SelectInv
  <1>4. CASE Generate
    BY <1>4, GenerateInv
  <1>5. CASE Cancel \/ WorkerEnds
    BY <1>5, WorkerInv
  <1>6. CASE Submit
    BY <1>6, SubmitInv
  <1>7. CASE Reset
    BY <1>7, ResetInv
  <1>8. ASSUME NEW i \in Requests, ServerAnswers(i) PROVE IInv'
    BY <1>8, ServerInv
  <1>9. ASSUME NEW i \in Requests, Settles(i) PROVE IInv'
    BY <1>9, SettleInv
  <1>10. CASE UNCHANGED vars
    BY <1>10 DEF vars, fields, network, IInv, TypeOK, RenderedInv, RequestsInv, HeldIsSelected,
       RetryIsSameVote, ReceiptIsRecorded, OneProofAtATime
  <1> QED BY <1>1, <1>2, <1>3, <1>4, <1>5, <1>6, <1>7, <1>8, <1>9, <1>10 DEF Next, Voter

\* The inductive invariant of the page holds in every reachable state.
THEOREM Invariance == Spec => []IInv
  BY InitInv, NextInv, PTL DEF Spec

\* Every field of the page keeps its type.
THEOREM TypeCorrect == Spec => []TypeOK
  <1>1. IInv => TypeOK BY DEF IInv
  <1> QED BY Invariance, <1>1, PTL

\* What the page submits or retries is a proof of the option selected on it, for any
\* interleaving of clicks, cancelled generations and late proofs and answers.
THEOREM HeldSelection == Spec => []HeldIsSelected
  <1>1. IInv => HeldIsSelected BY DEF IInv
  <1> QED BY Invariance, <1>1, PTL

\* A submission that waits or is to be retried is one that was sent.
THEOREM SameVote == Spec => []RetryIsSameVote
  <1>1. IInv => RetryIsSameVote BY DEF IInv
  <1> QED BY Invariance, <1>1, PTL

\* A receipt on the page is that of a recorded vote.
THEOREM RecordedReceipt == Spec => []ReceiptIsRecorded
  <1>1. IInv => ReceiptIsRecorded BY DEF IInv
  <1> QED BY Invariance, <1>1, PTL

\* A proof that is at hand excludes one under way.
THEOREM SingleProof == Spec => []OneProofAtATime
  <1>1. IInv => OneProofAtATime BY DEF IInv
  <1> QED BY Invariance, <1>1, PTL

\* The selection, the proof and the submission on the page are of one vote.
THEOREM SingleVote == Spec => []OneVoteOnThePage
  <1>1. IInv => OneVoteOnThePage BY DEF IInv, OneVoteOnThePage
  <1> QED BY Invariance, <1>1, PTL
=============================================================================
