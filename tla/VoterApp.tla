------------------------------- MODULE VoterApp -------------------------------
(***************************************************************************)
(* The page of a voter, from the validated manifest to the receipt:        *)
(* credential, eligibility material, selection, proof, submission, retry.  *)
(* JavaScript runs one callback at a time; what interleaves are the        *)
(* voter's clicks, the messages of the proof worker and the answers of the *)
(* server, each of which continues an async function that started long     *)
(* before.  renderFlow rebuilds every panel from the fields of the page;   *)
(* between two calls of it the panels, and which buttons they offer, stay  *)
(* as they were rendered, whatever the fields have become.                 *)
(***************************************************************************)
EXTENDS Naturals

CONSTANTS
  Credentials,    \* credentials the voter may create or import
  Options,
  MaxRequests,    \* bound on the votes POSTed
  None

Requests == 1 .. MaxRequests

\* what a proof says: who votes for what
Vote == [credential : Credentials, option : Options]
\* what a generation is given; the path it uses is that of one credential
Generation == [vote : Vote, eligibility : Credentials]
\* a POST of a vote: what the server did, and whether its promise is settled
Request == [vote : Vote, server : {"none", "accepted", "refused"}, settled : BOOLEAN]

ASSUME VoterAppAssumption ==
  /\ MaxRequests \in Nat
  /\ None \notin Credentials /\ None \notin Options
  /\ None \notin Vote /\ None \notin Generation /\ None \notin Request

VARIABLES
  credential, eligibility,   \* eligibility: the credential its material is for
  selected,                  \* selectedEncoding
  generated, receipt,        \* the vote of the proof, and of the receipt
  state,                     \* of the submission
  worker,                    \* the generation the proof worker is busy with
  shown,                     \* what renderFlow last rendered from
  requests,                  \* the votes POSTed
  ballot                     \* the vote the server recorded for each credential

fields == <<credential, eligibility, selected, generated, receipt, state>>
network == <<requests, ballot>>
vars == <<fields, worker, shown, network>>

M == INSTANCE SubmissionMachine

TypeOK ==
  /\ credential \in Credentials \cup {None}
  /\ eligibility \in Credentials \cup {None}
  /\ selected \in Options \cup {None}
  /\ generated \in Vote \cup {None}
  /\ receipt \in Vote \cup {None}
  /\ state \in M!SubmissionState
  /\ worker \in Generation \cup {None}
  /\ shown \in [eligible : BOOLEAN, generated : BOOLEAN, state : M!SubmissionState]
  /\ requests \in [Requests -> Request \cup {None}]
  /\ ballot \in [Credentials -> Options \cup {None}]

Init ==
  /\ credential = None /\ eligibility = None /\ selected = None
  /\ generated = None /\ receipt = None
  /\ state = "READY"
  /\ worker = None
  /\ shown = [eligible |-> FALSE, generated |-> FALSE, state |-> "READY"]
  /\ requests = [i \in Requests |-> None]
  /\ ballot = [k \in Credentials |-> None]

\* the panels are rebuilt from the fields as the callback leaves them
renderFlow ==
  shown' = [eligible |-> eligibility' # None, generated |-> generated' # None, state |-> state']
-----------------------------------------------------------------------------
\* What the rendered panels offer.

GenerateEnabled == shown.eligible /\ shown.state # "GENERATING_PROOF" /\ ~shown.generated
CancelVisible == shown.state = "GENERATING_PROOF"
SubmitEnabled == shown.generated /\ shown.state \notin {"SUBMITTING", "ACCEPTED", "REJECTED"}
ResetVisible == shown.generated /\ shown.state = "REJECTED"
-----------------------------------------------------------------------------
\* Credential and eligibility material.

\* createCredential; the material of another credential is forgotten
CreateCredential(k) ==
  /\ credential' = k
  /\ eligibility' = None
  /\ UNCHANGED <<selected, generated, receipt, state, worker, network>>
  /\ renderFlow

\* a credential file; the material that was imported before is kept
ImportCredential(k) ==
  /\ credential' = k
  /\ UNCHANGED <<eligibility, selected, generated, receipt, state, worker, network>>
  /\ renderFlow

\* parseEligibilityMaterial accepts material of this credential only
ImportEligibility ==
  /\ credential # None
  /\ eligibility' = credential
  /\ UNCHANGED <<credential, selected, generated, receipt, state, worker, network>>
  /\ renderFlow
-----------------------------------------------------------------------------
\* Ballot and proof.

\* Mutant of Select: the proof of the previous selection is kept.
SelectKeepingProof(o) ==
  /\ credential # None /\ selected # o
  /\ selected' = o
  /\ UNCHANGED <<credential, eligibility, generated, receipt, state, worker, shown, network>>

\* a radio button changes: the proof is dropped in any state and nothing is rendered
Select(o) ==
  /\ credential # None /\ selected # o
  /\ selected' = o
  /\ generated' = None
  /\ state' = "READY"
  /\ UNCHANGED <<credential, eligibility, receipt, worker, shown, network>>

\* generateProof, once the voter has confirmed the selection.  A worker that is
\* still busy is cancelled; the handler that awaits it goes on right after this
\* one and puts the state back to READY.
Generate ==
  /\ GenerateEnabled /\ selected # None /\ state = "READY"
  /\ state' = IF worker = None THEN "GENERATING_PROOF" ELSE "READY"
  /\ worker' = [vote |-> [credential |-> credential, option |-> selected],
                eligibility |-> eligibility]
  /\ UNCHANGED <<credential, eligibility, selected, generated, receipt, network>>
  /\ renderFlow

\* "Cancelar generacion": the cancelled handler puts the state to READY once more
Cancel ==
  /\ CancelVisible
  /\ worker' = None
  /\ state' = "READY"
  /\ UNCHANGED <<credential, eligibility, selected, generated, receipt, network>>
  /\ renderFlow

\* the worker is done: its proof is kept before the machine is asked, and where
\* that throws the state becomes READY
ProofReady ==
  /\ worker # None /\ worker.eligibility = worker.vote.credential
  /\ generated' = worker.vote
  /\ worker' = None
  /\ state' = IF state = "GENERATING_PROOF" THEN "PROOF_READY" ELSE "READY"
  /\ UNCHANGED <<credential, eligibility, selected, receipt, network>>
  /\ renderFlow

\* an artefact does not download, a digest differs, or the path does not fit
ProofFailed ==
  /\ worker # None
  /\ worker' = None
  /\ state' = "READY"
  /\ UNCHANGED <<credential, eligibility, selected, generated, receipt, network>>
  /\ renderFlow
-----------------------------------------------------------------------------
\* Submission.

Free == {i \in Requests : requests[i] = None}

\* submitVote, for the first time or as a retry
Submit ==
  /\ SubmitEnabled /\ generated # None
  /\ state' \in M!transitionSubmission(state, IF state = "UNKNOWN_OUTCOME" THEN "RETRY" ELSE "SUBMIT")
  /\ \E i \in Free :
       /\ \A j \in Free : i <= j
       /\ requests' = [requests EXCEPT ![i] =
                         [vote |-> generated, server |-> "none", settled |-> FALSE]]
  /\ UNCHANGED <<credential, eligibility, selected, generated, receipt, worker, ballot>>
  /\ renderFlow

\* the server records a vote or finds it recorded; it refuses another vote of the
\* same credential, or any vote for reasons of its own.  It may do so after the
\* client gave up.
ServerAnswers(i) ==
  /\ requests[i] # None /\ requests[i].server = "none"
  /\ LET v == requests[i].vote IN
     \/ /\ ballot[v.credential] \in {None, v.option}
        /\ ballot' = [ballot EXCEPT ![v.credential] = v.option]
        /\ requests' = [requests EXCEPT ![i].server = "accepted"]
     \/ /\ requests' = [requests EXCEPT ![i].server = "refused"]
        /\ UNCHANGED ballot
  /\ UNCHANGED <<fields, worker, shown>>

\* Mutants of Settle: a network error leaves the submission where it is; the
\* receipt is taken to be that of the vote at hand.
SettleNoTimeout(i, event) ==
  /\ requests[i] # None /\ ~requests[i].settled
  /\ requests' = [requests EXCEPT ![i].settled = TRUE]
  /\ receipt' = IF event = "ACCEPT" THEN requests[i].vote ELSE receipt
  /\ UNCHANGED <<credential, eligibility, selected, generated, worker, ballot>>
  /\ \/ /\ event # "TIMEOUT"
        /\ state' \in M!transitionSubmission(state, event)
        /\ renderFlow
     \/ /\ event = "TIMEOUT" \/ M!transitionSubmission(state, event) = {}
        /\ UNCHANGED <<state, shown>>
SettleWithHeld(i, event) ==
  /\ requests[i] # None /\ ~requests[i].settled
  /\ requests' = [requests EXCEPT ![i].settled = TRUE]
  /\ receipt' = IF event = "ACCEPT" THEN generated ELSE receipt
  /\ UNCHANGED <<credential, eligibility, selected, generated, worker, ballot>>
  /\ \/ /\ state' \in M!transitionSubmission(state, event)
        /\ renderFlow
     \/ /\ M!transitionSubmission(state, event) = {}
        /\ UNCHANGED <<state, shown>>

\* the promise of request i settles.  Where the machine has no such transition it
\* throws, twice for an acceptance, and nothing is rendered.
Settle(i, event) ==
  /\ requests[i] # None /\ ~requests[i].settled
  /\ requests' = [requests EXCEPT ![i].settled = TRUE]
  /\ receipt' = IF event = "ACCEPT" THEN requests[i].vote ELSE receipt
  /\ UNCHANGED <<credential, eligibility, selected, generated, worker, ballot>>
  /\ \/ /\ state' \in M!transitionSubmission(state, event)
        /\ renderFlow
     \/ /\ M!transitionSubmission(state, event) = {}
        /\ UNCHANGED <<state, shown>>

Accepted(i) == requests[i] # None /\ requests[i].server = "accepted" /\ Settle(i, "ACCEPT")
Refused(i) == requests[i] # None /\ requests[i].server = "refused" /\ Settle(i, "REJECT")

\* fetch fails: NETWORK_ERROR
Timeout(i) == Settle(i, "TIMEOUT")

\* the answer arrives but its body does not, or a gateway answers in place of the
\* server: an error that is not NETWORK_ERROR
Garbled(i) == Settle(i, "REJECT")

\* "Regenerar prueba"
Reset ==
  /\ ResetVisible
  /\ state' \in M!transitionSubmission(state, "RESET")
  /\ generated' = None
  /\ UNCHANGED <<credential, eligibility, selected, receipt, worker, network>>
  /\ renderFlow

Voter ==
  \/ \E k \in Credentials : CreateCredential(k) \/ ImportCredential(k)
  \/ ImportEligibility
  \/ \E o \in Options : Select(o)
  \/ Generate \/ Cancel \/ Submit \/ Reset

WorkerEnds == ProofReady \/ ProofFailed

Settles(i) == Accepted(i) \/ Refused(i) \/ Timeout(i) \/ Garbled(i)

Next ==
  \/ Voter \/ WorkerEnds
  \/ \E i \in Requests : ServerAnswers(i) \/ Settles(i)

Spec == Init /\ [][Next]_vars

\* The worker ends and every fetch settles; the voter and the server owe nothing.
FairSpec == Spec /\ WF_vars(WorkerEnds) /\ \A i \in Requests : WF_vars(Settles(i))
-----------------------------------------------------------------------------
\* Properties.

\* From the proof on, the page holds a proof of the option that is selected on the
\* page: what a click submits or retries is never another selection, however
\* clicks, cancelled generations and late proofs interleave.
HeldIsSelected ==
  state \in {"PROOF_READY", "SUBMITTING", "UNKNOWN_OUTCOME", "ACCEPTED", "REJECTED"} =>
    generated # None /\ generated.option = selected

\* A retry sends a vote that was sent before, and a submission that waits or whose
\* outcome is unknown is the one the page holds.
RetryIsSameVote ==
  state \in {"SUBMITTING", "UNKNOWN_OUTCOME"} =>
    \E i \in Requests : requests[i] # None /\ requests[i].vote = generated

\* A receipt is always that of the vote the server holds for its credential, even if
\* it arrives while the page is about another vote.
ReceiptIsRecorded ==
  receipt # None => ballot[receipt.credential] = receipt.option

\* One proof is at hand or under way, never both: a late proof of a selection that
\* was given up cannot replace the one that is about to be submitted.
OneProofAtATime ==
  /\ worker # None => generated = None /\ state \in {"READY", "GENERATING_PROOF"}
  /\ state = "GENERATING_PROOF" => worker # None /\ worker.vote.option = selected

\* The page is about one vote: the selection it shows, the proof it holds or awaits,
\* and what it submits or retries are the same, however clicks on stale panels,
\* cancelled generations and late answers interleave.
OneVoteOnThePage == HeldIsSelected /\ RetryIsSameVote /\ OneProofAtATime

\* A page that is busy does not stay so: a worker or a request ends it.
NothingHangs ==
  \A s \in {"GENERATING_PROOF", "SUBMITTING"} : state = s ~> state # s

\* The voter may change the selection and confirm it as long as nothing is on its
\* way: docs/14 on going back before the commit.
SelectionCanBeConfirmed ==
  /\ state = "READY" /\ worker = None /\ eligibility # None /\ selected # None
  => GenerateEnabled

\* While the page waits for the vote it holds, and the server recorded that vote, an
\* answer that is lost or garbled is never shown as a rejection.
LostAnswerIsUnknown ==
  [][\A i \in Requests :
       /\ state = "SUBMITTING" /\ requests[i] # None /\ Settles(i)
       /\ requests[i].server = "accepted" /\ requests[i].vote = generated
       => state' # "REJECTED"]_vars
-----------------------------------------------------------------------------
\* The inductive invariant behind the properties.  A proof at hand is one that was
\* rendered, which is why no generation can start beside it; a button that needs
\* material is offered only while there is some; and what the server accepted is
\* what it holds.

RenderedInv ==
  /\ generated # None => shown.generated
  /\ shown.eligible => eligibility # None
  /\ eligibility # None => credential # None

RequestsInv ==
  \A i \in Requests : requests[i] # None /\ requests[i].server = "accepted" =>
    ballot[requests[i].vote.credential] = requests[i].vote.option

IInv == /\ TypeOK /\ RenderedInv /\ RequestsInv
        /\ HeldIsSelected /\ RetryIsSameVote /\ ReceiptIsRecorded /\ OneProofAtATime
=============================================================================
