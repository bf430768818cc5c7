-------------------------- MODULE SubmissionMachine --------------------------
(***************************************************************************)
(* The submission of one vote as voting/submission-machine.ts draws it: the*)
(* states the voter sees and the events that may move them.  The page of   *)
(* VoterApp asks this machine before most of its changes of state.         *)
(***************************************************************************)
SubmissionState == {"READY", "GENERATING_PROOF", "PROOF_READY", "SUBMITTING",
                    "UNKNOWN_OUTCOME", "ACCEPTED", "REJECTED"}

\* The transitions of each state: the event and where it leads.
transitions ==
  [s \in SubmissionState |->
     CASE s = "READY"            -> {<<"GENERATE", "GENERATING_PROOF">>}
       [] s = "GENERATING_PROOF" -> {<<"PROOF_CREATED", "PROOF_READY">>, <<"RESET", "READY">>}
       [] s = "PROOF_READY"      -> {<<"SUBMIT", "SUBMITTING">>, <<"RESET", "READY">>}
       [] s = "SUBMITTING"       -> {<<"ACCEPT", "ACCEPTED">>, <<"REJECT", "REJECTED">>,
                                     <<"TIMEOUT", "UNKNOWN_OUTCOME">>}
       [] s = "UNKNOWN_OUTCOME"  -> {<<"RETRY", "SUBMITTING">>}
       [] s = "REJECTED"         -> {<<"RESET", "READY">>}
       [] OTHER                  -> {}]

\* Where event e leads from state s: a singleton, or empty where the code throws.
transitionSubmission(s, e) == {t \in SubmissionState : <<e, t>> \in transitions[s]}
=============================================================================
