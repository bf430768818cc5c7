------------------------------ MODULE Lifecycle ------------------------------
(***************************************************************************)
(* What the row of an election promises to every other component: its      *)
(* status only moves along the transitions election-status.ts allows, and  *)
(* its configuration version grows by one each time the election becomes   *)
(* READY and never otherwise.  Who may take a transition, on which         *)
(* evidence and after which checks is the business of the modules that     *)
(* implement this one.                                                     *)
(***************************************************************************)
EXTENDS Naturals

VARIABLES status, configurationVersion

Status == {"DRAFT", "READY", "OPEN", "CLOSED", "COUNTING",
           "RESULTS_PUBLISHED", "CANCELLED"}

\* Set-valued: the states an election may move to from a given one.
ALLOWED_ELECTION_TRANSITIONS ==
  [s \in Status |->
     CASE s = "DRAFT"    -> {"READY", "CANCELLED"}
       [] s = "READY"    -> {"DRAFT", "OPEN", "CANCELLED"}
       [] s = "OPEN"     -> {"CLOSED", "CANCELLED"}
       [] s = "CLOSED"   -> {"COUNTING", "CANCELLED"}
       [] s = "COUNTING" -> {"RESULTS_PUBLISHED", "CANCELLED"}
       [] OTHER          -> {}]

Init == /\ status = "DRAFT"
        /\ configurationVersion = 0

\* prepare is the only transition that numbers a new configuration.
MoveTo(s) ==
  /\ s \in ALLOWED_ELECTION_TRANSITIONS[status]
  /\ status' = s
  /\ configurationVersion' = IF s = "READY" THEN configurationVersion + 1
                                            ELSE configurationVersion

Next == \E s \in Status : MoveTo(s)

Spec == Init /\ [][Next]_<<status, configurationVersion>>
=============================================================================
