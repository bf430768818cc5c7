------------------------------ MODULE BallotBox ------------------------------
(***************************************************************************)
(* What vote acceptance promises, with no request, lock, clock or retry:   *)
(* a ballot box with one slot per nullifier.  A slot is filled once, only  *)
(* while the polls are open, and the count is taken of the box exactly as  *)
(* the polls left it.                                                      *)
(***************************************************************************)
CONSTANTS Nullifiers,   \* one per voter who may vote
          Encodings,    \* the option indexes a ballot may carry
          NoBallot, NoCount

VARIABLES polls,        \* "before", "open", "ended"
          box,          \* the ballot in the slot of each nullifier
          count         \* the box that was counted

vars == <<polls, box, count>>

Box == [Nullifiers -> Encodings \cup {NoBallot}]

Init == /\ polls = "before"
        /\ box = [n \in Nullifiers |-> NoBallot]
        /\ count = NoCount

OpenPolls == /\ polls = "before"
             /\ polls' = "open"
             /\ UNCHANGED <<box, count>>

Cast(n, e) == /\ polls = "open"
              /\ box[n] = NoBallot
              /\ box' = [box EXCEPT ![n] = e]
              /\ UNCHANGED <<polls, count>>

EndPolls == /\ polls' = "ended"
            /\ UNCHANGED <<box, count>>

Count == /\ polls = "ended"
         /\ count = NoCount
         /\ count' = box
         /\ UNCHANGED <<polls, box>>

Next == \/ OpenPolls \/ EndPolls \/ Count
        \/ \E n \in Nullifiers, e \in Encodings : Cast(n, e)

Spec == Init /\ [][Next]_vars
=============================================================================
