------------------------------ MODULE MCVoting ------------------------------
\* Instances of Voting for TLC.
EXTENDS Voting, TLC

CONSTANTS c1, c2, c3, n1, n2

\* c1 and c2 are two devices of one voter, c3 belongs to another voter
MCNullifierOf2 == (c1 :> n1) @@ (c2 :> n1)
MCNullifierOf3 == (c1 :> n1) @@ (c2 :> n1) @@ (c3 :> n2)

\* Both options with a proof for the first configuration, an option outside the
\* mapping, and a proof for the second configuration that does not verify.
Ballot(e, v, p) == [encoding |-> e, version |-> v, proof |-> p]
MCTwoOptions == {Ballot(0, 1, "valid"), Ballot(1, 1, "valid")}
MCSubmissions == MCTwoOptions \cup {Ballot(2, 1, "valid"), Ballot(1, 2, "invalid")}
=============================================================================
