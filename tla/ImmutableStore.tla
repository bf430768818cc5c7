---------------------------- MODULE ImmutableStore ----------------------------
\* What VerificationArtifactStore promises its callers: under a content digest
\* there is nothing, or for good the whole package of that digest.
CONSTANTS Digests, Files, NoDirectory

VARIABLE directory   \* files of each digest's directory

Init == directory = [d \in Digests |-> NoDirectory]

PutImmutable(d) ==
  /\ directory[d] = NoDirectory
  /\ directory' = [directory EXCEPT ![d] = Files]

Next == \E d \in Digests : PutImmutable(d)

Spec == Init /\ [][Next]_directory
=============================================================================
