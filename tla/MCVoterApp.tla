----------------------------- MODULE MCVoterApp -----------------------------
\* Instances of VoterApp for TLC.
EXTENDS VoterApp

CONSTANTS k1, k2, o1, o2
=============================================================================
