----------------------------- MODULE MCResults -----------------------------
\* Instances of Results for TLC.
EXTENDS Results, TLC

CONSTANTS w1, w2

MCVoteSet == {"v1", "v2"}
MCSymmetry == Permutations(Workers)
=============================================================================
