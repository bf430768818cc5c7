----------------------------- MODULE MCRecovery -----------------------------
\* Instances of Recovery for TLC.
EXTENDS Recovery, TLC

CONSTANTS w1, w2, d1, f1, f2, r1, r2

MCSymmetry == Permutations(Workers) \cup Permutations(Files) \cup Permutations(Runs)
=============================================================================
