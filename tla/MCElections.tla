----------------------------- MODULE MCElections -----------------------------
\* Instances of Elections for TLC.
EXTENDS Elections, TLC

CONSTANTS a1, a2, k1, k2

MCWindows == {<<0, 1>>, <<1, 2>>}
MCOneWindow == {<<0, 1>>}
MCSymmetry == Permutations({a1, a2}) \cup Permutations(Credentials)
=============================================================================
