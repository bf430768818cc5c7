--------------------------- MODULE MCAdminSessions ---------------------------
\* Instances of AdminSessions for TLC.
EXTENDS AdminSessions, TLC

CONSTANTS r1, r2

MCSymmetry == Permutations(Handlers)
=============================================================================
