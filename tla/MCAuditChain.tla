---------------------------- MODULE MCAuditChain ----------------------------
\* Instances of AuditChain for TLC.
EXTENDS AuditChain, TLC

CONSTANTS s1, s2, c1, c2, p1, p2

MCSymmetry == Permutations({s1, s2}) \cup Permutations({c1, c2}) \cup Permutations({p1, p2})
=============================================================================
