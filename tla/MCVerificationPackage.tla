------------------------ MODULE MCVerificationPackage ------------------------
(* Nullifiers whose numeric and textual orders differ, two options, two    *)
(* configurations.                                                         *)
EXTENDS VerificationPackage

MCNullifiers == {2, 9, 10}
MCOptions == {0, 1}
MCConfigurations == {1, 2}
=============================================================================
