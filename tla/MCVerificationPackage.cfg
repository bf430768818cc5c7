SPECIFICATION Spec
CONSTANTS
  Nullifiers <- MCNullifiers
  Options <- MCOptions
  Configurations <- MCConfigurations
  TrustedKey = TrustedKey
  ForeignKey = ForeignKey
  MaxRelists = 1
CHECK_DEADLOCK FALSE
INVARIANTS
  CountingNeverStalls
  GeneratedVerifies
  RecordedIsInForce
  VerifiedVotesAreProved
  VerifiedTotalsAdd
  ReverifiedIsTheBox
