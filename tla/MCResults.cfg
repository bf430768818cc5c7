SPECIFICATION FairSpec
CONSTANTS
  w1 = w1
  w2 = w2
  Workers = {w1, w2}
  VoteSet <- MCVoteSet
  MaxVersions = 2
  MaxCorruptions = 2
  MaxCrashes = 1
INVARIANTS
  PublicationIsAtomic
  AuditTellsTheOutcome
PROPERTIES
  PublicationCompletes
CHECK_DEADLOCK FALSE
