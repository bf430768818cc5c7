SPECIFICATION FairSpec
CONSTANTS
  c1 = c1
  c2 = c2
  c3 = c3
  n1 = n1
  n2 = n2
  Clients = {c1, c2, c3}
  Nullifiers = {n1, n2}
  NullifierOf <- MCNullifierOf3
  OptionCount = 2
  Submissions <- MCSubmissions
  OpensAt = 1
  ClosesAt = 2
  MaxTime = 2
  MaxConfigurations = 2
  MaxAttempts = 1
  NoClient = NoClient
  NoVote = NoVote
INVARIANTS
  OneVotePerNullifier
  VotesAreValid
  CountIsComplete
  AnswersMatchTheBox
PROPERTIES
  ImplementsBallotBox
  EverySubmissionEnds
CHECK_DEADLOCK FALSE
