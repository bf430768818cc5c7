SPECIFICATION Spec
CONSTANTS
  c1 = c1
  c2 = c2
  c3 = c3
  n1 = n1
  n2 = n2
  Clients = {c1, c2}
  Nullifiers = {n1}
  NullifierOf <- MCNullifierOf2
  OptionCount = 2
  Submissions <- MCTwoOptions
  OpensAt = 1
  ClosesAt = 2
  MaxTime = 2
  MaxConfigurations = 1
  MaxAttempts = 2
  NoClient = NoClient
  NoVote = NoVote
PROPERTIES
  RetryRecoversReceipt
CHECK_DEADLOCK FALSE
