SPECIFICATION FairSpec
CONSTANTS
  k1 = k1
  k2 = k2
  o1 = o1
  o2 = o2
  Credentials = {k1, k2}
  Options = {o1, o2}
  MaxRequests = 2
  None = None
INVARIANTS
  OneVoteOnThePage
  ReceiptIsRecorded
PROPERTIES
  NothingHangs
