SPECIFICATION FairSpec
CONSTANTS
  StartStatuses <- MCStartStatuses
  MaxElections = 2
  MaxMoves = 2
  MaxTasks = 2
  None = None
INVARIANTS
  OneOperation
  ShownWasThere
PROPERTIES
  ConfirmedShowsOutcome
  OperationEnds
