SPECIFICATION Spec
CONSTANTS
  r1 = r1
  r2 = r2
  Handlers = {r1, r2}
  MaxTokens = 1
  idleSeconds = 1
  absoluteSeconds = 2
  MaxTime = 4
  MaxRevocations = 2
  None = None
SYMMETRY MCSymmetry
INVARIANTS
  LifetimesAreKept
  RevokedAreRefused
CHECK_DEADLOCK FALSE
