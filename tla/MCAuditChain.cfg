SPECIFICATION Spec
CONSTANTS
  s1 = s1
  s2 = s2
  c1 = c1
  c2 = c2
  p1 = p1
  p2 = p2
  Streams = {s1, s2}
  Callers = {c1, c2}
  Payloads = {p1, p2}
  MaxSequence = 3
  None = None
SYMMETRY MCSymmetry
INVARIANTS
  ChainIsIntact
PROPERTIES
  CheckpointsSeal
  VerificationSucceeds
  ImplementsLog
