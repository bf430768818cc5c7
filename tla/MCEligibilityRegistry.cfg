SPECIFICATION RegistrySpec
CONSTANTS
  a1 = a1
  a2 = a2
  r1 = r1
  Registrars = {a1, a2}
  References = {r1}
  NoReference = NoReference
  Commitments = {1, 2, 3}
  TREE_DEPTH_V1 = 3
  ZERO_LEAF_V1 = 0
  Batches <- MCBatches
  MaxVoters = 2
  MaxVoterVersion = 2
SYMMETRY MCSymmetry
INVARIANTS
  OneLeafPerPerson
  RollIsProvable
PROPERTIES
  RotationReplaces
  WithdrawnIsFinal
CHECK_DEADLOCK FALSE
