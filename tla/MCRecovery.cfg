SPECIFICATION RecoverySpec
CONSTANTS
  w1 = w1
  w2 = w2
  d1 = d1
  f1 = f1
  f2 = f2
  r1 = r1
  r2 = r2
  Workers = {w1, w2}
  Digests = {d1}
  Files = {f1, f2}
  Runs = {r1, r2}
  MaxEvents = 1
  MaxRestores = 1
  MaxFaults = 1
  NoDigest = NoDigest
  NoFile = NoFile
  Nothing = Nothing
SYMMETRY MCSymmetry
INVARIANTS
  BackupsAreSound
  TapeCompletesTheDump
PROPERTIES
  ImplementsStore
  RestoreIsTheBackup
CHECK_DEADLOCK FALSE
