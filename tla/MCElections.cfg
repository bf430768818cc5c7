SPECIFICATION Spec
CONSTANTS
  a1 = a1
  a2 = a2
  k1 = k1
  k2 = k2
  Admins = {a1, a2}
  Credentials = {k1}
  Windows <- MCWindows
  OptionLists = {1, 2}
  MaxTime = 1
  MaxRowVersion = 5
  MaxSnapshots = 2
  MaxConfigurations = 2
SYMMETRY MCSymmetry
INVARIANTS
  FrozenConfigurationInForce
PROPERTIES
  DecidedOnWhatIsThere
  FrozenForGood
  ImplementsLifecycle
CHECK_DEADLOCK FALSE
