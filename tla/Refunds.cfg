SPECIFICATION Spec
CONSTANTS
  None = None
  Calls = {k1, k2, k3, k4}
  Admins = {ana, bo, cy}
  Crashes = TRUE
SYMMETRY Symmetry
CHECK_DEADLOCK FALSE
INVARIANTS LockHasOneOwner FourEyes
PROPERTIES DecisionIsFinal
