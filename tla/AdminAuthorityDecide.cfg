SPECIFICATION Spec
CONSTANTS
  None = None
  Users = {ana, bo, cy}
  Supers = {ana, bo}
  Proposals = {p1}
  Initial <- Nothing
  Calls = {k1, k2, k3, k4}
  Exclusive = FALSE
SYMMETRY Symmetry
CHECK_DEADLOCK FALSE
INVARIANT DualControl
PROPERTIES GrantsAreSigned
