SPECIFICATION Spec
CONSTANTS
  Calls = {k1, k2, k3, k4, k5}
  MaxId = 2
  Amounts = {1}
  Settled = 2
  Ops <- AllOps
  Batches <- BothInOrder
  Serial = FALSE
  SameMillisecond = FALSE
SYMMETRY Symmetry
CHECK_DEADLOCK FALSE
PROPERTIES TerminalIsFinal FreezeHolds
