SPECIFICATION Spec
CONSTANTS
  None = None
  k1 = k1
  k2 = k2
  k3 = k3
  p1 = p1
  p2 = p2
  u1 = u1
  u2 = u2
  w1 = w1
  w2 = w2
  Users = {u1, u2}
  Driver = "memory"
  Keys <- TwoHolds
  Payments <- TwoPayments
  Workers = {w1, w2}
  HoldOf <- OwnHold
  Tight = {}
  Owner <- OneBuyer
  Qty <- Singles
  MaxLineQty = 2
  Stock = 1
  MaxPerUser = 0
  MaxRefunds = 0
INVARIANT NeverOversold
