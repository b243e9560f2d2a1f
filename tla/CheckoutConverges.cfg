SPECIFICATION FairSpec
CONSTANTS
  None = None
  k1 = k1
  k2 = k2
  k3 = k3
  p1 = p1
  p2 = p2
  u1 = u1
  u2 = u2
  w1 = w1
  w2 = w2
  Users = {u1, u2}
  Driver = "memory"
  Keys <- OneHold
  Payments <- TwoPayments
  Workers = {w1, w2}
  HoldOf <- SameHold
  Tight = {p2}
  Owner <- OneBuyer
  Qty <- Pairs
  MaxLineQty = 2
  Stock = 2
  MaxPerUser = 0
  MaxRefunds = 1
INVARIANTS SeatAdmittedOnce
PROPERTIES ImplementsFulfilment PaidOrderIsFulfilled CapturedMoneyIsOrdered
