SPECIFICATION DoorSpec
CONSTANTS
  None = None
  k1 = k1
  k2 = k2
  s1 = s1
  Workers = {w1, w2}
  Keys = {k1, k2}
  TxnKeys <- Rows
  OpeningKey = opening
  Devices = {d1}
  Amounts = {1}
  MaxCharge = 1
  Ops = {"create", "credit", "debit", "charge", "refund", "adjustUp", "adjustDown", "terminate", "freeze", "unfreeze", "close", "reconcile", "resolve"}
  Opening = 3
  VelocityLimit = 1
  Sales = {s1}
  Clerks = {c1}
  TierPrice = 2
  Back = 1
  MaxRows = 2
  ShiftDevices = {w1, w2}
  Sessions = {k1, k2}
  Calls = {q1, q2, q3}
  Requests = {"bind", "start", "reauthorize", "unbind", "revokeCode", "revokeSession", "makeCode", "scan", "sync", "deny", "heartbeat", "charge", "sell"}
  CodeTypes = {"full", "charge"}
  Parts = {"sales", "wallet", "shift", "entry"}
  MaxDevices = 2
  AllowReuse = FALSE
  Driver = "memory"
  Exclusive = FALSE
  single = single
  couple = couple
  unread = unread
  Singles = {single}
  Couples = {couple}
  Batches <- TwoDevices
  EntryRequests = {"scan", "confirm", "sync", "manual", "deny", "override"}
  Failures = TRUE
SYMMETRY Symmetry
CHECK_DEADLOCK FALSE
INVARIANTS MovedOnce RefundsNeedDebits RevokedShiftsEnd LedgerAgrees
PROPERTIES UnboundStaysUnbound
