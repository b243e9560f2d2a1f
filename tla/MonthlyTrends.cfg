SPECIFICATION Spec
CONSTANTS
  None = None
  c1 = c1
  c2 = c2
  Calls = {c1, c2}
  Parts = {"analytics"}
  Tiers = {r1}
  MaxEventVersion = 4
  b0 = b0
  Blocks = {b1, b2, b3}
  Offered = b0
  LastMark = 2
  MaxSlotsRead = 3
  SlotRequests = {q1}
  MaxVenueVersion = 4
  Assignments = {a1, a2}
  Promos = {d1}
  Tables = {d2}
  Rates = {15}
  MaxAssignmentVersion = 3
  Disputes = {d1}
  Accounts = {b1, b2}
  MaxAccountVersion = 4
  Keys = {s1, s2}
  Capacity = 2
  Price = 101
  Plans = {"basic", "diamond"}
  VenueRates = {20, 90}
  t1 = t1
  t2 = t2
  Tickets = {t1, t2}
  Messages = {w1}
  MaxTicketVersion = 3
  Reports = {v1}
  Guests = {g1}
  MaxDeskVersion = 4
  Followers = {f1, f2}
  Notices = {k1, k2}
  Tastes = {z1, z2}
  LastProfile = 3
  y1 = y1
  y2 = y2
  Classes = {y1, y2}
  DoorPrices = {101, 350}
  PercentsOff = {50}
  PaiseOff = {250}
  TermsSigned <- OwnTerms
  DaysInYear = 3
  LastDay = 2
  Attendees = {u1, u2}
  Places = 1
  LastMinute = 3
  OtpExpiry = 2
  MaxAttempts = 2
  MaxCodes = 2
  Budgeted = {n1, n2, n3}
  Budget = 2
  Window = 2
  MaxTracked = 2
  LastInstant = 4
  Watchers = {w1, w2}
  Entries = {1, 2, 3, 4}
  Clamp = 2
  Limit = 2
  WideLimit = 3
  MaxScan = 3
  MaxPages = 2
  MaxPerActor = 1
  MaxGlobal = 2
  LastReading = 2
  TimeToLive = 2
  e2 = e2
  o1 = o1
  o2 = o2
  Purchases = {o1, o2}
  Shows = {e1, e2}
  Billings <- BothBilled
  Instants = {2, 3, 6}
  Spans <- SomeSpans
  HoursPerDay = 2
  DaysPerMonth = 2
  MaxBuckets = 5
  GrandTotal = 2
  Quantity = 2
  MaxScans = 1
SYMMETRY Symmetry
CHECK_DEADLOCK FALSE
INVARIANT MonthsAddUp
