SPECIFICATION Spec
CONSTANTS
  None = None
  Calls = {c1, c2}
  founder = founder
  Founder = founder
  Users = {founder, u1}
  Invitations = {i1}
  FeesProposed = {10}
  MaxOrgVersion = 4
  Sessions = {s1}
  SessionLife = 2
  UpdateAge = 1
  LastDate = 2
  LastMove = 3
  LastPassword = 2
  Trades = {{"host", "promoter"}}
  p1 = p1
  p2 = p2
  Partnerships = {p1, p2}
  Connections = {x1, x2}
  Shares = {20}
  MaxRelVersion = 3
  Promoters = {m1, m2}
  Codes = {a1, a2}
  Orders = {o1}
  AttemptLimit = 1
  MaxLinkVersion = 3
  MaxClicks = 1
  Applications = {n1}
  MaxAppVersion = 5
SYMMETRY Symmetry
CHECK_DEADLOCK FALSE
INVARIANTS AcceptedMeansJoined CodesAreOwned
PROPERTIES MembershipIsKept ClosedIsFinal ApprovalIsSound
