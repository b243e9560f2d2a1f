SPECIFICATION OnceSpec
CONSTANTS
  None = None
  c1 = c1
  c2 = c2
  c3 = c3
  body1 = body1
  body2 = body2
  Hashes = {body1, body2}
  HashOf <- ReusedKey
  Callers = {c1, c2, c3}
  Driver = "memory"
  Faults = {"workFails", "expiry"}
  MaxCalls = 4
  e1 = e1
  e2 = e2
  e3 = e3
  h1 = h1
  h2 = h2
  Events = {e1, e2, e3}
  Handlers = {h1, h2}
  Subscribed <- TwoEach
  Traffic = {e3}
  MaxAttempts = 2
  Limit = 2
CHECK_DEADLOCK FALSE
INVARIANTS ReplayFaithful NothingInvented HandledOnce ProcessedIsHandled
PROPERTIES ImplementsOnceOnly KeyIsFreed DrainsMakeProgress
