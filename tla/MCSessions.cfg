SPECIFICATION SessionSpec
CONSTANTS
  p1 = p1
  p2 = p2
  Reqs = {p1, p2}
  LOCKOUT_THRESHOLD = 2
  LOCKOUT_MINUTES = 1
  JWT_ACCESS_TTL = 1
  JWT_REFRESH_TTL = 2
  MaxOps = 3
  MaxTime = 2
  None = None
INVARIANTS
  AcceptedIsFresh
  LockoutExact
PROPERTIES
  TabKeepsLiveSession
  RequestsSettle
CHECK_DEADLOCK FALSE
