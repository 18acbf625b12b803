\* Two calls of a tab, requests or calls of the messages page at a time.
SPECIFICATION CheckSpec
CONSTANTS
  None = None
  Parts = {"client", "sessions", "messages"}
  Users = {u1}
  Tokens = {1, 2, 3}
  Requests = {r1, r2}
  Endpoints <- AllEndpoints
  Statuses = {"ACTIVE", "SUSPENDED"}
  MaxVersion = 2
  MaxWork = 3
  Convs = {c1, c2}
  Calls = {x1, x2}
  MaxRows = 2
INVARIANTS RotationReplaces SignOutAllEnds KeepsAWorkingToken SignInsAndOutsTake ShowsTheThread
PROPERTIES StaleAccessStaysDead EveryCallSettles
\* A messages page whose first list failed waits to be loaded again.
CHECK_DEADLOCK FALSE
