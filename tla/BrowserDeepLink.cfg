\* The messages page with a link to one of two conversations.
SPECIFICATION CheckSpec
CONSTANTS
  None = None
  Parts = {"messages"}
  Users = {u1}
  Tokens = {1}
  Requests = {r1}
  Endpoints = {"login", "refresh"}
  Statuses = {"ACTIVE"}
  MaxVersion = 0
  MaxWork = 0
  Convs = {c1, c2}
  Calls = {x1, x2}
  MaxRows = 0
INVARIANTS KeepsTheChoice
CHECK_DEADLOCK FALSE
