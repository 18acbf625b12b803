\* A password reset, the requests of the user taking turns.
SPECIFICATION SerialSpec
CONSTANTS
  None = None
  Users = {u1}
  Tokens = {1, 2}
  Requests = {r1, r2}
  Endpoints <- ResetEndpoints
  Statuses = {}
  MaxVersion = 1
SYMMETRY Symmetry
INVARIANTS ResetEndsSessions
