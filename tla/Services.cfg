\* Two overlapping requests of any kind about one user's account, codes and
\* other rows.
SPECIFICATION CheckSpec
CONSTANTS
  None = None
  Parts = {"codes", "disputes", "profiles"}
  Users = {u1}
  Rows = {1, 2}
  Requests = {r1, r2}
  AttemptLimit = 1
  Purposes = {"REGISTER", "PASSWORD_RESET"}
  Statuses = {"BANNED"}
  Engagements = {g1}
  Chores = {k1}
  Platforms = {p1}
  Urls = {x1, x2}
SYMMETRY Symmetry
INVARIANTS
  AttemptsBounded TurnsAreKept AccountsAreWhole
  DisputesAreDue ResolvedAreDone ProfilesAreLinked VerdictsAreTold
\* When every row is taken and everyone is told there is nothing left to do.
CHECK_DEADLOCK FALSE
