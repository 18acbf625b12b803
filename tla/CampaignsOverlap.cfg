\* Two overlapping requests of any kind around a campaign and its applicant,
\* or a conversation of three.
SPECIFICATION CheckSpec
CONSTANTS
  None = None
  Parts = {"campaigns", "messaging"}
  Brand = Brand
  Campaigns = {c1}
  Creators = {k1}
  Requests = {r1, r2}
  Endpoints <- AllEndpoints
  Moves = {"RECRUITING", "COMPLETED"}
  MaxSubmissions = 2
  Rows = {1, 2}
  Subjects = {s1}
  Members = {m1, m2, m3}
  MaxMessages = 1
SYMMETRY Symmetry
INVARIANTS LateEditsWereUnderway Dated AppliedToPublished Numbered UnreadTellsUnseen OnePerPair
\* When every row is taken and everyone is told there is nothing left to do.
CHECK_DEADLOCK FALSE
