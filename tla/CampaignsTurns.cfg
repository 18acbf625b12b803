\* The requests for one campaign take turns.
SPECIFICATION CheckSpec
CONSTANTS
  None = None
  Parts = {"turns", "reliable"}
  Brand = Brand
  Campaigns = {c1}
  Creators = {k1, k2}
  Requests = {r1, r2}
  Endpoints <- SerialEndpoints
  Moves = {"DRAFT", "RECRUITING", "SHORTLISTING", "PRODUCTION", "REVIEW", "PUBLISHED", "COMPLETED", "CANCELLED"}
  MaxSubmissions = 1
PROPERTIES KeepsTheRules ApplicantsAreTold
