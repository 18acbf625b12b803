\* The payouts page after a payout was prepared on it.
SPECIFICATION CheckSpec
CONSTANTS
  None = None
  Campaigns = {c1}
  Creators = {k1}
  Ops = {o1, o2}
  Accounts = {a1}
  Documents = {d1}
  BrandDocuments = {}
  Creator = k1
  BrandUser = b
  Operator = o1
  Roles = {"brand"}
  Parts = {"portal"}
  Fields = {f1, f2}
  Sticky = {f2}
  Values = {v1}
  Default = Default
  Empty = Empty
  MaxSends = 2
  Slots = {n1}
  MaxWork = 0
INVARIANTS PreparedIsNotOffered
CHECK_DEADLOCK FALSE
