SPECIFICATION CheckSpec
CONSTANTS
  None = None
  Campaigns = {c1}
  Creators = {k1}
  Ops = {o1, o2}
  Accounts = {a1}
  Documents = {d1, d2}
  BrandDocuments = {d2}
  Creator = k1
  BrandUser = b
  Operator = o1
  Roles = {"creator", "brand", "admin", "manager", "qa", "finance"}
  Parts = {"portal", "forms"}
  Fields = {f1, f2}
  Sticky = {f2}
  Values = {v1}
  Default = Default
  Empty = Empty
  MaxSends = 2
  Slots = {n1, n2}
  MaxWork = 1
INVARIANTS PagesFollowTheServer OwnChangesShow NoDoublePress FormTellsRecord
SYMMETRY AnySlot
CHECK_DEADLOCK FALSE
