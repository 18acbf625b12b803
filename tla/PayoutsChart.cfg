\* A chart drawn by a server whose clock is ahead of UTC.
SPECIFICATION CheckSpec
CONSTANTS
  None = None
  Parts = {"series"}
  Apps = {a1}
  Requests = {r1, r2}
  Ops = {o1, o2}
  BrandUser = b
  Owner <- OwnerModel
  Amounts = {10}
  Percents = {14, 15}
  MaxPreparations = 2
  Payouts = {a1, a2}
  Creator = k1
  OtherBrand = b2
  ReportedAmounts = {10, 103}
  ReportedPercent = 15
  Vat = 13
  MaxMoves = 1
  Day = 2
  Offset = 1
  Tables = {"users", "payments"}
  MaxTime = 5
  MaxRows = 2
  Views = {v1, v2}
  Keys = {x1, x2}
  MaxEntries = 1
  MaxVersions = 1
INVARIANTS UtcDaysGapsFilled
