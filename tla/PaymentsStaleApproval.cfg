\* Two overlapping requests: approval against a retry.
SPECIFICATION Spec
CONSTANTS
  o1 = o1
  o2 = o2
  b = b
  None = None
  Apps = {a1}
  Requests = {r1, r2}
  Ops <- OpsModel
  Owner <- OwnerModel
  Amounts = {10}
  Percents = {14, 15}
  MaxPreparations = 2
SYMMETRY OpsSymmetry
INVARIANTS NeverPreparerAndApprover
