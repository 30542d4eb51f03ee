SPECIFICATION MCSpec
CONSTANTS
  Orders = {o1, o2, bad}
  Defective = {bad}
  NumericMax = 6
  IntegerMax = 3
  Requests <- MCRequests
SYMMETRY OrderSymmetry
INVARIANTS
  TypeOK
  StoredIsPaid
  AcceptedMeansPlaced
  RefusesOnlyNonconforming
  ServedAsPlaced
PROPERTY ImplementsLedger
CHECK_DEADLOCK FALSE
