SPECIFICATION Spec
CONSTANTS
  Requests = {r1, r2}
  Lines = {a, b}
  Variances <- SmallVariances
  Given <- SmallSheets
  NoCount = NoCount
  MaxAdjustments = 2
  MaxPostings = 2
  MaxStarts = 3
  Offered = {"create", "update", "assign", "start", "record", "approve", "cancel",
             "delete", "adjust", "approveAdjustment", "cancelAdjustment"}
SYMMETRY Symmetry
INVARIANTS
  TypeOK
  AdjustmentPostedOnce
  CountPostedOnce
  ApprovedIsReconciled
PROPERTIES
  ResolutionsStand
CHECK_DEADLOCK FALSE
