SPECIFICATION Spec
CONSTANTS
  l1 = l1
  l2 = l2
  Locations = {l1, l2}
  NoLocation = NoLocation
  Components = {c1}
  Requests = {r1, r2}
  Inputs <- ReceiptAndTransfer
  MaxLedger = 2
  NoRow = NoRow
SYMMETRY RequestSymmetry
INVARIANTS
  TypeOK
  ProjectionIsSomePastBalance
  UndisturbedRebuildIsExact
PROPERTIES
  SurvivingHistoryKeepsItsMeaning
