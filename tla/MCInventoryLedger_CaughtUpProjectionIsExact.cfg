SPECIFICATION Spec
CONSTANTS
  l1 = l1
  l2 = l2
  Locations = {l1, l2}
  NoLocation = NoLocation
  Components = {c1}
  Requests = {r1, r2}
  Inputs <- ReceiptAndIssue
  MaxLedger = 2
  NoRow = NoRow
INVARIANT
  CaughtUpProjectionIsExact
