SPECIFICATION Spec
CONSTANTS
  Requests = {r1}
  m = m
  n = n
  Bill <- TwoMaterials
  Receipts = {}
  NoOrder = NoOrder
  Plans = {2}
  Outputs = {1}
  Scraps = {0}
  MaxStarts = 2
PROPERTY ClosedIsFinal
CHECK_DEADLOCK FALSE
