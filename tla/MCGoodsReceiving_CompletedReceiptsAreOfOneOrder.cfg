SPECIFICATION Spec
CONSTANTS
  Requests = {r1, r2}
  l1 = l1
  l2 = l2
  g1 = g1
  g2 = g2
  g3 = g3
  g4 = g4
  x = x
  OrderLines = {l1, l2}
  OtherLines = {x}
  Receipts = {d1, d2}
  GoodsLines = {g1, g2, g3, g4}
  Ordered <- MCOrdered
  Against <- MCAgainst
  Quantity <- MCQuantity
  Offered <- MCOffered
  NoOrder = NoOrder
  MaxStarts = 2
SYMMETRY Symmetry
INVARIANT CompletedReceiptsAreOfOneOrder
CHECK_DEADLOCK FALSE
