SPECIFICATION Spec
CONSTANTS
  Requests = {r1, r2}
  m = m
  n = n
  Bill <- TwoMaterials
  Receipts = {f1}
  NoOrder = NoOrder
  Plans = {2}
  Outputs = {1, 3}
  Scraps = {0, 1}
  MaxStarts = 3
SYMMETRY Symmetry
INVARIANTS
  TypeOK
  MaterialsMatchGoods
  BooksFollowProduction
CHECK_DEADLOCK FALSE
