SPECIFICATION Spec
CONSTANTS
  Requests = {r1, r2}
  a = a
  b = b
  zero = zero
  Lines = {a, b, zero}
  PostsNothing = {zero}
  Kinds = {"supplierReturn", "stockCount", "consumption", "finishedGoods"}
  NoDocument = NoDocument
  MaxStarts = 3
PROPERTY
  DispatchedReturnsKeepTheirLines
CHECK_DEADLOCK FALSE
