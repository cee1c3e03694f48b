SPECIFICATION Spec
CONSTANTS
  a = a
  b = b
  c = c
  here = here
  there = there
  Requests = {r1, r2}
  Reservations = {v1, v2}
  Pairs <- MCPairs
  Lines <- MCLines
  At <- MCAt
  Quantity <- MCQuantity
  Stock <- SteadyStock
  NoRow = NoRow
  Offered = {"create", "update", "fulfill", "release", "cancel", "delete"}
  MaxStarts = 3
SYMMETRY Symmetry
INVARIANT
  PromisedOnce
CHECK_DEADLOCK FALSE
