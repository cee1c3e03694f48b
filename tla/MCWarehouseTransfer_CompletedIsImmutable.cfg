SPECIFICATION Spec
CONSTANTS
  Requests = {r1, r2}
  Lines = {a}
  Locations = {x, y}
  NoTransfer = NoTransfer
  MaxPostings = 2
  MaxStarts = 4
  Offered = {"create", "submit", "dispatch", "receive", "cancel"}
PROPERTY
  CompletedIsImmutable
CHECK_DEADLOCK FALSE
