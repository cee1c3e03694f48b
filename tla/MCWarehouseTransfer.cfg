SPECIFICATION Spec
CONSTANTS
  Requests = {r1, r2}
  Lines = {a, b}
  Locations = {x, y}
  NoTransfer = NoTransfer
  MaxPostings = 2
  MaxStarts = 4
  Offered = {"create", "update", "addLine", "submit", "dispatch", "receive",
             "cancel", "delete"}
SYMMETRY Symmetry
INVARIANTS
  TypeOK
  BooksFollowDocument
  ClaimsArePosted
PROPERTIES
  TerminalIsFinal
CHECK_DEADLOCK FALSE
