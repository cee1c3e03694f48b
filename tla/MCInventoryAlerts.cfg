SPECIFICATION AlertSpec
CONSTANTS
  Runs = {e1, e2}
  Scheduled = {e1}
  Quantities = {0, 2}
  Reserved = {0, 1}
  Thresholds = {0, 1}
  NoStock = NoStock
  MaxEvents = 2
INVARIANTS
  AlertTypeOK
  AnnouncedOnce
PROPERTY
  AlertsConverge
