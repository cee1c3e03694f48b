SPECIFICATION Spec
CONSTANTS
  Messages = {m1, m2}
  Calls = {c1, c2}
  MaxAttempts = 2
  Limit = 2
  Modes = {TRUE, FALSE}
  MaxLosses = 1
SYMMETRY Symmetry
INVARIANTS
  TypeOK
  OneHolder
  DeliveredOncePerAnswer
  StatusIsEarned
PROPERTIES
  ImplementsDelivery
