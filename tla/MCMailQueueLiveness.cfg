SPECIFICATION FairSpec
CONSTANTS
  Messages = {m1}
  Calls = {c1, c2}
  MaxAttempts = 3
  Limit = 2
  Modes = {TRUE, FALSE}
  MaxLosses = 2
PROPERTY
  EventuallySettled
