SPECIFICATION Spec
CONSTANTS
  Requests = {r1, r2}
  a = a
  b = b
  zero = zero
  Lines = {a, b, zero}
  PostsNothing = {zero}
  Kinds = {"supplierReturn", "stockCount", "consumption", "finishedGoods"}
  NoDocument = NoDocument
  MaxStarts = 3
SYMMETRY Symmetry
INVARIANTS
  TypeOK
  LedgerFollowsDocument
  EffectIsPosted
PROPERTY
  EffectIsFinal
CHECK_DEADLOCK FALSE
