CONSTANTS
  h1 = h1
  h2 = h2
  Handlers = {h1, h2}
  DSN = TRUE
  QueryMayFail = TRUE
  MayRestart = TRUE
  MaxOrders = 3
  MaxInt = 15
  MaxAlloc = 10
  Pages = {1, 2, 3, 15}
  Sizes = {1, 2, 15}
SPECIFICATION Spec
SYMMETRY Symmetric
INVARIANTS
  TypeOK
  PagesFitTotal
  WalkMissesNothing
  WalkInv
