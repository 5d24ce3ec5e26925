CONSTANTS
  h1 = h1
  h2 = h2
  h3 = h3
  o1 = o1
  o2 = o2
  k1 = k1
  k2 = k2
  Handlers = {h1, h2}
  OrderIDs = {o1, o2}
  Keys = {k1, k2}
  None <- MCNone
  Torn = "torn key"
  MaxPays = 2
  Storages = {"postgres"}
  RepoMayFail = FALSE
  MayCrash = TRUE
SPECIFICATION ExclusiveSpec
SYMMETRY Symmetric
INVARIANTS
  IdempotentPay
PROPERTIES
  PaidNotUndone
  ImplementsLedger
