CONSTANTS
  h1 = h1
  h2 = h2
  h3 = h3
  o1 = o1
  o2 = o2
  k1 = k1
  k2 = k2
  Handlers = {h1, h2}
  OrderIDs = {o1}
  Keys = {k1, k2}
  None <- MCNone
  Torn = "torn key"
  MaxPays = 3
  Storages = {"memory", "postgres"}
  RepoMayFail = TRUE
  MayCrash = TRUE
SPECIFICATION Spec
SYMMETRY Symmetric
INVARIANTS
  PayInv
  TypeOK
  PaidOnlyAfterNotice
  ParamsHaveKey
  ParamsMatchKey
PROPERTIES
  KeyNeverCleared
