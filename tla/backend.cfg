CONSTANTS
  h1 = h1
  h2 = h2
  u1 = u1
  u2 = u2
  u3 = u3
  Handlers = {h1, h2}
  DSN = TRUE
  QueryMayFail = TRUE
  MayRestart = TRUE
  OpenIDs = {"alice"}
  UserIDs = {u1, u2, u3}
  None = "no value"
  Photos = {"p1"}
  TaskIDs = {"t1"}
  OrderIDs = {"o1", "o2"}
SPECIFICATION Spec
SYMMETRY Symmetric
INVARIANTS
  TypeOK
  TokensNameTheirUser
  AdvertisedWhole
  SomeUpdateMoves
  ToldPhotosAreWhole
  OrdersHaveTheirTask
