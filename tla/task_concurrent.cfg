CONSTANTS
  h1 = h1
  h2 = h2
  h3 = h3
  t1 = t1
  t2 = t2
  Handlers = {h1, h2}
  TaskIDs = {t1}
  Colors <- TwoColors
  Lower <- MCLower
  Folded <- MCLower
  Joined <- MCJoined
  Baseline = Baseline
  Layout = Layout
  None <- MCNone
  Storages = {"memory", "postgres"}
  RepoMayFail = TRUE
  MayCrash = TRUE
SPECIFICATION Spec
SYMMETRY Goroutines
INVARIANTS
  TypeOK
  BaselineNeverTorn
  DoneHasWholeImage
  RecordedHasFile
  OwnershipInv
PROPERTIES
  StatusFinal
  ImplementsCatalog
