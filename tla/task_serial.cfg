CONSTANTS
  h1 = h1
  h2 = h2
  h3 = h3
  t1 = t1
  t2 = t2
  Handlers = {h1}
  TaskIDs = {t1}
  Colors <- OddColors
  Lower <- MCLower
  Folded <- MCLower
  Joined <- MCJoined
  Baseline = Baseline
  Layout = Layout
  None <- MCNone
  Storages = {"postgres"}
  RepoMayFail = FALSE
  MayCrash = TRUE
SPECIFICATION FairSpec
INVARIANTS
  RecordedIsWhole
  AnsweredIsRecorded
  PublishedIsSettled
PROPERTIES
  TaskSettles
