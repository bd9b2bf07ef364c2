SPECIFICATION FairSpec
CONSTANTS
  t1 = t1
  t2 = t2
  t3 = t3
  t4 = t4
  w0 = w0
  w1 = w1
  w2 = w2
  Task = {t1, t2, t4}
  Deps <- Independent
  Validation = {t2, t4}
  MayFail = {t1}
  MayOverrun = TRUE
  ToolStatus = {"completed"}
  Faults = {"io"}
  Former <- LeftOver
  Worker = {w0, w1}
  Main = main
  NoOne = NoOne
  Owner = {NoOwner}
  NoOwner = NoOwner
  NoCheckpoint = NoCheckpoint
INVARIANTS TypeOK WaveSettled InProgressHasWorker DrainedBeforeRaise
PROPERTIES CommandEnds
CHECK_DEADLOCK FALSE
