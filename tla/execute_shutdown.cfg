SPECIFICATION Spec
CONSTANTS
  t1 = t1
  t2 = t2
  t3 = t3
  t4 = t4
  w0 = w0
  w1 = w1
  w2 = w2
  Task = {t1, t2, t3}
  Deps <- Independent
  Validation = {}
  MayFail = {}
  MayOverrun = TRUE
  ToolStatus = {}
  Faults = {}
  Former <- Fresh
  Worker = {w0, w1}
  Main = main
  NoOne = NoOne
  Owner = {s1}
  NoOwner = NoOwner
  NoCheckpoint = NoCheckpoint
INVARIANTS NoneLeftInProgress
SYMMETRY Symmetry
CHECK_DEADLOCK FALSE
