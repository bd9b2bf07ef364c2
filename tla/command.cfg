SPECIFICATION FairSpec
CONSTANTS
  p = p
  q = q
  w0 = w0
  Proc = {p, q}
  Worlds <- MCWorlds
  Threshold = 2
  Worker = {w0}
  WorkerOf <- OneWorker
  Task = {1, 2, 3}
  NoTask = NoTask
  NoId = NoId
  HEAD = HEAD
  Sessions = 3
  Keep = 1
  MaxRows = 3
  NoCopy = NoCopy
INVARIANTS TypeOK NoLeaks SandboxReady ArchivedIsFiled AcksSurvive OrdinaryIdsUnique
PROPERTIES Reconnects
