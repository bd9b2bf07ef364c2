SPECIFICATION Spec
CONSTANTS
  p = p
  q = q
  w0 = w0
  Proc = {p, q}
  Worlds <- DockerWorld
  Threshold = 2
  Worker = {w0}
  WorkerOf <- OneWorker
  Task = {1, 2, 3}
  NoTask = NoTask
  NoId = NoId
  HEAD = HEAD
  Sessions = 3
  Keep = 1
  MaxRows = 3
  NoCopy = NoCopy
INVARIANT StagedReachesSandbox
