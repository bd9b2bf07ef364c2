SPECIFICATION Spec
CONSTANTS
  Task = {t1, t2}
  Coro = {c1, c2}
  NoOne = NoOne
  Entry = {e1, e2}
  s1 = s1
  k1 = k1
  Owner = {s1}
  NoOwner = NoOwner
  Checkpoint = {k1}
  NoCheckpoint = NoCheckpoint
  Former <- MCFormer
  Updates <- MCUpdates
  Ops <- AllOps
  Faults <- AllFaults
INVARIANTS TypeOK CleanCacheIsDisk FlushWritesWholeCache AckedNotDropped
PROPERTIES LedgerAppendOnly KeepsPromise
SYMMETRY Symmetry
