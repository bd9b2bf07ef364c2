SPECIFICATION Spec
CONSTANTS
  N = 3
  gone = gone
  Foreign = {gone}
  f1 = f1
  f2 = f2
  File = {f1, f2}
  StartAt = 1
  Snapshots <- MCSnapshots
INVARIANTS TypeOK DependenciesFirst WavesConflictFree ScheduledOnce ErrorOnlyWhenStuck WaveMaximal
PROPERTIES PlanningEnds
CHECK_DEADLOCK FALSE
