SPECIFICATION FairSpec
CONSTANTS
  Provider = {"local"}
  MaxIterations = 5
  MaxCalls = 2
PROPERTIES PruneNeverGrows
CHECK_DEADLOCK FALSE
