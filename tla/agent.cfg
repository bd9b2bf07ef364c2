SPECIFICATION FairSpec
CONSTANTS
  Provider = {"gemini", "local"}
  MaxIterations = 7
  MaxCalls = 2
INVARIANTS TypeOK CallsAnsweredOnce WindowHeld OneTurnOverBudget
PROPERTIES RunEnds
CHECK_DEADLOCK FALSE
