CONSTANTS
  k1 = k1

  Chunks <- MCChunks
  Modes = {"auto", "web"}
  MaxModelCalls = 5
  MaxToolCalls = 3
  MaxSearches = 2
  MaxDelegations = 2
  MaxPerAgent = 2
  MaxSources = 3
  MaxTasks = 1
  MaxRounds = 1
  MaxFaults = 1
SPECIFICATION FairSpec
INVARIANTS
  CitationsGraded
  BudgetSpansRun
PROPERTIES
  ReplayExact
  TurnEnds
CHECK_DEADLOCK FALSE
