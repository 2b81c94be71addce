CONSTANTS
  Executors = {e1, e2}
  MaxPlan = 1
  MaxNodes = 3
  MaxSub = 1
  MaxForeign = 1
  MaxConcurrency = 1
  MaxInjections = 1
  Planner = TRUE
  Scaffolder = FALSE
  ScaffoldFaults = FALSE
  Overlap = TRUE
  MaxCrashes = 0
  MaxExternals = 0
SPECIFICATION FairSpec
INVARIANTS RunningIsHandled
PROPERTIES RunEnds
\* every run has ended and no other one is started
CHECK_DEADLOCK FALSE
