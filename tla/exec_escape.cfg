CONSTANTS
  Executors = {e1}
  MaxPlan = 1
  MaxNodes = 1
  MaxSub = 0
  MaxForeign = 0
  MaxConcurrency = 1
  MaxInjections = 0
  Planner = FALSE
  Scaffolder = TRUE
  ScaffoldFaults = TRUE
  Overlap = FALSE
  MaxCrashes = 0
  MaxExternals = 0
SPECIFICATION Spec
INVARIANTS RunningIsHandled
\* every run has ended and no other one is started
CHECK_DEADLOCK FALSE
