CONSTANTS
  Executors = {e1}
  MaxPlan = 1
  MaxNodes = 2
  MaxSub = 1
  MaxForeign = 1
  MaxConcurrency = 1
  MaxInjections = 1
  Planner = TRUE
  Scaffolder = FALSE
  ScaffoldFaults = FALSE
  Overlap = FALSE
  MaxCrashes = 0
  MaxExternals = 0
SPECIFICATION Spec
PROPERTIES StallsRaise
\* every run has ended and no other one is started
CHECK_DEADLOCK FALSE
