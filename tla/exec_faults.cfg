CONSTANTS
  Executors = {e1, e2}
  MaxPlan = 2
  MaxNodes = 3
  MaxSub = 2
  MaxForeign = 1
  MaxConcurrency = 2
  MaxInjections = 1
  Planner = TRUE
  Scaffolder = TRUE
  ScaffoldFaults = TRUE
  Overlap = FALSE
  MaxCrashes = 1
  MaxExternals = 1
SPECIFICATION Spec
INVARIANTS PlanIsDag PrerequisitesFirst
PROPERTIES OutcomeStays ReturnsDecided
SYMMETRY Symmetry
\* every run has ended and no other one is started
CHECK_DEADLOCK FALSE
