CONSTANTS
  MaxTasks = 2
  WorkerCount = 1
  MaxQueue = 2
  MaxRetries = 1
  MaxCrashes = 1
  MaxStops = 1
  MaxFaults = 1
  LateRequests = TRUE
  JoinTimeouts = TRUE
SPECIFICATION Spec
INVARIANTS TypeOK UnsettledRunIsCurrent RunningIsBacked RunningBound
\* a dead scheduler, an exhausted bound: the controller may really stop
CHECK_DEADLOCK FALSE
