CONSTANTS
  MaxTasks = 1
  WorkerCount = 1
  MaxQueue = 1
  MaxRetries = 0
  MaxCrashes = 0
  MaxStops = 1
  MaxFaults = 0
  LateRequests = TRUE
  JoinTimeouts = FALSE
SPECIFICATION Spec
INVARIANT AcceptedTasksRecovered
