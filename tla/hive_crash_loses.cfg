CONSTANTS
  MaxTasks = 1
  WorkerCount = 1
  MaxQueue = 1
  MaxRetries = 0
  MaxCrashes = 1
  MaxStops = 0
  MaxFaults = 0
  LateRequests = FALSE
  JoinTimeouts = FALSE
SPECIFICATION Spec
INVARIANT AcceptedTasksRecovered
