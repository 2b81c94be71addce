CONSTANTS
  MaxTasks = 3
  WorkerCount = 2
  MaxQueue = 2
  MaxRetries = 1
  MaxCrashes = 0
  MaxStops = 0
  MaxFaults = 0
  LateRequests = FALSE
  JoinTimeouts = FALSE
SPECIFICATION Spec
INVARIANTS NoDoubleExecution QueueBound AttemptBound
PROPERTIES FinishedStays
