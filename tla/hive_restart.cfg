CONSTANTS
  MaxTasks = 2
  WorkerCount = 1
  MaxQueue = 2
  MaxRetries = 1
  MaxCrashes = 1
  MaxStops = 1
  MaxFaults = 0
  LateRequests = FALSE
  JoinTimeouts = FALSE
SPECIFICATION FairSpec
INVARIANTS CancelHonoured DurableWhenUnlocked StartedIsDurable OrderlyStopKeepsAll
PROPERTIES ImplementsService EveryTaskFinishes CancelTakesEffect StopReturns
