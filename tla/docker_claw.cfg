SPECIFICATION FairSpec
CONSTANTS
  MaxRetries = 2
  MaxErrors = 2
  HostSet <- MC_Hosts
  WorkerCap = 8
INVARIANTS AttemptLeavesNothing LimitsFit
PROPERTIES ResultIsGenuine TaskEnds
CHECK_DEADLOCK FALSE
