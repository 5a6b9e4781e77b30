\* Two jobs, pauses, cancels and exports at every step of a runner.
SPECIFICATION FairSpec
CONSTANTS
  j1 = j1
  j2 = j2
  j3 = j3
  NoJob = NoJob
  Jobs <- TwoJobs
  Ranks <- UsedRanks
  MaxRequests = 3
CHECK_DEADLOCK FALSE
INVARIANTS TypeOK NoIdleSlot OneInference StopRemembered
PROPERTIES NoRunUnderHold WindowsKept ImplementsContract JobsSettle
