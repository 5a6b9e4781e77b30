\* A pause, an export or a cancel while a run is being prepared.
SPECIFICATION Spec
CONSTANTS
  j1 = j1
  j2 = j2
  j3 = j3
  NoJob = NoJob
  Jobs <- TwoJobs
  Ranks <- UsedRanks
  MaxRequests = 1
CHECK_DEADLOCK FALSE
INVARIANTS StopReachesWorker
