\* Engines that crash, hang, lose their wrapper or their server, restarts by the
\* host at any step, and its end.
SPECIFICATION FairSpec
CONSTANTS
  e1 = e1
  e2 = e2
  NoEngine = NoEngine
  Engines <- TwoEngines
  MaxRestarts = 1
  Attempts = 2
  Misses = 2
  MaxRequests = 1
  MaxBackoffs = 2
CHECK_DEADLOCK FALSE
INVARIANTS TypeOK OnlyOrphansEscape CrashLoopEnds Attended
PROPERTIES StartingEnds SilenceNoticed
