\* The comment at the kill in the exit listener of manager.ts, refuted: the server
\* that lost its wrapper is left alive, see the README.
SPECIFICATION Spec
CONSTANTS
  e1 = e1
  e2 = e2
  NoEngine = NoEngine
  Engines <- TwoEngines
  MaxRestarts = 1
  Attempts = 2
  Misses = 2
  MaxRequests = 1
  MaxBackoffs = 2
CHECK_DEADLOCK FALSE
INVARIANTS RestartsReap
