\* A patch accepted while the run is still working: the run can never be closed.
SPECIFICATION Spec
CONSTANTS
  CommandIds = {c1, c2}
  Patches = {p1}
  ClientKinds <- EveryCommand
  ExpectedRevisions = {NoRevision}
  StreamStatuses = {}
  MaxRevision = 1
  MaxLedger = 0
  SnapshotInterval = 3
  OptionalLimit = 0
  StreamLimit = 0
  WalLimit = 5
  MaxIntegrity = 4
  Failures = {"crash"}
  NoCommand = NoCommand
  NoPatch = NoPatch
  NoRevision = NoRevision
CHECK_DEADLOCK FALSE
INVARIANTS OrphansClosed
