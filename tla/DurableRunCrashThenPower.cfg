\* A crash of the host, a restart, and then a loss of power.
SPECIFICATION Spec
CONSTANTS
  CommandIds = {c1, c2}
  Patches = {}
  ClientKinds <- StreamCommands
  ExpectedRevisions = {NoRevision}
  StreamStatuses = {}
  MaxRevision = 0
  MaxLedger = 0
  SnapshotInterval = 3
  OptionalLimit = 0
  StreamLimit = 2
  WalLimit = 4
  MaxIntegrity = 3
  Failures = {"crash", "power"}
  NoCommand = NoCommand
  NoPatch = NoPatch
  NoRevision = NoRevision
CHECK_DEADLOCK FALSE
INVARIANTS SnapshotWithinLog
