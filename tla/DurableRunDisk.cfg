\* A long stream, with losses of power and failing writes.
SPECIFICATION Spec
CONSTANTS
  CommandIds = {c1, c2}
  Patches = {}
  ClientKinds <- StreamCommands
  ExpectedRevisions = {NoRevision}
  StreamStatuses = {"suspended"}
  MaxRevision = 0
  MaxLedger = 2
  SnapshotInterval = 3
  OptionalLimit = 2
  StreamLimit = 3
  WalLimit = 4
  MaxIntegrity = 3
  Failures = {"power", "disk"}
  NoCommand = NoCommand
  NoPatch = NoPatch
  NoRevision = NoRevision
CHECK_DEADLOCK FALSE
SYMMETRY CommandSymmetry
INVARIANTS TypeOK SnapshotWithinLog RecoveryAgrees
PROPERTIES NothingDurableReverts
