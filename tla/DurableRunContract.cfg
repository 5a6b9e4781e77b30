\* The durable run implements its contract, and an orphan of an earlier process
\* is closed at the next launch.
SPECIFICATION FairSpec
CONSTANTS
  CommandIds = {c1, c2}
  Patches = {p1}
  ClientKinds <- ContractCommands
  ExpectedRevisions = {NoRevision}
  StreamStatuses = {"suspended"}
  MaxRevision = 1
  MaxLedger = 1
  SnapshotInterval = 3
  OptionalLimit = 0
  StreamLimit = 1
  WalLimit = 5
  MaxIntegrity = 3
  Failures = {"crash", "power"}
  NoCommand = NoCommand
  NoPatch = NoPatch
  NoRevision = NoRevision
CHECK_DEADLOCK FALSE
INVARIANTS OrphansClosed
PROPERTIES OrphansSettle ImplementsContract
