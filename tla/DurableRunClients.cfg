\* Every command, one patch and a crash of the host at any step.
SPECIFICATION Spec
CONSTANTS
  CommandIds = {c1, c2, c3}
  Patches = {p1}
  ClientKinds <- EveryCommand
  ExpectedRevisions = {NoRevision, 0}
  StreamStatuses = {"verifying"}
  MaxRevision = 1
  MaxLedger = 0
  SnapshotInterval = 3
  OptionalLimit = 0
  StreamLimit = 3
  WalLimit = 5
  MaxIntegrity = 4
  Failures = {"crash"}
  NoCommand = NoCommand
  NoPatch = NoPatch
  NoRevision = NoRevision
CHECK_DEADLOCK FALSE
SYMMETRY CommandSymmetry
INVARIANTS
  CommandAtMostOnce GateAnsweredOnce ClosedLog FirstEndingStands
  CommittedIsInProject ChangeIsReal
