\* A crash between a cancel and the end of the stream.
SPECIFICATION Spec
CONSTANTS
  CommandIds = {c1, c2}
  Patches = {}
  ClientKinds <- StreamCommands
  ExpectedRevisions = {NoRevision}
  StreamStatuses = {}
  MaxRevision = 0
  MaxLedger = 0
  SnapshotInterval = 3
  OptionalLimit = 0
  StreamLimit = 0
  WalLimit = 4
  MaxIntegrity = 3
  Failures = {"crash"}
  NoCommand = NoCommand
  NoPatch = NoPatch
  NoRevision = NoRevision
CHECK_DEADLOCK FALSE
INVARIANTS TerminalRecorded
