SPECIFICATION Spec
CONSTANTS
    u1 = u1
    r1 = r1
    a1 = a1
    a2 = a2
    None = None
    UserEdits <- OneUserEdit
    RunEdits <- OneRunEdit
    AgentEdits <- TwoAgentEdits
    Readers <- OneReader
    Failures <- AnyFailure
    MaxSaves = 1
    MaxRevision = 3
    MaxAgentReads = 2
    MaxAgentSaves = 2
INVARIANT TypeOK
INVARIANT RevisionNamesDocument
PROPERTY AgentErasesOnlyCrossed
CHECK_DEADLOCK FALSE
CONSTRAINT OneDesktopWriter
