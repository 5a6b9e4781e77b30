\* The comment in loadInto of session.ts, refuted: an open_project that ends during
\* a save makes the save overwrite the desktop's newer edit, see the README.
SPECIFICATION Spec
CONSTANTS
    u1 = u1
    r1 = r1
    a1 = a1
    a2 = a2
    None = None
    UserEdits <- OneUserEdit
    RunEdits <- NoEdits
    AgentEdits <- OneAgentEdit
    Readers <- NoReaders
    Failures <- NoFailures
    MaxSaves = 1
    MaxRevision = 3
    MaxAgentReads = 1
    MaxAgentSaves = 1
PROPERTY AgentNeverErases
CHECK_DEADLOCK FALSE
