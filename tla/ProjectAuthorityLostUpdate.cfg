SPECIFICATION Spec
CONSTANTS
    u1 = u1
    r1 = r1
    a1 = a1
    a2 = a2
    None = None
    UserEdits <- OneUserEdit
    RunEdits <- NoEdits
    AgentEdits <- OneAgentEdit
    Readers <- NoReaders
    Failures <- NoFailures
    MaxSaves = 1
    MaxRevision = 3
    MaxAgentReads = 1
    MaxAgentSaves = 1
PROPERTY AgentEditsSurvive
CHECK_DEADLOCK FALSE
