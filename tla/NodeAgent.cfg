SPECIFICATION FairAgentSpec
CONSTANTS
    Credentials = {"c1", "c2"}
    Operations = {"add", "remove", "repair", "other", "again"}
    Operation <- MCOperation
    MaxJournal = 2
    MaxFaults = 3
INVARIANTS
    AcknowledgedIsKept
PROPERTIES
    ImplementsContract
    AgentConverges
