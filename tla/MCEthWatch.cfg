CONSTANTS
    Confirmations = 1
    LookBack = 4
    PartialLogs = FALSE
    NodeLag = 1
    MaxBlock = 4
    MaxRequests = 2
    MaxTokens = 1
    MaxFaults = 2
SPECIFICATION FairSpec
INVARIANTS
    ExecutedAsRequested
PROPERTIES
    RequestsExecuted
CHECK_DEADLOCK FALSE
