CONSTANTS
    MaxBlock = 1
    MaxOperations = 3
    MaxTxsInFlight = 2
    Prices = {1, 2}
    MaxHashes = 2
    Faults = {"rpc", "send"}
    MaxFaults = 1
    MaxEthIds = 5
SPECIFICATION FairSpec
INVARIANTS
    
    NoTransactionFails
PROPERTIES
    OperationsConfirmed
