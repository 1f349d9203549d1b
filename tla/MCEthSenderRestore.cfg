CONSTANTS
    MaxBlock = 1
    MaxOperations = 1
    MaxTxsInFlight = 2
    Prices = {1, 2}
    MaxHashes = 2
    Faults = {"crash"}
    MaxFaults = 1
    MaxEthIds = 5
SPECIFICATION Spec
INVARIANTS
    NothingForgotten
