CONSTANTS
    MaxBlock = 2
    MaxOperations = 3
    MaxTxsInFlight = 2
    Prices = {1, 2}
    MaxHashes = 2
    Faults = {"crash", "rpc", "send", "reply", "initialize", "commit"}
    MaxFaults = 1
    MaxEthIds = 5
SPECIFICATION Spec
CONSTRAINT BlocksOrPrices
INVARIANTS
    
    ConfirmedIsOnChain
