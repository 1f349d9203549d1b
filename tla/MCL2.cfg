SPECIFICATION Spec
CONSTANTS
    MaxFungible = 1
    MinNft = 10
    MaxToken = 11
    MaxAccount = 5
    Addresses = {1, 2, 3, 4, 5}
    Keys = {7, 8, 9}
    MaxTime = 9
    FeeAccount = 0
    FeeAddress = 1
    Setup <- MCSetup
    Offered <- MCOffered
    Batches <- MCBatches
    MaxOps = 2
    MaxBlocks = 2
INVARIANTS
    BlocksProvable
    RestoredFromPublicData
    
    NonceUsedOnce
PROPERTIES
    OnlyByConsent
CHECK_DEADLOCK FALSE
