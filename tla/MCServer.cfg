CONSTANTS
    Txs <- MCTxs
    Nonce <- MCNonce
    Fee <- MCFee
    FastTxs <- MCFastTxs
    Submissions <- MCSubmissions
    NumOps = 2
    BlockChunks = 2
    MaxIterations = 2
    FastIterations = 1
    LoadLimit = 4
    MaxBlock = 5
    MaxLag = 2
    MaxSubmits = 1
    MaxCrashes = 1
    MaxReverts = 1
    CrashInReplay = FALSE
SPECIFICATION FairSpec
INVARIANTS
    
    RequestsAccepted
    PriorityOpsInBlocks
    RootsMatchUpdates
    
PROPERTIES
    NothingVanishes
    TxsProcessed
