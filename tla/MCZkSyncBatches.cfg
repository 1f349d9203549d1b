CONSTANTS
    Owners = {alice}
    SPECIAL_ACCOUNT = special
    Token = token
    NFTs = {}
    Amounts <- One
    OpTypes <- QueueOpTypes
    HonestRoots = {TRUE, FALSE}
    NoOwner = NoOwner
    InvalidRoot = InvalidRoot
    PRIORITY_EXPIRATION = 1
    COMMIT_TIMESTAMP_NOT_OLDER = 0
    COMMIT_TIMESTAMP_APPROXIMATION_DELTA = 0
    MaxBlocks = 2
    MaxRequests = 2
    MaxOps = 2
    MaxBatch = 2
    MaxEthBlock = 1
    MaxTime = 0
    Timestamps <- Zero
SPECIFICATION Spec
INVARIANTS
    ProvenChainValid
    QueueMatchesBlocks
CHECK_DEADLOCK FALSE
