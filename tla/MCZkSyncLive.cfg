CONSTANTS
    Owners = {alice}
    SPECIAL_ACCOUNT = special
    Token = token
    NFTs = {}
    Amounts <- One
    OpTypes <- QueueOpTypes
    HonestRoots <- AllHonest
    NoOwner = NoOwner
    InvalidRoot = InvalidRoot
    PRIORITY_EXPIRATION = 1
    COMMIT_TIMESTAMP_NOT_OLDER = 1
    COMMIT_TIMESTAMP_APPROXIMATION_DELTA = 1
    MaxBlocks = 2
    MaxRequests = 2
    MaxOps = 1
    MaxBatch = 1
    MaxEthBlock = 2
    MaxTime = 2
    Timestamps <- UpToFive
SPECIFICATION FairSpec
INVARIANTS
    NextTimestampExists
PROPERTIES
    RequestsServedOrExodus
    ExodusPaysEverything
CHECK_DEADLOCK FALSE
