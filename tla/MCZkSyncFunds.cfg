CONSTANTS
    Owners = {alice, bob}
    SPECIAL_ACCOUNT = special
    Token = token
    NFTs = {nft}
    Amounts <- One
    OpTypes <- AllOpTypes
    HonestRoots <- AllHonest
    NoOwner = NoOwner
    InvalidRoot = InvalidRoot
    PRIORITY_EXPIRATION = 1
    COMMIT_TIMESTAMP_NOT_OLDER = 0
    COMMIT_TIMESTAMP_APPROXIMATION_DELTA = 0
    MaxBlocks = 2
    MaxRequests = 2
    MaxOps = 1
    MaxBatch = 1
    MaxEthBlock = 1
    MaxTime = 0
    Timestamps <- Zero
SPECIFICATION Spec
SYMMETRY OwnerSymmetry
CONSTRAINT RootsValid
INVARIANTS
    BlocksInOrder
    Solvency
    NFTUnique
CHECK_DEADLOCK FALSE
