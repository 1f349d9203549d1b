CONSTANTS
    MaxBlock = 2
    MaxAggregatedBlocksToCommit = 2
    MaxAggregatedBlocksToExecute = 2
    MaxAggregateSize = 2
    Generators = 2
    Provers = {p1, p2}
    RemoveJoined = FALSE
    MaxFaults = 1
SPECIFICATION ServerFairSpec
INVARIANTS
    ProofsOfCurrentBlocks
PROPERTIES
    ImplementsOperationLog
    ImplementsAggregator
    EveryBlockExecuted
CHECK_DEADLOCK FALSE
