CONSTANTS
    MaxBlock = 2
    MaxAggregatedBlocksToCommit = 2
    MaxAggregatedBlocksToExecute = 2
    MaxAggregateSize = 2
    Generators = 2
    Provers = {p1, p2}
    RemoveJoined = TRUE
    MaxFaults = 1
SPECIFICATION ServerSpec
INVARIANT SingleProofsExist
CHECK_DEADLOCK FALSE
