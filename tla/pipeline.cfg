SPECIFICATION FairSpec
CONSTANTS
    Batches = {b1}
    Chunks <- TwoChunks
    Critical = {b1}
    MaxRetries = 1
    Processes = 2
    MaxFaults <- SomeFaults
INVARIANTS
    NothingLeftBehind
    RowsArePrefixes
    CopiesNeedFaults
    AlertBeforeRows
PROPERTIES
    BatchSettles
    ImplementsDelivery
    WorkShrinks
CHECK_DEADLOCK FALSE
