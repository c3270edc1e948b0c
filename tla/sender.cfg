SPECIFICATION FairSpec
CONSTANTS
    Logs = {l1, l2, l3}
    Poison = {l3}
    Stop = Stop
    FlushSize = 2
    QueueCap = 2
    MaxBatch = 2
    InitialBackoff = 2
    MaxBackoff = 5
    AgentIdFixed = {TRUE, FALSE}
    MaxFaults <- OneOfEach
INVARIANTS
    Accounted
    LossNeedsFault
    DuplicatesNeedFaults
    BatchesBounded
PROPERTIES
    RowsLeaveDelivered
    ImplementsOutbox
    SentinelEnds
    MemoryDrains
    HealthyDrains
CHECK_DEADLOCK FALSE
