SPECIFICATION FairSpec
CONSTANTS
    Logs = {l1, l2}
    Poison = {}
    Stop = Stop
    FlushSize = 2
    QueueCap = 2
    MaxBatch = 3
    InitialBackoff = 2
    MaxBackoff = 5
    AgentIdFixed = {TRUE}
    MaxFaults <- OneOutage
PROPERTIES
    RecoveryDrains
CHECK_DEADLOCK FALSE
