SPECIFICATION FairSpec
CONSTANTS
    Logs = {l1, l2, l3}
    Stop = Stop
    MaxSize = 3
    PipeCap = 2
    Kinds = {"term", "ctrlc"}
    MaxSignals = 2
    SenderMayDie = TRUE
INVARIANTS
    SentinelIsLast
    GracefulLosesNothing
PROPERTIES
    ShutdownEnds
CHECK_DEADLOCK FALSE
