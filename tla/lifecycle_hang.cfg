SPECIFICATION FairSpec
CONSTANTS
    Logs = {l1, l2, l3}
    Stop = Stop
    MaxSize = 3
    PipeCap = 2
    Kinds = {"term"}
    MaxSignals = 1
    SenderMayDie = FALSE
PROPERTIES
    OneSignalEnds
CHECK_DEADLOCK FALSE
