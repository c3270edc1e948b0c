SPECIFICATION Spec
CONSTANTS
    Logs = {l1, l2, l3}
    Stop = Stop
    MaxSize = 3
    PipeCap = 2
    Kinds = {"ctrlc"}
    MaxSignals = 1
    SenderMayDie = FALSE
INVARIANTS
    CtrlCDrains
CHECK_DEADLOCK FALSE
