\* A restore from scratch; nothing fails or crashes.
CONSTANTS
    MaxHeight = 4
    FirstTip = 3
    TxHeights = {1, 2, 3, 4}
    Window = 2
    ChCap = 1
    WorkChCap = 1
    BlockWorker = {w1}
    MaxFaults = 0
    MaxCrashes = 0
    MayCancel = FALSE
SPECIFICATION Spec
\* The chain stops growing at MaxHeight, and the instance with it.
CHECK_DEADLOCK FALSE
INVARIANT
    RestoreBeginsWithBlockOne
