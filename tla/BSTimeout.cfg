\* A chain that is silent for longer than the read deadline; no crash.
CONSTANTS
    MaxHeight = 4
    FirstTip = 3
    TxHeights = {1, 2, 3, 4}
    Window = 2
    ChCap = 1
    WorkChCap = 1
    BlockWorker = {w1}
    MaxFaults = 1
    MaxCrashes = 0
    MayCancel = FALSE
SPECIFICATION FairSpec
\* The chain stops growing at MaxHeight, and the instance with it.
CHECK_DEADLOCK FALSE
PROPERTY
    WaitsThroughSilence
