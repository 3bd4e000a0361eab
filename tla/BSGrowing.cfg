\* The restore over three windows and the live pipeline of a growing chain, with a
\* failing call or read timeout, a crash and a cancellation; progress of both.
CONSTANTS
    MaxHeight = 6
    FirstTip = 4
    TxHeights = {1, 2, 3, 5, 6}
    Window = 2
    ChCap = 1
    WorkChCap = 1
    BlockWorker = {w1}
    MaxFaults = 1
    MaxCrashes = 1
    MayCancel = TRUE
SPECIFICATION FairSpec
\* The chain stops growing at MaxHeight, and the instance with it.
CHECK_DEADLOCK FALSE
INVARIANTS
    TypeOK
    CursorCoverage
    RestoreCoversTarget
    RestoredHasItsTransactions
    NoOtherGap
PROPERTIES
    CursorNeverBack
    PublishesBlocks
    RestoreEnds
    AcceptedBlocksArePublished
    ShutdownEnds
