\* Two workers race over blocks of the same accounts, with a failing call, a crash and
\* a cancellation; progress of the workers.
CONSTANTS
    a1 = a1  a2 = a2  k1 = k1  k2 = k2  x1 = x1  x2 = x2  x3 = x3
    Height = {1, 2}
    Address = {a1, a2}
    Token = {k1}
    Hash = {x1, x2}
    Name = {"Transfer", "transfer", "Mint", "mint", "Burn", "burn", "Approval", "Approve", "Stake"}
    NoAddress = NoAddress
    NoToken = NoToken
    Worker = {w1, w2}
    Messages <- RacingMessages
    WorkChCap = 1
    BadValue = BadValue
    NoMessage = NoMessage
    MaxDeliveries = 3
    MaxFaults = 1
    MaxCrashes = 1
    MayCancel = TRUE
SPECIFICATION FairSpec
\* Deliveries are bounded, and a cancelled context stops the workers.
CHECK_DEADLOCK FALSE
INVARIANTS
    TypeOK
    OneOwnerPerBlock
    TransfersOnce
    BalancesExplained
    IndexedIsWhole
    TransfersFollowBalances
PROPERTIES
    AbandonedStaysAbandoned
    IndexesBlocks
    JobsEnd
    QueueDrains
    ShutdownEnds
