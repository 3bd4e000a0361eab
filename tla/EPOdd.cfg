\* Events at the edges of the handlers, with a cancellation and a failing call.
CONSTANTS
    a1 = a1  a2 = a2  k1 = k1  k2 = k2  x1 = x1  x2 = x2  x3 = x3
    Height = {1, 2, 3}
    Address = {a1, a2}
    Token = {k1, k2}
    Hash = {x1, x2, x3}
    Name = {"Transfer", "transfer", "Mint", "mint", "Burn", "burn", "Approval", "Approve", "Stake"}
    NoAddress = NoAddress
    NoToken = NoToken
    Worker = {w1, w2}
    Messages <- OddMessages
    WorkChCap = 1
    BadValue = BadValue
    NoMessage = NoMessage
    MaxDeliveries = 3
    MaxFaults = 0
    MaxCrashes = 0
    MayCancel = TRUE
SPECIFICATION Spec
\* Deliveries are bounded and a cancelled context stops the workers.
CHECK_DEADLOCK FALSE
SYMMETRY WorkerSymmetry
INVARIANTS
    UpdateHasItsRow
    TransfersFollowBalances
    BalancesExplained
    IndexedIsWhole
