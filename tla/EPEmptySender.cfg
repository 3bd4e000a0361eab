\* A transfer without a sender; nothing fails, crashes or races.
CONSTANTS
    a1 = a1  a2 = a2  k1 = k1  k2 = k2  x1 = x1  x2 = x2  x3 = x3
    Height = {1, 2}
    Address = {a1}
    Token = {k1}
    Hash = {x1, x2}
    Name = {"Transfer", "transfer", "Mint", "mint", "Burn", "burn", "Approval", "Approve", "Stake"}
    NoAddress = NoAddress
    NoToken = NoToken
    Worker = {w1}
    Messages <- EmptySenderMessages
    WorkChCap = 1
    BadValue = BadValue
    NoMessage = NoMessage
    MaxDeliveries = 2
    MaxFaults = 0
    MaxCrashes = 0
    MayCancel = FALSE
SPECIFICATION Spec
\* Deliveries are bounded, so the instance stops when all are indexed.
CHECK_DEADLOCK FALSE
INVARIANT
    ExecutedUpdatesFindTheirAccount
