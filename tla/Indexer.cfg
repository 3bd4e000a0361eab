\* Restored and live messages of the same blocks, a foreign message, a failing
\* call, a death, visibility timeouts and expiry.
CONSTANTS
    MaxHeight = 2
    FirstTip = 1
    TxHeights = {1, 2}
    Worker = {w1}
    Capacity = 1
    NoMessage = NoMessage
    Foreign = Foreign
    MaxSent = 2
    MaxReceive = 2
    MaxFailures = 1
    MaxDeaths = 1
SPECIFICATION FairSpec
\* Publications are bounded, so the instance stops when all are settled.
CHECK_DEADLOCK FALSE
INVARIANTS
    TypeOK
    NoneForgotten
    StartsAfresh
    TakenIsAccountedFor
    ContentIsRestoredOrLive
PROPERTIES
    ContentStays
    QueuedIsSettled
