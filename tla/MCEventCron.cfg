\* Blocks and a fork between any two steps of the cron, one fault.
SPECIFICATION FairSpec
CONSTANTS
    a = a
    b = b
    Txs = {a, b}
    Logs <- MCLogs
    NoTx = NoTx
    NoEvent = NoEvent
    PageSize = 2
    MaxTip = 4
    MaxForks = 1
    MaxFaults = 1
CHECK_DEADLOCK FALSE
INVARIANTS
    TypeOK
    NothingSkipped
    EnqueuedOnce
    BatchIsExact
    DeliveredOnce
PROPERTIES
    MinedIsDelivered
