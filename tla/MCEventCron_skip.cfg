\* A fork after which the last seen transaction is mined again, later.
SPECIFICATION Spec
CONSTANTS
    a = a
    b = b
    Txs = {a, b}
    Logs <- MCLogs
    NoTx = NoTx
    NoEvent = NoEvent
    PageSize = 2
    MaxTip = 4
    MaxForks = 1
    MaxFaults = 0
CHECK_DEADLOCK FALSE
INVARIANTS
    NeverSkipped
