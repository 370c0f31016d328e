\* An own and a foreign swap, an event delivered twice, one fault.
SPECIFICATION FairSpec
CONSTANTS
    s1 = s1
    s2 = s2
    j1 = j1
    j2 = j2
    t1 = t1
    t2 = t2
    t3 = t3
    Swaps = {s1, s2}
    OwnSwaps = {s1}
    Jobs = {j1, j2}
    Txids = {t1, t2, t3}
    NoTx = NoTx
    SendCutoff = 2
    Expiry = 3
    MaxHeight = 4
    MaxFaults = 1
CHECK_DEADLOCK FALSE
INVARIANTS
    TypeOK
    PaidOnce
    RecordedIsListed
PROPERTIES
    SentIsFinal
    RevokedPaidOnlyLate
    OwedIsDecided
    ImplementsOutboundSwap
