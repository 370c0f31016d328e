\* One HTLC with three jobs (duplicate events), three attempts, three faults.
SPECIFICATION FairSpec
CONSTANTS
    h1 = h1
    j1 = j1
    j2 = j2
    j3 = j3
    f1 = f1
    f2 = f2
    HTLCs = {h1}
    Jobs = {j1, j2, j3}
    FeeRates = {f1, f2}
    NoTx = NoTx
    Refund = Refund
    Attempts = 3
    MaxFaults = 3
CHECK_DEADLOCK FALSE
INVARIANTS
    TypeOK
    RecordIsSpender
PROPERTIES
    RecordIsFinal
    JobSpends
