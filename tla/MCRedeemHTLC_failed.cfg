\* No faults: one job, and the redeems of a script.
SPECIFICATION Spec
CONSTANTS
    h1 = h1
    j1 = j1
    f1 = f1
    f2 = f2
    HTLCs = {h1}
    Jobs = {j1}
    FeeRates = {f1, f2}
    NoTx = NoTx
    Refund = Refund
    Attempts = 3
    MaxFaults = 0
CHECK_DEADLOCK FALSE
PROPERTY
    MinedRedeemReturns
