\* Two swaps with a payment each; one transaction of a script; one fault.
SPECIFICATION FairSpec
CONSTANTS
    s1 = s1
    s2 = s2
    t1 = t1
    t2 = t2
    x1 = x1
    x2 = x2
    x3 = x3
    x4 = x4
    x5 = x5
    Swaps = {s1, s2}
    Txids = {t1, t2}
    Members <- MCMembers
    StxTxids = {x1, x2, x3, x4, x5}
    NoTx = NoTx
    NoMember = NoMember
    NoSwap = NoSwap
    MaxScripts = 1
    MaxFaults = 1
CHECK_DEADLOCK FALSE
INVARIANTS
    TypeOK
    OneLiveFinalization
    RemovedIsSettled
    NumberedInTurn
    GapsAreDrops
PROPERTIES
    ListedIsSettled
    ImplementsOutboundSwap
