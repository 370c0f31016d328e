\* Four blocks, a fork, a failed request, under fairness.
SPECIFICATION FairSpec
CONSTANTS
    MaxHeight = 4
    MaxForks = 1
    MaxFaults = 1
CHECK_DEADLOCK FALSE
INVARIANTS
    TypeOK
    ProofVerifies
PROPERTIES
    EventuallyBuilt
