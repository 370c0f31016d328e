\* Single- and multi-sig environments with settings missing or malformed, in a
\* worker, a server, or both in one process.
SPECIFICATION FairSpec
CONSTANTS
    Absent = Absent
    Empty = Empty
    Bad = Bad
    k1 = k1
    k2 = k2
    k3 = k3
    s1 = s1
    s2 = s2
    Id = Id
    BtcKeys = {k1, k2, k3}
    StxKeys = {s1, s2}
    Environments <- MCEnvironments
    SecondKeys = {Absent, Bad, k2}
CHECK_DEADLOCK FALSE
INVARIANTS
    TypeOK
    QuorumInReach
    JobsAgree
PROPERTY
    MismatchStops
