\* Three of six; a follower of another group, one that may be down.
SPECIFICATION FairSpec
CONSTANTS
    f1 = f1
    f2 = f2
    f3 = f3
    f4 = f4
    f5 = f5
    Leader = f0
    Followers <- MCFollowers
    OtherGroup = {f1}
    Reliable = {f1, f2, f4, f5}
    MinSigners = 3
    Coins = {c1, c2, c3}
    MaxInputs = 2
    MaxAttempts = 3
CHECK_DEADLOCK FALSE
INVARIANTS
    TypeOK
    CountIsTrue
    QuorumSuffices
PROPERTY
    AttemptEnds
