CONSTANTS
    Packets <- MCPackets
    None = none
    Slots = {s1, s2, s3}
    PACKLIM = 2
    MaxArrivals = 3
SPECIFICATION FairSpec
CHECK_DEADLOCK FALSE
INVARIANTS
    TypeOK
    OneAtATime
    NoLockLeak
    LimitHolds
PROPERTIES
    CountDrains
