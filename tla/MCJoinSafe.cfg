CONSTANTS
    HASHSIZE = 1
    BYTEMAX = 9
    Peers <- PairPeers
    Seeds <- Seeds2
    Users <- None
    Reachable <- PairPeers
    Bootstrap <- PairTable
    NoPeer <- MCNoPeer
    Active <- PairActive
    Duplicates = TRUE
    Losses = TRUE
    Pings = TRUE
    Stuck <- Pair
    CONFIRM = 1
    ATTEMPTS = 1
    MaxFaults = 1
    MaxNet = 2
SPECIFICATION Spec
CHECK_DEADLOCK FALSE
INVARIANTS
    TypeOK
    OnlyMembersServe
    StuckStayOut
