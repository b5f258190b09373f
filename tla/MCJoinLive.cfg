CONSTANTS
    HASHSIZE = 1
    BYTEMAX = 9
    Peers <- LivePeers
    Seeds <- LiveSeeds
    Users <- None
    Reachable <- LiveSeeds
    Bootstrap <- LiveTable
    NoPeer <- MCNoPeer
    Active <- Newcomer
    Duplicates = FALSE
    Losses = FALSE
    Pings = FALSE
    Stuck <- None
    CONFIRM = 2
    ATTEMPTS = 1
    MaxFaults = 0
    MaxNet = 20
SPECIFICATION FairSpec
CHECK_DEADLOCK FALSE
PROPERTIES
    EveryoneJoins
