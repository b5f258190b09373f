CONSTANTS
    HASHSIZE = 1
    BYTEMAX = 6
    n1 = n1
    n2 = n2
    n3 = n3
    Peers = {n1, n2, n3}
    FIRST = 2
    LAST = 3
    Busy = {}
    Authors <- MCAuthors
    Codes = {9}
    NodeTable <- MCTable
    Fathers = {n1, n2}
    None = none
    Ids = {1, 2}
    Handlers = {h1}
    MaxMessages = 3
SPECIFICATION FairSpec
CHECK_DEADLOCK FALSE
INVARIANTS
    TypeOK
    PortsDistinct
    PassSafe
    
PROPERTIES
    DeadGoes
    HandlersReturn
