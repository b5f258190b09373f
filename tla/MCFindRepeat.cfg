CONSTANTS
    HASHSIZE = 1
    BYTEMAX = 9
    Users <- UsersAB
    Nodes <- Nodes2
    NoNode <- MCNoNode
    None = None
    Topologies <- PairTopology
    Searchers <- OnlyA
    Handlers = {h1}
    ATTEMPTS = 2
    Losses = FALSE
    Timers = FALSE
    Garbled = FALSE
    MaxSearches = 1
    MaxMoves = 0
SPECIFICATION Spec
CHECK_DEADLOCK FALSE
INVARIANTS
    NotFoundMeansAbsent
