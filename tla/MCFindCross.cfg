CONSTANTS
    HASHSIZE = 1
    BYTEMAX = 9
    Users <- UsersAB
    Nodes <- Nodes2
    NoNode <- MCNoNode
    None = None
    Topologies <- PairTopology
    Searchers <- UsersAB
    Handlers = {h1}
    ATTEMPTS = 1
    Losses = FALSE
    Timers = TRUE
    Garbled = TRUE
    MaxSearches = 2
    MaxMoves = 0
SPECIFICATION Spec
CONSTRAINT AsksOthers
CHECK_DEADLOCK FALSE
INVARIANTS
    FoundIsAnswered
