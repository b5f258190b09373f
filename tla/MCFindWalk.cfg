CONSTANTS
    HASHSIZE = 1
    BYTEMAX = 9
    Users <- UsersAB
    Nodes <- Nodes3
    NoNode <- MCNoNode
    None = None
    Topologies <- WalkTopology
    Searchers <- OnlyA
    Handlers = {h1}
    ATTEMPTS = 1
    Losses = TRUE
    Timers = TRUE
    Garbled = TRUE
    MaxSearches = 1
    MaxMoves = 1
SPECIFICATION FairSpec
CHECK_DEADLOCK FALSE
INVARIANTS
    TypeOK
    NoLoop
    FoundIsAnswered
PROPERTIES
    SearchEnds
