CONSTANTS
    HASHSIZE = 1
    BYTEMAX = 9
    Users <- UsersAB
    Nodes <- ReachNodes
    NoNode <- MCNoNode
    None = None
    Topologies <- ReachTopologies
    Searchers <- OnlyA
    Handlers = {h1, h2}
    ATTEMPTS = 2
    Losses = FALSE
    Timers = FALSE
    Garbled = FALSE
    MaxSearches = 1
    MaxMoves = 0
SPECIFICATION FairSpec
CHECK_DEADLOCK FALSE
PROPERTIES
    SearchFinds
