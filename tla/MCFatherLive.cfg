CONSTANTS
    HASHSIZE = 1
    BYTEMAX = 3
    me <- MCme
    Others <- MCNear
    NoHash <- MCNoHash
    Handlers = {h1}
    NODE_LIMIT = 1
SPECIFICATION FairSpec
CHECK_DEADLOCK FALSE
PROPERTIES
    OrphanAsks
    FartherFatherReplaced
