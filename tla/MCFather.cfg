CONSTANTS
    HASHSIZE = 1
    BYTEMAX = 3
    me <- MCme
    Others <- MCNear
    NoHash <- MCNoHash
    Handlers = {h1, h2}
    NODE_LIMIT = 1
SPECIFICATION Spec
SYMMETRY Symmetry
CHECK_DEADLOCK FALSE
INVARIANTS
    TypeOK
PROPERTIES
    KeepsPromise
    AdoptionEarned
    CheckDropsForNearer
