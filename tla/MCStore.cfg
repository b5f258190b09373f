CONSTANTS
    HASHSIZE = 2
    BYTEMAX = 2
    Spoken <- MCSpoken
    FirstRows <- MCFirstRows
    OwnKeys <- MCOwnKeys
    None = none
    Handlers = {h1, h2}
    Dropper = d
    Boot = boot
    NODE_LIMIT = 2
    MaxStarts = 3
SPECIFICATION Spec
SYMMETRY Symmetry
CHECK_DEADLOCK FALSE
INVARIANTS
    TypeOK
    SameIdentity
    RowsBounded
    StoreMatches
    OrderIsConsistent
    NearestIsMinimal
    OwnKeyShipped
