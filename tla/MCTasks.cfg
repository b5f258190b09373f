CONSTANTS
    Ids = {t1, t2, t3}
    Cookies = {c1}
    Handlers = {h1}
    Sender = send
    ATTEMPTS = 2
SPECIFICATION FairSpec
CHECK_DEADLOCK FALSE
INVARIANTS
    TypeOK
    SendBudget
    SingleRoleRequest
PROPERTIES
    OldestFirst
    EveryTaskServed
    PurgeExact
