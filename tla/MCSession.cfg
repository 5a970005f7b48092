\* Three connections, a queue and a memory of one, and one gap, reload or refusal.
CONSTANTS
    e1 = e1
    e2 = e2
    NoEntity = NoEntity
    MaxConns = 3
    Entities = {e1, e2}
    KEPT = 1
    MAX_QUEUED = 1
    MaxChanges = 2
    Events = {"gap", "reload", "refusal"}
    MaxEvents = 1
    \* five sockets of three callers, two hubs in all and three in turn
    Sockets = {1, 2, 3, 4, 5}
    People = {"ann", "bob", "cyd"}
    CallerOf <- MCCallerOf
    Views = {"v", "w", "x", "y"}
    ViewOf <- MCViewOf
    Spaces = {"r", "s", "t"}
    SpaceOf <- MCSpaceOf
    HubIds = {1, 2, 3}
    NoHub = NoHub
    PER_CALLER = 1
    PER_SPACE = 2
    HUBS = 2
    HUBS_PER_SPACE = 1
SPECIFICATION SocketsSpec
SYMMETRY Symmetric
CHECK_DEADLOCK FALSE
INVARIANTS
    SentReaches
    QuietResumeMoves
    EveryClientIsServed
PROPERTIES
    HeardInOrder
    NumbersGoOn
