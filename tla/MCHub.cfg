\* Two clients join, subscribe and leave around reloads, refusals, gaps and racing snapshots.
CONSTANTS
    c1 = c1
    c2 = c2
    e1 = e1
    e2 = e2
    s1 = s1
    s2 = s2
    a = a
    b = b
    NoDoc = NoDoc
    Conns = {c1, c2}
    Entities = {e1}
    Attrs = {a}
    Values = {0}
    Filters <- TwoFilters
    Records = {0, 1}
    Snapshots = {s1}
    MAX_QUEUED = 1
    MAX_FILTERS = 1
    SubLimit = 2
    Bound = 1
    MaxStream = 1
    SnapshotRaces = TRUE
    Gaps = TRUE
SPECIFICATION Spec
SYMMETRY Symmetric
CHECK_DEADLOCK FALSE
INVARIANTS
    IndexIsSubscriptions
    TableFollowsFilters
    NoLostWakeup
