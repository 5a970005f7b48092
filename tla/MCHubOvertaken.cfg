\* A page is read while the change it holds is on its way.
CONSTANTS
    c1 = c1
    c2 = c2
    e1 = e1
    e2 = e2
    s1 = s1
    s2 = s2
    a = a
    b = b
    NoDoc = NoDoc
    Conns = {c1}
    Entities = {e1}
    Attrs = {a}
    Values = {0, 1}
    Filters <- OneFilter
    Records = {1}
    Snapshots = {s1}
    MAX_QUEUED = 1
    MAX_FILTERS = 1
    SubLimit = 2
    Bound = 1
    MaxStream = 1
    SnapshotRaces = TRUE
    Gaps = FALSE
SPECIFICATION Spec
CHECK_DEADLOCK FALSE
INVARIANTS
    EveryChangeJudged
