\* Sockets end at any moment, and the Endpoint comes and goes.
CONSTANTS
    p1 = p1
    p2 = p2
    NoPlace = NoPlace
    Places = {p1, p2}
    Statuses = {201, 403}
    MaxChanges = 2
    Records = {0, 1}
SPECIFICATION FairSpec
CHECK_DEADLOCK FALSE
INVARIANTS
    HearsItsView
PROPERTIES
    ImplementsFeed
    IdleUpstreamStops
