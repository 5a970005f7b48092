\* A reconnection may end before its welcome.
CONSTANTS
    p1 = p1
    p2 = p2
    NoPlace = NoPlace
    Places = {p1, p2}
    Statuses = {201, 403, 500}
    MaxChanges = 2
    Records = {1}
SPECIFICATION Spec
CHECK_DEADLOCK FALSE
PROPERTIES
    EndedIsResumed
