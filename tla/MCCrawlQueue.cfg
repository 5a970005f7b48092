\* Two pods and a request of the administrator share the queue of one source; three upsets,
\* and no read outlasts its lease.
SPECIFICATION QueueFairSpec
CONSTANTS
    Sources = {"catalogue"}
    Versions <- MCVersions
    Pods = {"pod a", "pod b"}
    Recrawls = {"admin"}
    Jobs = {1, 2, 3, 4}
    MaxAttempts = 2
    Overruns = FALSE
    MaxUpsets = 3
INVARIANTS QueueKept
PROPERTIES JobEnds CatchesUp
