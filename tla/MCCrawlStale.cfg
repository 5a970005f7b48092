\* Two pods, a change and a stop.
SPECIFICATION QueueSpec
CONSTANTS
    Sources = {"catalogue"}
    Versions <- MCVersions
    Pods = {"pod a", "pod b"}
    Recrawls = {}
    Jobs = {1, 2, 3}
    MaxAttempts = 2
    Overruns = FALSE
    MaxUpsets = 2
INVARIANT ChangeIsRead
