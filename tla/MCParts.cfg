\* The parts that share no state, one at a time.
CONSTANTS
    c1 = c1
    c2 = c2
    c3 = c3
    k1 = k1
    k2 = k2
    fast = fast
    slow = slow
    form = form
    person = person
    \* two slugs in one shard that holds one caller; bursts of two and one, refills of 2/3 and 1
    NoKey = NoKey
    Requests = {c1, c2, c3}
    Keys = {k1, k2}
    Slugs = {fast, slow}
    SlugOf <- MCSlugOf
    SHARDS = 2
    shard_of <- MCShardOf
    ONE = 3
    Rate <- MCRate
    Burst <- MCBurst
    Costs = {1, 2}
    SHARD_CAP = 1
    SWEEP_SIZE = 1
    SWEEP_INTERVAL = 2
    IDLE_EVICTION = 1
    MaxClock = 2
    \* three creates of three senders around one midnight
    Creates = {1, 2, 3}
    Forms = {form}
    Senders = {c1, c2, c3}
    PerDay <- MCPerDay
    MAX_CALLERS = 2
    Days = 2
    NoOne = NoOne
    \* two downloads, one reload, room for one answer
    Callers = {c1, c2}
    NoCaller = NoCaller
    Tables = 2
    FRESH_FOR = 1
    ABANDONED_AFTER = 2
    MAX_HELD = 1
    LastTick = 2
    \* two calls of a run at once
    Calls = {1, 2}
    steps_per_run = 1
    max_tokens = 1
    Prompt = 0
    Largest = 2
    max_egress_bytes_per_run = 1
    max_response_bytes = 1
    \* two runs of a person in one session, a hand-over and a call at a time, two grants in all
    RunIds = {"run", "next run"}
    CreatedBy <- MCCreatedBy
    Sessions = {"session"}
    PersonOf <- MCPersonOf
    Named = {"session"}
    HandOvers = {"binds"}
    ReadCalls = {"reads"}
    Sweep = "sweep"
    MaxGrants = 2
    NoRunId = NoRunId
    NoSession = NoSession
    \* a page and a document, gone after two runs
    Items = {"home", "doc"}
    Docs = {"doc"}
    Start = "home"
    Serves <- MCServes
    LinksIn <- MCLinksIn
    Patterned = {"home"}
    Crawlers = {1}
    GONE_AFTER_RUNS = 2
    Faults = {"cut", "index"}
    Admin = {"home"}
    \* the rows of anonymous callers and of one other, in a tally of one
    Rows = {"anonymous", "named"}
    ANONYMOUS = "anonymous"
    ANONYMOUS_EVERY = 2
    MAX_KEYS = 1
    MaxCalls = 3
    \* lists that have the domain verified, and not
    Lists = {"verified", "other"}
    Verified = "verified"
    NoList = NoList
    MAX_AGE = 1
    TIMEOUT = 1
    MaxNow = 4
    \* a preview that is listed, withdrawn and listed again, and one change of the repository
    Contents = {"p"}
    NoPreview = NoPreview
    Torn = Torn
    NoTag = NoTag
    MaxMoves = 1
    MaxStamp = 3
    \* a job and its first minutes
    LastMinute = 4
    NoRecord = NoRecord
    \* two types with two attributes
    Types = {"X", "Y"}
    Attrs = {"a", "b"}
    Identity = "identity"
    PolicySets <- MCPolicySets
    Questions <- MCQuestions
    Endpoints <- MCEndpoints
    \* two filters, a grid of cells two by two, at most four of them
    FilterIds = {1, 2}
    EntityTypes = {"X", "Y"}
    Names = {"speed"}
    Documents <- MCDocuments
    Subscriptions <- MCSubscriptions
    NoSubscription = NoSubscription
    NoArea = NoArea
    CELL = 2
    MAX_CELLS = 4
SPECIFICATION PartsSpec
CHECK_DEADLOCK FALSE
INVARIANTS
    PartsTypeOK
    WithinRate
    NotShortchanged
    WaitIsEnough
    DayIsCapped
    OneFreshAnswer
    LiveRunWithinBudgets
    LastRevokesAll
    HeldIsLive
    
    CountsAddUp
    PortalIsFollowed
    QuietIsServed
    FailuresInARow
    KeepsToGrants
    IndexIsAFullScan

    
