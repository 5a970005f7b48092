\* A page and a document; crawls may be cut off between two transactions.
SPECIFICATION SiteSpec
CONSTANTS
    Items = {"home", "doc"}
    Docs = {"doc"}
    Start = "home"
    Serves <- MCServes
    LinksIn <- MCLinksIn
    Patterned = {}
    Crawlers = {1}
    GONE_AFTER_RUNS = 2
    Faults = {"cut"}
    Admin = {}
CHECK_DEADLOCK FALSE
PROPERTY UnchangedIsIndexed
