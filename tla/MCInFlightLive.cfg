\* One subject's own write and download, and its load generator's read and download: one
\* count under two shares, each of them too small for what may ask under it; two downloads
\* for one slot; a broker that may never answer.
CONSTANTS
    anon1 = anon1
    anon2 = anon2
    reader = reader
    writer = writer
    exporter = exporter
    loadwriter = loadwriter
    loadreader = loadreader
    loadexporter = loadexporter
    Requests = {writer, exporter, loadreader, loadexporter}
    Callers <- MCCallers
    Caller <- MCCaller
    Class <- MCClass
    Total = 3
    PerCaller = 1
    LoadtestShare = 2
    Downloads = 1
    SLOW_WEIGHT = 2
SPECIFICATION FairSpec
INVARIANTS
    CallerWithinShare
PROPERTIES
    PlainReadEnds
