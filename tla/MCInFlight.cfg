\* One gateway at its limits: five requests for three slots, two of them the readers',
\* one the anonymous share's, one slow read at a time; one is refused before any slot.
CONSTANTS
    anon1 = anon1
    anon2 = anon2
    reader = reader
    writer = writer
    exporter = exporter
    loadwriter = loadwriter
    loadreader = loadreader
    loadexporter = loadexporter
    Requests = {anon1, anon2, reader, writer, loadwriter}
    Callers <- MCCallers
    Caller <- MCCaller
    Class <- MCClass
    Total = 3
    PerCaller = 2
    LoadtestShare = 3
    Downloads = 1
    SLOW_WEIGHT = 2
SPECIFICATION Spec
SYMMETRY Symmetric
INVARIANTS
    PermitsConserved
    CallerCountExact
    HandlerHoldsSlots
PROPERTY ImplementsAdmission
