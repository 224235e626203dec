SPECIFICATION SpecAll
CONSTANTS
    Writers = {t1, t2}
    Streams = {s1}
    QueueLimit = 1
    Closer = closer
    None = none
    Works = {w1}
    Runs = {r1}
    Plugins = {p1}
    Granted = {p1}
    Owner <- OneOwner
    Requests <- AllRequests
    Eligible = {TRUE, FALSE}
    PollSize = 1
    MaxWaits = 2
    MaxEvents = 2
    MaxTime = 2
    MaxBoundaries = 1
    Messages = {m1, m2}
    Signals = {}
    MaxCalls = 2
    MaxReplies = 3
    MaxContracts = 2
    MaxFaults = 2
SYMMETRY Symmetry
INVARIANTS WriterTellsTruth SingleWriter JournalTellsAll WaitsMatch
PROPERTIES WaitsResolveOnce
CHECK_DEADLOCK FALSE
