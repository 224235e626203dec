SPECIFICATION SpecAll
CONSTANTS
    Callers = {c1, c2}
    Activation = a
    Artist = w
    Short = 2
    Long = 3
    MaxSends = 3
    MaxActivations = 2
    MaxTroubles = 2
    MaxInterruptions = 3
    P = "prompt"
    Cancels = {"cancel"}
    Detaches = {"detach"}
    Daemons = {TRUE, FALSE}
    MaxProgress = 1
    MaxGets = 1
    MaxFaults = 1
SYMMETRY Symmetry
INVARIANTS MessageIsTrue OperationRunsOnce OperationReceiptIsTrue
PROPERTIES PictureComesLast OrderIsKept
CHECK_DEADLOCK FALSE
