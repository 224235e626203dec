SPECIFICATION SpecAll
CONSTANTS
    P = "prompt"
    Cancels = {}
    Detaches = {}
    Daemons = {TRUE, FALSE}
    MaxProgress = 0
    MaxGets = 0
    MaxFaults = 1
    w1 = w1
    w2 = w2
    NoWorker = NoWorker
PROPERTIES OperationEnds TasksRun
CHECK_DEADLOCK FALSE
