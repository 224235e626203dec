SPECIFICATION FairSpec
CONSTANTS
    P = "prompt"
    Cancels = {}
    Detaches = {}
    Daemons = {TRUE}
    MaxProgress = 0
    MaxGets = 0
    MaxFaults = 0
PROPERTIES AbandonedIsCancelled
CHECK_DEADLOCK FALSE
