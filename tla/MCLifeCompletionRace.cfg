SPECIFICATION Spec
CONSTANTS
    MaxInputs = 1
    MaxWaits = 0
    MaxRuns = 1
    MaxFaults = 0
INVARIANT WaitHasSource
CHECK_DEADLOCK FALSE
