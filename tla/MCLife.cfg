SPECIFICATION Spec
CONSTANTS
    MaxInputs = 2
    MaxWaits = 1
    MaxRuns = 1
    MaxFaults = 1
INVARIANTS InputOwned WaitDecisionLive DrainedBehindWait
PROPERTIES FailureKeepsInput CompletesClean OverIsOver
CHECK_DEADLOCK FALSE
