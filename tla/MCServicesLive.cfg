SPECIFICATION SpecLive
CONSTANTS
    Keys = {"k1", "k2"}
    Callers = {c1, c2}
    Contents = {"a"}
    MaxParts = 1
    MaxAttempts = 2
    MaxFaults = 1
    MaxChanges = 0
    Claimers = {w1}
    MaxTime = 1
    Limits = {1}
    MaxEdits = 0
    MaxLapses = 0
    NoWorker = NoWorker
    TurnAttempts = 2
    MaxTurnFaults = 2
    MaxPauses = 3
    MaxEvents = 2
    Child = {d1, d2}
    MaxConcurrency = 1
    MaxCommands = 0
    MaxChildFaults = 1
PROPERTIES OutboxSettles JobsAreServed ChildrenReport
CHECK_DEADLOCK FALSE
