SPECIFICATION SpecAll
CONSTANTS
    Keys = {"k1"}
    Callers = {c1, c2}
    Contents = {"a", "b"}
    MaxParts = 2
    MaxAttempts = 2
    MaxFaults = 2
    MaxChanges = 1
    Claimers = {w1, w2}
    MaxTime = 2
    Limits = {0, 1}
    MaxEdits = 2
    MaxLapses = 2
    NoWorker = NoWorker
    TurnAttempts = 2
    MaxTurnFaults = 3
    MaxPauses = 4
    MaxEvents = 3
    Child = {d1}
    MaxConcurrency = 1
    MaxCommands = 2
    MaxChildFaults = 1
SYMMETRY Symmetry
INVARIANTS TasksAreSettled OutboxIsTrue JobIsItsWork ParentAndChildAgree
PROPERTIES RunsAreAdmitted WorkIsKept EndsAreFinal
CHECK_DEADLOCK FALSE
