SPECIFICATION LiveSpec
CONSTANTS
    a1 = a1
    a2 = a2
    Activation = {a1, a2}
    NoOwner = NoOwner
    Seconds = 2
    MaxTime = 3
    MaxGeneration = 2
INVARIANTS ExclusiveExecution TokensUnique
PROPERTIES Implements AbandonedLeaseReclaimed
CHECK_DEADLOCK FALSE
