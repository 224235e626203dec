SPECIFICATION SpecAll
CONSTANTS
    Scopes = {1, 2, 3}
    MaxInFlight = 1
    w1 = w1
    w2 = w2
    p1 = p1
INVARIANTS ScopesRunOnce
PROPERTIES InputIsServed ScopesAreServed DueResolved
CHECK_DEADLOCK FALSE
