SPECIFICATION Spec
CONSTANTS
    Callers = {c1, c2}
    c1 = c1
    c2 = c2
    Sold = 2
    MinCycles = 0
    MaxAttempts = 2
    MaxClock = 3
    MaxDeaths = 1
    MaxRequests = 2
SYMMETRY Symmetry
INVARIANTS TypeOK ChargedOnce CyclesPaid CollectedOnce
PROPERTIES EndedStays
CHECK_DEADLOCK FALSE
