SPECIFICATION FairSpec
CONSTANTS
    Callers = {c1}
    Sold = 2
    MinCycles = 0
    MaxAttempts = 2
    MaxClock = 2
    MaxDeaths = 0
    MaxRequests = 0
PROPERTIES Renews
CHECK_DEADLOCK FALSE
