\* checkout.place begun by a request, or by `start`, in a host that runs a work
\* loop; two passes die, and the loop is started again.
CONSTANTS
    c1 = c1
    c2 = c2
    l1 = l1
    Callers = {c1}
    Loops = {l1}
    N = 2
    SlotOf <- Pair
    Reaching = {2}
    MaySkip = {}
    MayWait = {}
    MayStick = {1}
    MaxAttempts = 2
    Locked = FALSE
    Recovers = FALSE
    MaxFaults = 2
    MaxPending = 1
SPECIFICATION FairSpec
INVARIANTS OneInvoker OneQuestion
PROPERTY WorkedOff
CHECK_DEADLOCK FALSE
