\* checkout.place asked for twice at once: nothing dies.
CONSTANTS
    c1 = c1
    c2 = c2
    l1 = l1
    Callers = {c1, c2}
    Loops = {}
    N = 2
    SlotOf <- Pair
    Reaching = {}
    MaySkip = {}
    MayWait = {}
    MayStick = {}
    MaxAttempts = 2
    Locked = FALSE
    Recovers = FALSE
    MaxFaults = 0
    MaxPending = 0
SPECIFICATION Spec
INVARIANT SettledFaithful
CHECK_DEADLOCK FALSE
