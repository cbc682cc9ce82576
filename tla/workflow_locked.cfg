\* subscription.renew: locked by the contract, driven by two callers of the
\* same key, with passes that die and a host that calls
\* recover, now and then.
CONSTANTS
    c1 = c1
    c2 = c2
    l1 = l1
    Callers = {c1, c2}
    Loops = {}
    N = 3
    SlotOf <- Fork
    Reaching = {3}
    MaySkip = {2, 3}
    MayWait = {1, 3}
    MayStick = {1}
    MaxAttempts = 2
    Locked = TRUE
    Recovers = TRUE
    MaxFaults = 2
    MaxPending = 1
SPECIFICATION FairSpec
INVARIANTS TypeOK SettledFaithful
PROPERTIES IsSaga PassesEnd
CHECK_DEADLOCK FALSE
