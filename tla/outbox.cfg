SPECIFICATION FairSpec
CONSTANTS
    Rows <- Written
    Loops = {w1, w2}
    w1 = w1
    w2 = w2
    Batch = 2
    MaxAttempts = 3
    MaxDeaths = 1
INVARIANTS TypeOK GivenUp
PROPERTIES Settles
CHECK_DEADLOCK FALSE
