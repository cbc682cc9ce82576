SPECIFICATION Spec
CONSTANTS
    w1 = w1
    w2 = w2
    Workers = {w1, w2}
    Amount = 3
    Credits = {1, 3}
    Holds = {3}
    Extras = {0, 1}
    Fees = {0, 1}
    Digital = 3
    Backs = {2}
PROPERTY
    ClosedStaysClosed
CHECK_DEADLOCK FALSE
