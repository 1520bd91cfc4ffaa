SPECIFICATION Spec
CONSTANTS
    w1 = w1  w2 = w2  w3 = w3
    Requests <- MCRequests
    None = None
    Attempts = 3
CHECK_DEADLOCK FALSE
INVARIANT ConnectedOnce
