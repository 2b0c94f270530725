SPECIFICATION Spec
CONSTANTS
    n1 = n1
    n2 = n2
    n3 = n3
    None = None
    Node = {n1, n2, n3}
    Work <- TokenAndJoin
    Attempts = 3
    MaxPending = 4
    MaxLoss = 1
    MaxErrors = 0
    MaxFlight = 2
    Timely = TRUE
INVARIANT AckedNotLost
CHECK_DEADLOCK FALSE
