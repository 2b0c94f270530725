SPECIFICATION Spec
CONSTANTS
    n1 = n1
    n2 = n2
    n3 = n3
    None = None
    Node = {n1, n2, n3}
    Work <- TwoInARow
    Attempts = 3
    MaxPending = 8
    MaxLoss = 1
    MaxErrors = 0
    MaxFlight = 2
    Timely = TRUE
INVARIANT InOrder
CHECK_DEADLOCK FALSE
