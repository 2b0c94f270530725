SPECIFICATION FairSpec
CONSTANTS
    n1 = n1
    n2 = n2
    n3 = n3
    None = None
    Node = {n1, n2}
    Work <- Mutual
    Attempts = 3
    MaxPending = 4
    MaxLoss = 1
    MaxErrors = 1
    MaxFlight = 2
    Timely = TRUE
INVARIANTS TypeOK ControlKeptOnce AwaitedNotPending AckedNotLost InOrder BitsAgree
PROPERTIES ImplementsChannel SendsReturn AckedArrives
CHECK_DEADLOCK FALSE
