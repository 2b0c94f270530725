SPECIFICATION Spec
CONSTANTS
    n1 = n1
    n2 = n2
    n3 = n3
    j1 = j1
    None = None
    Node = {n1, n2, n3, j1}
    Req <- Ids
    MaxPendingJoins = 2
    Ring0 <- RingOfThree
    Mail <- NoMail
    MaxAckRetries = 2
    MaxLosses = 0
    MaxRestarts = 0
    Faults = {"late"}
INVARIANT RingClosed
