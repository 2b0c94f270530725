SPECIFICATION FairSpec
CONSTANTS
    n1 = n1
    n2 = n2
    n3 = n3
    j1 = j1
    None = None
    Node = {n1, n2, j1}
    Req <- Ids
    MaxPendingJoins = 2
    Ring0 <- RingOfTwo
    Mail <- ToJoiner
    MaxAckRetries = 1
    MaxLosses = 1
    MaxRestarts = 0
    Faults = {}
INVARIANTS TokenNotLost MailConserved MailOnce
PROPERTIES EveryoneServed MailArrives
