SPECIFICATION FairSpec
CONSTANTS
    a = a
    b = b
    None = None
    Joiner = {a, b}
    Period <- Periods
    Retries <- Attempts
    TTL = 2
    Sleep = 4
    MaxBusy = 1
    MaxEvents = 3
CHECK_DEADLOCK FALSE
INVARIANTS TypeOK AwakeWhenDue
PROPERTIES Settles GivesUp AcceptsRepeat AckStops
