SPECIFICATION Spec
CONSTANTS
    a = a
    b = b
    c = c
    Node = {self, a, b, c}
    Req = {1, 2, 3, 4}
    None = None
    MaxPendingJoins = 3
    Self = self
    Ids <- IdsOnce
    Elsewhere = {}
    TTL = 3
    MaxNow = 3
    MaxTopo = 3
INVARIANT NotHandledTwice
