SPECIFICATION Spec
CONSTANTS
    a = a
    b = b
    c = c
    Node = {self, a, b, c}
    Req = {1, 2, 3, 4}
    None = None
    MaxPendingJoins = 2
    Self = self
    Ids <- IdsWithRestart
    Elsewhere = {a, b, c}
    TTL = 0
    MaxNow = 2
    MaxTopo = 2
INVARIANTS TypeOK CountExact CompletedUnique
PROPERTY TopoAdvanceEmpties
