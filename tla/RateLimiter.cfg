CONSTANTS
    Requests = {r1, r2, r3, r4}
    Clients = {c1, c2}
    Modes = {"rag"}
    Cost <- CostValue
    Burst <- BurstValue
    MaxVisitors = 2
    TTL = 3
    Skew = 1
    MaxTime = 5
    NoVisitor = NoVisitor
SYMMETRY Symmetry
SPECIFICATION Spec
CHECK_DEADLOCK FALSE
INVARIANTS TypeOK BurstBound
PROPERTIES RefusedOnlyEarly
