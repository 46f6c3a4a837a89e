CONSTANTS
    Requests = {r1, r2}
    Queries = {q1}
    Docs = {d1, d2}
    Quitters = {}
    Boundless = {r1}
    None = None
    Han <- HanValue
    Latin <- LatinValue
    Common <- CommonValue
    Asked <- AskedValue
    Returned <- ReturnedValue
    Limits <- LimitsValue
SPECIFICATION Spec
CHECK_DEADLOCK FALSE
INVARIANTS TypeOK CacheFresh WaitersHaveLeader FilteredRight ContextSound
PROPERTIES ImplementsFreshIndex
