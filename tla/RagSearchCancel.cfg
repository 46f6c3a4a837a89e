CONSTANTS
    Requests = {r1, r2}
    Queries = {q1}
    Docs = {d1}
    Quitters = {r1}
    Boundless = {}
    None = None
    Han <- HanValue
    Latin <- LatinValue
    Common <- CommonValue
    Asked <- AskedValue
    Returned <- ReturnedValue
    Limits <- LimitsValue
SPECIFICATION Spec
CHECK_DEADLOCK FALSE
INVARIANT OwnCancellation
