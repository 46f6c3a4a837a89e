CONSTANTS
    Docs = {d1, d2, d3}
    Stragglers = {d3}
SPECIFICATION Spec
CHECK_DEADLOCK FALSE
INVARIANTS TypeOK Covered
PROPERTIES FlushFollows CloseEnds
