CONSTANTS
    Docs = {d1, d2}
    Stragglers = {}
SPECIFICATION Spec
CHECK_DEADLOCK FALSE
INVARIANT FlushedByClose
