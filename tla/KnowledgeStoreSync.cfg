CONSTANTS
    Requests = {r1, r2}
    Queries = {q1}
    Answers = {a1}
    Worker = worker
    QueueSize = 1
    Modes = {FALSE}
    MaxUploads = 1
    MaxKills = 0
    None = None
SPECIFICATION Spec
CHECK_DEADLOCK FALSE
INVARIANT NeverIndexedTwice
