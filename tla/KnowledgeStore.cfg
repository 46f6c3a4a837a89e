CONSTANTS
    Requests = {r1, r2}
    Queries = {q1}
    Answers = {a1, a2}
    Worker = worker
    QueueSize = 1
    Modes = {TRUE, FALSE}
    MaxUploads = 1
    MaxKills = 1
    None = None
SPECIFICATION Spec
CHECK_DEADLOCK FALSE
INVARIANTS TypeOK IndexedOnce IndexedIsOnDisk StatsAddUp DrainedOnClose
PROPERTIES Answered CloseEnds
