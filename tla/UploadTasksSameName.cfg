CONSTANTS
    Uploads = {u1, u2}
    Workers = {w1, w2}
    Clients = {c1}
    QueueSize = 1
    Paths = {p1}
    MaxClock = 0
    None = None
    Letters = {"a", "b"}
    Documents <- DocumentsValue
    Sizes = {1, 2, 3}
    Overlaps = {0, 1, 2, 3}
SPECIFICATION Spec
CHECK_DEADLOCK FALSE
INVARIANT OwnBytesIndexed
