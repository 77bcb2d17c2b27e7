\* One connection; its first packets arrive early.
SPECIFICATION Spec
CONSTANTS
    Conns = {c1}
    Pairs = {p1}
    NoConn = NoConn
    SCap = 1
    QCap = 1
    MaxPkts = 1
    MaxChunks = 0
PROPERTY DirectsToConnection
\* The threads end, and inputs are bounded.
CHECK_DEADLOCK FALSE
