\* Load in one direction at a time, enough to fill the queues of one connection
\* and those a dead writer leaves behind.
SPECIFICATION FlowSpec
CONSTANTS
    Conns = {c1}
    Pairs = {p1}
    NoConn = NoConn
    SCap = 1
    QCap = 1
    MaxPkts = 3
    MaxChunks = 2
INVARIANT NoHoleInStream
PROPERTIES ConnectionEndsOrJams LinkThreadEndsOrJams
\* The threads end, and inputs are bounded.
CHECK_DEADLOCK FALSE
