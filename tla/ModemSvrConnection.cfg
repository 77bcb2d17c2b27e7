\* Two connections compete for one port pair.
SPECIFICATION OneFaultSpec
CONSTANTS
    Conns = {c1, c2}
    Pairs = {p1}
    NoConn = NoConn
    SCap = 1
    QCap = 1
    MaxPkts = 1
    MaxChunks = 0
SYMMETRY ConnSymmetry
INVARIANTS TypeOK RemoteIsTold NoOrphanThreads LiveIsListed
\* The threads end, and inputs are bounded.
CHECK_DEADLOCK FALSE
