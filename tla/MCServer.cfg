SPECIFICATION FairSpec
CONSTANTS
    c1 = c1
    c2 = c2
    Conns = {c1, c2}
    NoConn = NoConn
    Fds = {0, 1}
    Kinds = {"keep"}
    MaxReqs <- TwoAndOne
    Leavers = {}
    Stallers = {c1}
    Signals = {"halt"}
    w1 = w1
    w2 = w2
    w3 = w3
    Works = {w1, w2, w3}
    NoWork = NoWork
    WorkOrder <- OneChunk
    MaxEvents = 2
    Workers = {k1, k2}
INVARIANTS TypeOK OnePlace
PROPERTIES RequestAnswered HaltCompletes
CHECK_DEADLOCK FALSE
