SPECIFICATION Spec
CONSTANTS
    c1 = c1
    c2 = c2
    Conns = {c1, c2}
    NoConn = NoConn
    Fds = {0, 1}
    Kinds = {"keep"}
    MaxReqs <- OneEach
    Leavers = {c1}
    Stallers = {}
    Signals = {}
    w1 = w1
    w2 = w2
    w3 = w3
    Works = {w1, w2, w3}
    NoWork = NoWork
    WorkOrder <- AllChunks
    MaxEvents = 2
    Workers = {k1, k2}
INVARIANT NoUseAfterFree
CHECK_DEADLOCK FALSE
