SPECIFICATION FairSpec
CONSTANTS
    c1 = c1
    c2 = c2
    Conns = {c1, c2}
    NoConn = NoConn
    Fds = {0, 1}
    Kinds = {"keep"}
    MaxReqs <- OneEach
    Leavers = {c1}
    Stallers = {c1}
    Signals = {"halt", "flush"}
    w1 = w1
    w2 = w2
    w3 = w3
    Works = {w1, w2, w3}
    NoWork = NoWork
    WorkOrder <- OneChunk
    MaxEvents = 2
    Workers = {k1}
INVARIANT WorksMatchConnections
PROPERTIES HangupReclaimed HaltObeyed
CHECK_DEADLOCK FALSE
