\* A connection that reads, then writes, beside one that reads.
CONSTANTS
    Conns = {"reader1", "reader2", "writer"}
    Scripts <- Mixed
    MaxAborts = 0
    Entries = {e1, e2, e3, e4}
    NoEntry = NoEntry
    NoPath = NoPath
    Paths = {"reg", "dir", "sock", "none"}
    Kind <- KindIsName
    FileSize = 2
    BodySize = 1
    Lifetime = 2
    MaxClock = 2
SPECIFICATION Spec
INVARIANT EntryInUseLives
CHECK_DEADLOCK FALSE
