SPECIFICATION FairSpec
CONSTANTS
    Threads = {t1, t2, t3}
    NWorkers = 2
    Domains = {"inet", "local"}
    Kinds = {"halt", "flush", "yank"}
    MaxSignals = 2
    MaxStarts = 2
INVARIANTS TypeOK FinderIsListed ObjectsOutliveThreads ServesSafely
PROPERTIES IterationEnds HaltEndsServer
CHECK_DEADLOCK FALSE
