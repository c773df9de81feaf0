\* Two enqueuers and two dequeuers; no address is used twice.
SPECIFICATION FairSpec
CONSTANTS
    Enqueuers = {e1, e2}
    Dequeuers = {d1, d2}
    Nodes = {0, 1, 2}
    Null = Null
    Reuse = FALSE
    MaxItems = 1
INVARIANTS
    TypeOK
    SemaphoreCountsItems
PROPERTY
    ImplementsQueue
CHECK_DEADLOCK FALSE
