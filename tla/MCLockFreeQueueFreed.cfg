\* One enqueuer and two dequeuers, as the scheduler and the workers.
SPECIFICATION Spec
CONSTANTS
    Enqueuers = {e1}
    Dequeuers = {d1, d2}
    Nodes = {0, 1, 2}
    Null = Null
    Reuse = TRUE
    MaxItems = 2
INVARIANT
    NoFreedDereference
CHECK_DEADLOCK FALSE
