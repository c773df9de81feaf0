\* One request for a domain socket.
SPECIFICATION Spec
INVARIANTS
    TypeOK
    OneWorker
    WholeResponse
    NoLostWakeup
PROPERTY
    ProceedsOnlyIfReused
CHECK_DEADLOCK FALSE
