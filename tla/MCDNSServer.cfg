SPECIFICATION FairSpec
CONSTANTS
    Addrs = 2
    Workers = 2
    QueueCap = 1
    TCPSlots = 1
    MaxLeaving = 1
    Stoppers = {c1, c2}
CHECK_DEADLOCK FALSE
INVARIANTS
    Consistent
    ShutdownComplete
    FailedStartClean
PROPERTY
    Terminates
