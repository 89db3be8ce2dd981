CONSTANTS
    t1 = t1
    t2 = t2
    t3 = t3
    t4 = t4
    NoTask = NoTask
    Task = {t1, t2, t3, t4}
    Id = {1, 2, 3, 4}
    idOf <- DistinctIds
    prio <- Priorities
    keyRank <- Keys
    MaxRestarts = 2
    MaxSubmits = 4
SPECIFICATION FairSpec
INVARIANTS
    TypeOK
    AckedIsDurable
    MemoryCoversStore
    DuplicatesBounded
PROPERTY AckedReachesMaster
\* Quiescence is normal: nothing left to send, or a thread that hangs or left.
CHECK_DEADLOCK FALSE
