CONSTANTS
    t1 = t1
    t2 = t2
    t3 = t3
    t4 = t4
    NoTask = NoTask
    Task = {t1, t2}
    Id = {1}
    idOf <- ReusedIds
    prio <- ExtractorPriorities
    keyRank <- Keys
    MaxRestarts = 1
    MaxSubmits = 3
SPECIFICATION Spec
INVARIANT AckedIsDurable
CHECK_DEADLOCK FALSE
