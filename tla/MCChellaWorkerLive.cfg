CONSTANTS
    j1 = j1
    j2 = j2
    p1 = p1
    Job = {j1, j2}
    Package = {p1}
    pkgOf <- OnePackage
    stateOf <- SpawnAndPart
    subjobs <- FirstHasSubjobs
    Main = Main
    NoJob = NoJob
    CacheLimit = 1
    MaxRestarts = 0
SPECIFICATION FairSpec
PROPERTY RunsEnd
\* The worker may have nothing left to do, be down for good, or wait for a lock.
CHECK_DEADLOCK FALSE
