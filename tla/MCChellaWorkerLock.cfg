CONSTANTS
    j1 = j1
    j2 = j2
    p1 = p1
    Job = {j1, j2}
    Package = {p1}
    pkgOf <- OnePackage
    stateOf <- SpawnAndPart
    subjobs <- FirstHasSubjobs
    Main = Main
    NoJob = NoJob
    CacheLimit = 1
    MaxRestarts = 1
SPECIFICATION Spec
INVARIANT LockHasOwner
CHECK_DEADLOCK FALSE
