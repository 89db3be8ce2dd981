CONSTANTS
    Job = {j1, j2, j3}
    Worker = {w1, w2}
    None = None
    MaxRestarts = 1
    MaxLives = 2
SPECIFICATION Spec
SYMMETRY Symmetry
INVARIANTS
    TypeOK
    HandedOutOnce
    OneJobPerDeath
    HandedOutInOrder
    JobIdsUnique
    WorkerIdsUnique
\* The system may stop: no worker is left, or all wait for a reply that is gone.
CHECK_DEADLOCK FALSE
