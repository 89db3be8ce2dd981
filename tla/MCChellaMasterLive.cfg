CONSTANTS
    Job = {j1, j2}
    Worker = {w1, w2}
    None = None
    MaxRestarts = 1
    MaxLives = 1
SPECIFICATION FairSpec
PROPERTY QueueDrains
CHECK_DEADLOCK FALSE
