CONSTANTS
    Job = {j1, j2, j3}
    Worker = {w1, w2}
    None = None
    MaxRestarts = 1
    MaxLives = 2
SPECIFICATION Spec
INVARIANT JobsSurviveStop
CHECK_DEADLOCK FALSE
