SPECIFICATION Spec
CONSTANTS
    n1 = n1  n2 = n2  v1 = v1  v2 = v2  None = None
    Name = {n1, n2}
    Value = {v1, v2}
    Size <- MCSize
    Grow = 2
    ItemSize = 1
    Word = 1000
    MaxItems = 5
    MaxOpens = 2
INVARIANTS ReopenIsInvisible LiveIsBelowFree
PROPERTY ImplementsLargeStore
CHECK_DEADLOCK FALSE
SYMMETRY Symmetry
