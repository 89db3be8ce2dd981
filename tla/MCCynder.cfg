SPECIFICATION Spec
CONSTANTS
    q1 = q1  q2 = q2  small = small  big = big  bigger = bigger  None = None
    Quid = {q1, q2}
    Content = {small, big, bigger}
    Large = {big, bigger}
    Meta <- MCMeta
    Keyword = {"name", "type"}
    lower <- MCLower
    keyOrder <- MCKeyOrder
    MaxRequests = 3
    MaxRestarts = 1
SYMMETRY Symmetry
INVARIANTS
    StoredIsLastAccepted
    LargeContentPresent
    RecordHasContent
    SearchFindsAll
CHECK_DEADLOCK FALSE
