SPECIFICATION FairSpec
CONSTANTS
    None = None
    Item <- MCItem
    Known <- MCKnown
    Category <- MCCategory
    Rules <- MCRules
    MaxProcs = 2
    FirstId = 1000
    MaxBoots = 2
    MaxCommits = 2
    MaxQuid = 3
INVARIANTS
    PushedIsKept
    ResentOnlyAfterInterrupt
    AnsweredIsTaken
    TaskIdsUnique
    QueuedFollowsStore
PROPERTY ChildrenEnd
CHECK_DEADLOCK FALSE
