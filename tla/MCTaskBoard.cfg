SPECIFICATION FairSpec
CONSTANTS
    Label = {l1, l2}
    Limits <- MCLimits
    MinCheckout = 2
    Debug = FALSE
    MaxCommits = 3
    MaxTime = 3
    MaxDepth = 2
INVARIANTS
    TimerCovers
    PendingIsListed
PROPERTIES
    KeepsContract
    EveryTaskSettles
    DoneIsErased
CHECK_DEADLOCK FALSE
