SPECIFICATION FairSpec
CONSTANTS
    c1 = c1
    c2 = c2
    a1 = a1
    Create = {c1, c2}
    Allocate = {a1}
    MaxAttempts = 2
    MaxFaults = 2
    Load <- MCLoad
CHECK_DEADLOCK FALSE
INVARIANT TypeOK
INVARIANT ReconciledBeforeRetry
INVARIANT OneRowPerTab
INVARIANT AllocatedOnce
INVARIANT RowsFollowBrowser
PROPERTY RetryUnlessMisled
PROPERTY EveryRequestEnds
