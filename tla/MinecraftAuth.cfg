\* Three runs by two processes, one crash or failing operation.
SPECIFICATION FairSpec
CONSTANTS
    alex = alex
    p1 = p1
    p2 = p2
    Proc = {p1, p2}
    User = {alex}
    None = None
    Torn = Torn
    MaxRuns = 3
    MaxFaults = 1
CHECK_DEADLOCK FALSE
INVARIANT TypeOK
INVARIANT StateLoads
INVARIANT SavedTogether
INVARIANT SavedTokenWorks
INVARIANT LoginOnlyWhenNeeded
PROPERTY DeviceKept
PROPERTY EveryEnsureEnds
