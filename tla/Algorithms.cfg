SPECIFICATION Spec
CONSTANTS
    Keys = {k1, k2}
    Unit = 2
    Rate = 1
    Burst = 1
    IdleTime = 4
    CleanupEvery = 1
    Skew = 1
    MaxTime = 8
    Targets = {0, 1, 2, 3, 5}
    SplitMaxes = {0, 1, 2, 3, 4}
    MaxSpends = 4
    MaxInt = 7
    None = None
    Received <- MCReceived
    MinNotes = {0, 1, 3}
    MaxNotes = 4
    Horizon = 1
INVARIANTS
    RateIsBounded
    SplitReachesTarget
    AmountsAreExact
CHECK_DEADLOCK FALSE
