CONSTANTS
    Keys = {k1}
    Callers = {p1, p2}
    Refreshers = {r1, r2}
    MaxConcurrent = 1
    Burst = 1
    MaxWrites = 2
    QueryFails = TRUE
    NoKey = NoKey
SPECIFICATION FairSpec
INVARIANTS MonotonicReads RefreshBounded DiscardedOnlyAtLimit
PROPERTY EventuallyFresh
