CONSTANTS
    e1 = e1
    e2 = e2
    e3 = e3
    w1 = w1
    w2 = w2
    Events = {e1, e2, e3}
    Workers = {w1, w2}
    NameOf <- MCNameOf
    Subscriptions <- MCSubscriptions
    InitCap = 1
    MinCap = 1
    MaxGen = 2
    NoEvent = NoEvent
SPECIFICATION FairSpec
INVARIANT HandledCompletely
PROPERTIES Delivers HandledUnlessStranded ShutdownCompletes
CHECK_DEADLOCK FALSE
