\* Three mutations, two at a time; either a date that passes, or a cached list that
\* a create removes and one that it does not.
\* Once every mutation is answered and every date has passed, nothing is left to do.
CONSTANTS
    c1 = c1
    c2 = c2
    u1 = u1
    Requests = {q1, q2}
    Components = {c1, c2}
    Users = {u1}
    Inputs <- MCInputs
    Changes <- MCChanges
    IssueLists = {issues}
    OtherLists = {remediations}
    MaxRequests = 3
    MaxTime = 1
    None = None
SPECIFICATION MCSpec
INVARIANTS LaterOnesExtend RiskAcceptedHasURL CreateVisible
CHECK_DEADLOCK FALSE
