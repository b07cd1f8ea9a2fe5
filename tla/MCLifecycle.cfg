CONSTANTS
    counts = counts
    badge = badge
    ratings = ratings
    a = a
    b = b
    r1 = r1
    Servers = {a, b}
    Scheduler = Scheduler
    EventOrder <- MCEventOrder
    Flagged = {ratings, badge}
    NeverPruned = {badge}
    Registered = {counts, ratings, badge}
    Gone = {2}
    MaxData = 2
    MaxCrashes = 1
    Background = {a}
    NoView = NoView
    Missing = Missing
    Nobody = Nobody
    Requests = {r1}
    NoRequest = NoRequest
SPECIFICATION FairSpec
INVARIANTS DamagedOnlyByOverlap PromisesKept
PROPERTIES StopEnds OneServes EventuallyCounted
CHECK_DEADLOCK FALSE
