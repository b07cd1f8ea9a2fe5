\* Two requests are enough for an instance whose first issue is matched already.
CONSTANTS
  Instances = {1, 2}
  Versions = {v1}
  x1 = x1
  x2 = x2
  Issues <- MCIssues
  Workers = {w1, w2}
  Catalogues <- MCCatalogues
  PageSize = 10
  MaxRequests = 3
  MaxFaults = 0
  None = None
SPECIFICATION MatchSpec
INVARIANT EveryIssueMatched
CHECK_DEADLOCK FALSE
