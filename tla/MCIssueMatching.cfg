\* Three requests, among them an instance, attachments and a match of a client; one fault.
CONSTANTS
  Instances = {1, 2}
  Versions = {v1, v2}
  x1 = x1
  x2 = x2
  Issues <- MCIssues
  Workers = {w1, w2}
  Catalogues <- MCCatalogues
  PageSize = 10
  MaxRequests = 3
  MaxFaults = 1
  None = None
SPECIFICATION MatchSpec
INVARIANT BestVariantDecides
PROPERTIES NoKnownDuplicate EventuallyMatched
CHECK_DEADLOCK FALSE
