SPECIFICATION Spec
CONSTANTS
  u1 = u1
  u2 = u2
  g1 = g1
  g2 = g2
  s1 = s1
  s2 = s2
  s3 = s3
  c1 = c1
  c2 = c2
  v1 = v1
  v2 = v2
  v3 = v3
  i1 = i1
  i2 = i2
  x1 = x1
  x2 = x2
  w1 = w1
  r1 = r1
  r2 = r2
  m1 = m1
  m2 = m2
  a = a
  b = b
  d = d
  Nobody = Nobody
  Users = {u1, u2}
  SupportGroups = {g1, g2}
  Services = {s1, s2, s3}
  Components = {c1, c2}
  ComponentVersions = {v1, v2, v3}
  ComponentInstances = {i1, i2}
  Issues = {x1, x2}
  IssueVariants = {w1}
  IssueRepositories = {r1, r2}
  IssueMatches = {m1, m2}
  Names = {a, b, d}
  DefaultRepositoryName = d
  Seed <- MCSeed
  SeedLinks <- MCSeedLinks
  PageSize = 1
  MaxOps = 2
  MaxFailures = 1
INVARIANTS NeverInvented GrantsSettle ListsOnlyOwn DefaultRepositoryLinked
