CONSTANTS
    a1 = a1
    a2 = a2
    s1 = s1
    v1 = v1
    v2 = v2
    c1 = c1
    c2 = c2
    Requests = {a1, a2}
    Tags = {t1}
    MaxRuns = 2
    MaxInstance = 3
    MaxDisturbed = 2
    MaxUpgrades = 1
    Versions = {v1, v2}
    Components = {c1, c2}
    Services = {s1}
    Issues = {x1}
    ServiceOf <- MCServiceOf
    DeployedAs <- MCDeployedAs
    ComponentOf <- MCComponentOf
    PageLimit = 5
    NoTag = NoTag
SPECIFICATION MCSpec
INVARIANTS AbsenceConfirmed NoDuplicatePatch PatchPerDisappearance CatalogConsistent
SYMMETRY Retries
