CONSTANTS
    Goroutines = {"p1", "p2", "p3", "p4"}
    GroupOf <- MCGroupOf
    ServiceOf <- MCServiceOf
    SupportGroupOf <- MCSupportGroupOf
    ContainersOf <- MCContainersOf
    InstanceOf <- MCInstanceOf
    ComponentOf <- MCComponentOf
    VersionOf <- MCVersionOf
    SideCar <- MCSideCar
    Keppel = "keppel"
    Workers = {"w1", "w2"}
    ReportOf <- MCReportOf
    Nvd = "nvd"
    NvdCves = {"cve1"}
    CveNames = {"cve1"}
    Alerts = {"a1", "a2", "a3"}
    AlertOf <- MCAlertOf
    RepositoryOf <- MCRepositoryOf
    Scenes <- MCScenes
    NoName = NoName
SPECIFICATION Spec
INVARIANTS VariantFollowsIssue ContainersPlaced AlertRecorded
PROPERTIES EventuallyAttached EventuallyOwned
