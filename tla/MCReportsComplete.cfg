SPECIFICATION ReportsSpec
CONSTANTS
    Running = {"reconciliation"}
    None = None
    NoFile = NoFile
    d1 = d1
    d2 = d2
    Url = {"u1", "u2"}
    Proc = {"p1", "p2"}
    RunId = {"run"}
    Manifest <- ManifestScopes
    ArchiveDeclared = {}
    Command <- CommandLines
    MayDie = TRUE
    MaxInvocations = 2
    Origin = {"o1"}
    Foreign = "o2"
    ScopeUrl <- ScopeUrls
    MaxTime = 2
    MaxHops = 1
    StoredUrl = {"page", "doc"}
    Document = {"doc"}
    Run = {"r1", "r2"}
    Legacy = "legacy"
    Finds <- FoundTables
    MaxFetches = 2
    Pages = 2
    RunIds = {"r1", "r2"}
    BatchSize = 1
    MaxStored = 2
    Page = {1, 2, 3, 4}
    Norm <- Norms
    Key <- Norms
    AmpBase <- AmpBases
    QueryBase <- QueryBases
    Snapshots <- PageSnapshots
    MaxRecrawls = 1
    Reports = 2
    MaxPages = 2
    MaxClock = 2
    Templates <- Workbooks
    Publication <- Publications
    Protected = {"Config"}
    TabName = {"Tickets", "Config", "Detail", "More", "Intro"}
    NumRows = 3
    MaxEdits = 1
    SiteUrl <- Site
    ForeignUrl = {"other"}
    Seeds = {"home", "a"}
    Outside = {"out"}
    LinksOf <- SiteLinks
    Destination <- LeadsTo
    Worlds <- SiteWorlds
    Requests <- Exports
    SitemapOfRun = {"a"}
    Limits = {0, 1}
    RecordIds = {1, 2}
    Contexts <- RunContexts
    MaxSessions = 2
INVARIANT CompleteSaysAllWasFetched
CHECK_DEADLOCK FALSE
