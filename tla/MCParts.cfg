SPECIFICATION PartsSpec
CONSTANTS
    Running = {"frontier", "browser", "list", "walk", "files", "overlap", "history", "launcher", "locks", "robots"}
    h1 = h1
    h2 = h2
    a = a
    b = b
    c = c
    d = d
    w = w
    x = x
    y = y
    z = z
    Host = {h1, h2}
    UrlHost <- ListHosts
    Size = 3
    Period = 6
    FailureLimits = {1, 2}
    Cooldown = 2
    MaxConcurrency = 2
    PressureRetries = 2
    GatewayRetries = 1
    Url = {u1, u2, u3}
    MaxRetries = 2
    Task = {t1, t2, t3}
    MaxRequests = 2
    MaxFetches = 5
    PageUrl = {p, q}
    Model = {m1, m2}
    Listed = {p}
    Run = {run1, run2}
    File = {a, b, c, d}
    FileUrl = {w, x, y, z}
    Seed <- Seeds
    OriginOf <- Origins
    Declared <- DeclaredAt
    WellKnown <- GuessedAt
    Admitted <- Admissible
    Indexes <- IndexTrees
    Replies <- OneFails
    UrlsOf <- UrlLists
    Redacted <- WithoutValues
    Stratum <- Strata
    Budgets = {2, 5}
    DepthLimit = 1
    EntryLimit = 3
    SampleLimit = 2
    Legacy = legacy
    Olds = {{}, {p}}
    MaxCommands = 5
    Job = {j1, j2, j3}
    CrawlRun = {r1, r2}
    Writer = {w1, w2, w3}
    UrlRow = {1, 2, 3, 4}
    ValueRow = {5}
    Writes <- PartWrites
    StoredRows = {{}, {1, 2, 3}}
    Attempts = 2
INVARIANTS
    RetryRules
    ContextsServeTheirPages
    CompleteIsComplete
    SiteReportsAreTrue
    OneAtATime
    WritesTakeTurns
PROPERTIES
    ListsAreServed
    HistoryIsSound
    PartsEnd
    PermitsAreSpaced
    RobotsAreAskedOnce
CHECK_DEADLOCK FALSE
