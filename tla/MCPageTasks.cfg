SPECIFICATION TasksFairSpec
CONSTANTS
    s1 = s1
    s2 = s2
    Page = {p1, p2}
    Task = {p1, p2, s1, s2}
    MaxConcurrency = 2
    PerHost = 1
    Threshold = 2
    Recovery = 1
    MaxCount = 3
    Import <- CircularImport
    MaxFiles = 2
    MaxDepth = 1
    MaxRenders = 1
    RenderSlots = 1
INVARIANTS
    OpenedByEnoughFailures
PROPERTIES
    NothingIsHeldForEver
CHECK_DEADLOCK FALSE
