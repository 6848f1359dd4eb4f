SPECIFICATION FairSpec
CONSTANTS
    home = home
    page = page
    amp = amp
    deep = deep
    Url = {home, page, amp, deep}
    Link <- SiteLinks
    Seed = {home, page, amp}
    Scopes <- SiteScopes
    Unfollowed = {}
    Limit = 2
    Workers = 2
    MaxRetries = 1
    BudgetOn = FALSE
    MaxSessions = 1
INVARIANTS
    LimitsHold
PROPERTY
    SessionsEnd
CHECK_DEADLOCK FALSE
