SPECIFICATION Spec
CONSTANTS
    home = home
    page = page
    amp = amp
    deep = deep
    Url = {home, amp}
    Link <- AmpLinks
    Seed = {amp}
    Scopes <- AmpScopes
    Unfollowed = {amp}
    Limit = 0
    Workers = 2
    MaxRetries = 1
    BudgetOn = TRUE
    MaxSessions = 3
INVARIANTS
    RowsAreAccountedFor
    CompleteLeavesNothingPending
PROPERTIES
    FinishedStaysDone
    ImplementsFrontier
CHECK_DEADLOCK FALSE
