SPECIFICATION FairSpec
CONSTANTS
    Request = {r1, r2, r3}
    MaxRequests = 2
    MaxBytes = 3
    \* Never binds: a response of Cap = 2 takes at most five leases.
    MaxLeases = 21
    MaxWanted = 4
    ReadSize = 2
    Cap = 2
INVARIANTS
    OverrunBoundedByFlush
    ResponsesAreCapped
PROPERTIES
    ImplementsLedger
    SlotsAreReturned
CHECK_DEADLOCK FALSE
