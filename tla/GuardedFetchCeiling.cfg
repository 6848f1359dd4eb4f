SPECIFICATION Spec
CONSTANTS
    Request = {r1, r2}
    MaxRequests = 2
    MaxBytes = 2
    MaxLeases = 14
    MaxWanted = 4
    ReadSize = 2
    Cap = 2
INVARIANTS
    WithinMaxBytes
CHECK_DEADLOCK FALSE
