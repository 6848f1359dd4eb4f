SPECIFICATION Spec
CONSTANTS
    Task = {p1, p2}
    MaxDelay = 1
INVARIANT FailedHostIsDisallowed
