CONSTANTS
    v = v
    a = a
    b = b
    N = 2
    Txns <- TwoJobs
    HasValidator = TRUE
    Retries = 0
    Congested = FALSE
    MaxFailures = 0
    MaxDue = 0
    MaxReloads = 1
    MaxRestarts = 1
SPECIFICATION Spec
INVARIANT OneEventPerLoad StoreIsNotAhead
CHECK_DEADLOCK FALSE
