CONSTANTS
    v = v
    a = a
    b = b
    N = 2
    Txns <- EmptyJob
    HasValidator = TRUE
    Retries = 0
    Congested = FALSE
    MaxFailures = 1
    MaxDue = 0
    MaxReloads = 1
    MaxRestarts = 0
SPECIFICATION FairSpec
PROPERTY TaskEnds
CHECK_DEADLOCK FALSE
