CONSTANTS
    v = v
    a = a
    b = b
    N = 1
    Txns <- OneJob
    HasValidator = FALSE
    Retries = 1
    Congested = TRUE
    MaxFailures = 2
    MaxDue = 1
    MaxReloads = 0
    MaxRestarts = 0
SPECIFICATION Spec
SYMMETRY Sym
INVARIANT CancelIsRetried
CHECK_DEADLOCK FALSE
