CONSTANTS
    v = v
    a = a
    b = b
    N = 1
    Txns <- OneJob
    HasValidator = FALSE
    Retries = 0
    Congested = FALSE
    MaxFailures = 1
    MaxDue = 0
    MaxReloads = 1
    MaxRestarts = 1
SPECIFICATION Spec
SYMMETRY Sym
INVARIANT ReservationInv
CHECK_DEADLOCK FALSE
