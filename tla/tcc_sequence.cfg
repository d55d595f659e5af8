CONSTANTS
    v = v
    a = a
    b = b
    N = 2
    Txns <- TwoJobs
    HasValidator = TRUE
    Retries = 1
    Congested = TRUE
    MaxFailures = 2
    MaxDue = 1
    MaxReloads = 0
    MaxRestarts = 0
SPECIFICATION Spec
INVARIANT JobsInSequence EndedTaskIsComplete AnswersFindTheirJob
PROPERTY CancelStopsThePipeline NoLateExpiry
CHECK_DEADLOCK FALSE
