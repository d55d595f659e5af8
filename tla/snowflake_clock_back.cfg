CONSTANTS
    Node <- OneNode
    NodeSize = 2
    SeqSize = 2
    MaxClock = 3
    MaxBack = 1
    BackInSpin = TRUE
SPECIFICATION Spec
INVARIANT UniqueIds
CHECK_DEADLOCK FALSE
