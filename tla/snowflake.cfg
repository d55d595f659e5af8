CONSTANTS
    Node <- TwoNodes
    NodeSize = 2
    SeqSize = 2
    MaxClock = 3
    MaxBack = 1
    BackInSpin = FALSE
SPECIFICATION Spec
INVARIANT TypeOK UniqueIds ParsesBack
PROPERTY Ascending
CHECK_DEADLOCK FALSE
