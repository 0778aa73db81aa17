CONSTANTS
    Nodes = {1, 2}
    Window = 1
    Ends <- Ahead
    Probing = {2}
    Unplugged = {2}
    MaxInstance = 2
SPECIFICATION LiveSpec
INVARIANTS
    TypeOK
    AskedOnlyFinished
PROPERTIES
    CatchesUp
    FailsOnlyInGap
CHECK_DEADLOCK FALSE
