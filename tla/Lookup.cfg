CONSTANTS
    Nodes = {1, 2}
    Window = 2
    Ends <- Ahead
    Probing = {2}
    Unplugged = {}
    MaxInstance = 2
SPECIFICATION Spec
INVARIANTS
    LookupAnswered
CHECK_DEADLOCK FALSE
