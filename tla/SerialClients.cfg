CONSTANTS
    n0 = n0
    n1 = n1
    n2 = n2
    NoNode = NoNode
    Nodes <- ThreeNodes
    Outstanding = 1
    MaxInstance = 4
SPECIFICATION Spec
SYMMETRY Symmetric
INVARIANTS
    TypeOK

    
CHECK_DEADLOCK FALSE
