CONSTANTS
    v1 = v1
    v2 = v2
    NoValue = NoValue
    Nodes <- ThreeNodes
    Values <- TwoValues
    Majority = 2
    Proposals <- TwoClients
    Leaders = {0}
    Links <- ThroughTwo
    TimingOut = {0, 1}
    OtherRejects = {}
    MaxProposal = 1
SPECIFICATION Spec
INVARIANTS
    Agreement
CHECK_DEADLOCK FALSE
