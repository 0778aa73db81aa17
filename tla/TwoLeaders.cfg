CONSTANTS
    v1 = v1
    v2 = v2
    NoValue = NoValue
    Nodes <- ThreeNodes
    Values <- TwoValues
    Majority = 2
    Proposals <- OtherTwoClients
    Leaders = {1, 2}
    Links <- AllLinks
    TimingOut = {}
    OtherRejects = {}
    MaxProposal = 0
SPECIFICATION Spec
INVARIANTS
    Agreement
CHECK_DEADLOCK FALSE
