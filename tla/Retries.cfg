CONSTANTS
    v1 = v1
    v2 = v2
    NoValue = NoValue
    Nodes <- ThreeNodes
    Values <- TwoValues
    Majority = 2
    Proposals <- TwoClients
    Leaders = {}
    Links <- ThroughTwo
    TimingOut = {0, 1}
    OtherRejects <- OneRejection
    MaxProposal = 1
SPECIFICATION Spec
INVARIANTS
    
    IInv
CHECK_DEADLOCK FALSE
