CONSTANTS
    v1 = v1
    v2 = v2
    NoValue = NoValue
    Nodes <- ThreeNodes
    Values <- TwoValues
    Majority = 2
    Proposals <- OtherTwoClients
    Leaders = {1}
    Links <- AllLinks
    TimingOut = {1, 2}
    OtherRejects = {}
    MaxProposal = 2
SPECIFICATION ScriptSpec
INVARIANTS
    Agreement
CHECK_DEADLOCK FALSE
