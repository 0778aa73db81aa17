CONSTANTS
    v1 = v1
    v2 = v2
    NoValue = NoValue
    Nodes <- ThreeNodes
    Values <- TwoValues
    Majority = 2
    Proposals <- TwoClients
    Leaders = {1}
    Links <- AllLinks
    TimingOut = {}
    OtherRejects = {}
    MaxProposal = 1
SPECIFICATION Spec
INVARIANTS
    TypeOK
    PromiseHonoured
    ConditionalAgreement
    DecidedWasProposed
PROPERTIES
    ImplementsConsensus
CHECK_DEADLOCK FALSE
