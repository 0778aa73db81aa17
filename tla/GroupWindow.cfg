CONSTANTS
    c1 = c1
    c2 = c2
    x1 = x1
    x2 = x2
    x3 = x3
    NoClient = NoClient
    Clients <- TwoClients
    Pool <- TwoObjects
    Window = 2
    Tries = 3
    PeerIDs = {1, 3}
    MaxInstance = 7
    QueueBound = 1
SPECIFICATION Spec
SYMMETRY AllSymmetric
INVARIANTS
    TypeOK
    NoAssertionFails
    WindowRight
    NotifiedMeansLogged
    LoggedAtMostOnce
