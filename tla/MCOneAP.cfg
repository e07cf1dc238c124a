SPECIFICATION Spec
CONSTANTS
    Nodes = {n1, n2}
    APs = {a1}
    KnownAPs = {a1}
    FirstHostId = 1
    MaxHostId = 3
    MaxPort = 2
    Heartbeat = TRUE
    None = None
    MaxMoves = 3
    MaxRequests = 2
    MaxRestarts = 1
    MaxFailures = 1
    MaxEvents = 4
    n1 = n1
    n2 = n2
    a1 = a1
SYMMETRY NodesAndAPs
CHECK_DEADLOCK FALSE
INVARIANTS
    TypeOK
    UniqueHostIds
    TablesAgree
    ArtPortIsTheTunnels
    RegisteredIsForwarded
PROPERTIES
    AnsweredAreMembers
    ImplementsRoster
