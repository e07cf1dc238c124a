SPECIFICATION Spec
CONSTANTS
    Nodes = {n1, n2}
    APs = {a1, a2}
    KnownAPs = {a1, a2}
    FirstHostId = 1
    MaxHostId = 3
    MaxPort = 2
    Heartbeat = TRUE
    None = None
    MaxMoves = 3
    MaxRequests = 1
    MaxRestarts = 0
    MaxFailures = 1
    MaxEvents = 4
    n1 = n1
    n2 = n2
    a1 = a1
    a2 = a2
SYMMETRY NodesAndAPs
CHECK_DEADLOCK FALSE
INVARIANTS
    UniqueHostIds
    TablesAgree
    ArtPortIsTheTunnels
    RegisteredIsForwarded
PROPERTIES
    AnsweredAreMembers
    ImplementsRoster
