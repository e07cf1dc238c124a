SPECIFICATION Spec
CONSTANTS
    Nodes = {n1}
    APs = {a1, a2}
    KnownAPs = {a1, a2}
    FirstHostId = 1
    MaxHostId = 2
    MaxPort = 1
    Heartbeat = TRUE
    None = None
    MaxMoves = 5
    MaxRequests = 0
    MaxRestarts = 0
    MaxFailures = 0
    MaxEvents = 5
    n1 = n1
    a1 = a1
    a2 = a2
CHECK_DEADLOCK FALSE
PROPERTIES
    SkippedStationIsSetUp
