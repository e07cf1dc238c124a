SPECIFICATION Spec
CONSTANTS
    Nodes = {n1}
    APs = {a1, a2, a3}
    KnownAPs = {a1, a2}
    FirstHostId = 1
    MaxHostId = 2
    MaxPort = 1
    Heartbeat = TRUE
    None = None
    MaxMoves = 3
    MaxRequests = 1
    MaxRestarts = 0
    MaxFailures = 1
    MaxEvents = 4
    n1 = n1
    a1 = a1
    a2 = a2
    a3 = a3
CHECK_DEADLOCK FALSE
PROPERTIES
    RequestsEnd
    DepartedNodeIsForgotten
