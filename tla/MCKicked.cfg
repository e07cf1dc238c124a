SPECIFICATION Spec
CONSTANTS
    Nodes = {n1}
    APs = {a1}
    KnownAPs = {a1}
    FirstHostId = 1
    MaxHostId = 2
    MaxPort = 1
    Heartbeat = TRUE
    None = None
    MaxMoves = 1
    MaxRequests = 2
    MaxRestarts = 0
    MaxFailures = 0
    MaxEvents = 3
    n1 = n1
    a1 = a1
CHECK_DEADLOCK FALSE
PROPERTIES
    KickedNodeIsOut
