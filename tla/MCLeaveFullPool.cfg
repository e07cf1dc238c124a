SPECIFICATION Spec
CONSTANTS
    Nodes = {n1, n2}
    APs = {a1}
    KnownAPs = {a1}
    FirstHostId = 1
    MaxHostId = 2
    MaxPort = 2
    Heartbeat = TRUE
    None = None
    MaxMoves = 2
    MaxRequests = 3
    MaxRestarts = 0
    MaxFailures = 0
    MaxEvents = 5
    n1 = n1
    n2 = n2
    a1 = a1
CHECK_DEADLOCK FALSE
PROPERTIES
    LeaveNeedsNoHostId
