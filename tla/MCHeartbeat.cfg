SPECIFICATION Spec
CONSTANTS
    Threads = {t1, t2}
    t1 = t1
    t2 = t2
    ChainLength = 3
    MaxSessions = 2
    MaxRestarts = 1
    MaxFailures = 1
CHECK_DEADLOCK FALSE
INVARIANTS
    TypeOK
PROPERTIES
    GoesForward
    ImplementsRegistry
    FreshHeartbeatStands
    SilenceIsNoticed
