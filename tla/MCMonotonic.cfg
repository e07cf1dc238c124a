SPECIFICATION Spec
CONSTANTS
    Threads = {t1, t2}
    t1 = t1
    t2 = t2
    ChainLength = 3
    MaxSessions = 1
    MaxRestarts = 0
    MaxFailures = 0
CHECK_DEADLOCK FALSE
PROPERTIES
    Monotonic
