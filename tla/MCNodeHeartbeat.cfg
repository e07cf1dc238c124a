\* One orphan beside the sender of a new launcher; chains of three heartbeats.
SPECIFICATION Spec
CONSTANTS
    Keys = {1, 2, 3, 4}
    ChainLength = 3
    Procs = {11, 12}
    Sup = Sup
    MaxMishaps = 1
INVARIANTS
    TypeOK
    SenderIsVerified
PROPERTIES
    StoppedSendsNothing
    NeverLockedOut
CHECK_DEADLOCK FALSE
