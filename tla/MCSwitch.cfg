\* Two switches, one AP manager and the coordinator.
SPECIFICATION FairSpec
CONSTANTS
    APs = {a1, a2}
    Programs = {a1, co}
    Keys = {k}
    Ports = {bb, p1}
    Backbone = bb
    None = None
    MaxCalls = 2
    MaxMishaps = 1
INVARIANTS
    TypeOK
    PortsStand
    EntriesStand
PROPERTIES
    LoopIsComplete
    AnnouncedIsDiscovered
CHECK_DEADLOCK FALSE
