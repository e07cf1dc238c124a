\* Two log pages, two heartbeat-log pages, one database page; the
\* bound on events is shared by the streams.
SPECIFICATION Spec
CONSTANTS
    LogPages = {l1, l2}
    DbPages = {d1}
    NodePages = {n1, n2}
    Conns = {c1, c2}
    Requests = {r1, r2}
    Entries = {e1, e2, e3}
    Shown = {e1, e2}
    None = None
    MaxBuffer = 2
    MaxHistory = 2
    MaxOutside = 5
INVARIANTS
    TypeOK
    ActiveMissesNothing
    ActiveShowsWhatIsSent
    EachLineOnce
PROPERTIES
    ReplacedOnlyByNewer
    EntriesGetThrough
    SnapshotsInOrder
CHECK_DEADLOCK FALSE
