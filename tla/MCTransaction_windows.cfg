SPECIFICATION Spec
CONSTANTS
    NULL = NULL
    Containers = {c1, c2}
    Others = {w1}
    Views = {v1, v2}
    XwaylandViews = {}
    FloatingViews = {}
    Boxes <- TwoBoxes
    TimerOutcomes = {TRUE}
    MaxSerial = 3
    MaxUncommitted = 1
SYMMETRY SymmetricViews
INVARIANTS
    RefCounts
    WaitsForTheSilent
    FrozenWhileAwaited
    CommittedIsLatest
PROPERTIES
    AtomicUpdates
    ClosingFrameKept
CHECK_DEADLOCK FALSE
