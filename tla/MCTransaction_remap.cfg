SPECIFICATION Spec
CONSTANTS
    NULL = NULL
    Containers = {c1, c2, c3}
    Others = {w1}
    Views = {v1}
    XwaylandViews = {v1}
    FloatingViews = {v1}
    Boxes <- TwoBoxes
    TimerOutcomes = {TRUE, FALSE}
    MaxSerial = 3
    MaxUncommitted = 1
SYMMETRY Symmetric
INVARIANTS
    NoUseAfterFree
    NothingLeaks
PROPERTIES
    ViewFreedLast
CHECK_DEADLOCK FALSE
