SPECIFICATION ResponsiveSpec
CONSTANTS
    NULL = NULL
    Containers = {c1, c2}
    Others = {w1}
    Views = {v1}
    XwaylandViews = {v1}
    FloatingViews = {v1}
    Boxes <- ThreeBoxes
    TimerOutcomes = {TRUE}
    MaxSerial = 5
    MaxUncommitted = 0
PROPERTIES
    NoTimeoutNeeded
CHECK_DEADLOCK FALSE
