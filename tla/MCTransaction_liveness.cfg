SPECIFICATION FairSpec
CONSTANTS
    NULL = NULL
    Containers = {c1, c2}
    Others = {w1}
    Views = {v1}
    XwaylandViews = {v1}
    FloatingViews = {}
    Boxes <- TwoBoxes
    TimerOutcomes = {TRUE}
    MaxSerial = 3
    MaxUncommitted = 1
PROPERTIES
    EveryCommitIsShown
    EveryDestructionEnds
CHECK_DEADLOCK FALSE
