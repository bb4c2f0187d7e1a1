SPECIFICATION PointerSpec
CHECK_DEADLOCK FALSE
CONSTANTS
    v1 = v1
    v2 = v2
    Views = {v1, v2}
    Columns = {11, 12, 13}
    Workspaces = {1, 2}
    Outputs = {A}
    Fallback = Fallback
    NIL = NIL
    MinWidth <- OneWide
    Capacity = 2
    May <- MayEach
INVARIANTS
    OperationHoldsTheLiving
