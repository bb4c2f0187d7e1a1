SPECIFICATION Spec
CHECK_DEADLOCK FALSE
CONSTANTS
    v1 = v1
    v2 = v2
    v3 = v3
    A = A
    B = B
    Views = {v1, v2}
    Columns = {11, 12, 13}
    Workspaces = {1, 2, 3}
    Outputs = {A, B}
    Fallback = Fallback
    NIL = NIL
    MinWidth <- OneWide
    Capacity = 1
    May <- MayMinimize
SYMMETRY Interchangeable
CONSTRAINT FewPriorities
INVARIANTS
    NoWindowLost
