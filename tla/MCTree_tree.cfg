SPECIFICATION Spec
CHECK_DEADLOCK FALSE
CONSTANTS
    v1 = v1
    v2 = v2
    v3 = v3
    A = A
    B = B
    Views = {v1, v2, v3}
    Columns = {11, 12, 13, 14}
    Workspaces = {1, 2}
    Outputs = {A}
    Fallback = Fallback
    NIL = NIL
    MinWidth <- OneWide
    Capacity = 2
    May <- MayAll
SYMMETRY Alike
VIEW ButPriorities
INVARIANTS
    Linked
    Pooled
    FullscreenAgrees
