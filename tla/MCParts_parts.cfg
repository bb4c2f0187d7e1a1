SPECIFICATION Spec
CHECK_DEADLOCK FALSE
CONSTANTS
    NIL = NIL
    Root = Root
    p1 = p1
    p2 = p2
    c1 = c1
    c2 = c2
    v1 = v1
    v2 = v2
    n1 = n1
    o1 = o1
    o2 = o2
INVARIANTS
    ContextsOwned
    BarServes
    TrayAgrees
    KeysAgree
    ImeServesTheFocused
    OutputsAsConfigured
    KeyboardsPlaced
    WindowsServed
    RequestsTold
    RowServesAll
    CursorLetsGo
    PointerIsWhereTheKeysAre
    GesturesEnd
    RulesObeyed
