SPECIFICATION Spec
CONSTANTS
    NULL = NULL
    v1 = v1
    v2 = v2
    v3 = v3
    w1 = w1
    w2 = w2
    w3 = w3
    o1 = o1
    o2 = o2
    l1 = l1
    l2 = l2
    app = app
    other = other
    Views = {v1, v2}
    FloatingViews = {v2}
    FullscreenViews = {v1, v2}
    Workspaces = {w1, w2, w3}
    OutputOf <- OnTwoOutputs
    OutputList <- TwoOutputs
    LayerStack <- TwoLayers
    LayerOutput <- LayersOnTwo
    OverlayLayers = {l2}
    TopLayers = {l1}
    Asks <- AllOrExclusive
    Clients = {app, other}
    Lockers = {}
    ClientOf <- TwoClients
    InitialStack <- TwoWorkspaces
INVARIANTS
    FocusInSight
PROPERTIES
    EmptyWorkspacesGo
