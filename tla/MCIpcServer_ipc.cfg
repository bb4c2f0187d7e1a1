SPECIFICATION FairSpec
CHECK_DEADLOCK FALSE
CONSTANTS
    a = a
    b = b
    Clients = {a, b}
    NIL = NIL
    Sends <- SendsOfTwo
    Subscribes <- SubscribesOfTwo
    Quitters = {a}
    Capacity = 1
    InitialSize = 3
    MaxSize = 6
    MaxCommands = 2
    MaxNews = 2
PROPERTIES
    ServesInOrder
    EveryListenerTold
    EveryCommandAnswered
