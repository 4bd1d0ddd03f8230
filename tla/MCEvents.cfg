SPECIFICATION GamesSpec
CONSTANTS
    Code <- EventLists
    MaxIndent = 2
    CommonEvents <- Commons
    MapEvents <- TwoEvents
    Pages <- GamePages
    Always = "always"
    Switches <- EventSwitches
    Shared <- ByPacket
    NoEvent = "none"
    Foreground = "foreground"
    LoopLimit = 5
    CallStackLimit = 2
CHECK_DEADLOCK FALSE
INVARIANT EventsInv
PROPERTY EventsInOrder
