SPECIFICATION EventsSpec
CONSTANTS
    Code <- MCCode
    MaxIndent = 1
    CommonEvents <- MCCommon
    MapEvents <- MCEvents
    Pages <- MCPages
    Always = "always"
    Switches = {"a", "b"}
    Shared = {"a"}
    NoEvent = "none"
    Foreground = "foreground"
    LoopLimit = 5
    CallStackLimit = 2
CHECK_DEADLOCK FALSE
INVARIANT AnswerFindsAFrame
