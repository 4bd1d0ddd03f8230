SPECIFICATION MapSpec
CONSTANTS
    Maps = {"m1", "m2"}
    Width = 5
    Ground <- Shore
    Ships = {"ship", "boat"}
    Airship = "airship"
    None = "none"
    Start <- TwoShips
    Music <- TwoTunes
    OnFoot = 4
    VehicleSpeed = 5
    StepTime = 2
    Lift = 2
    Events <- Walkers
    Row = 4
    Standing <- SideBySide
    RoutePages <- PushingRoutes
    Forced <- OneForced
    NoCondition = "always"
    RouteSwitches = {"a"}
    Tile = 2
    MoveAmount = 1
    JumpAmount = 2
    StepRest = 1
    WaitRest = 1
    StopBound = 2
CHECK_DEADLOCK FALSE
INVARIANT CharactersInv
INVARIANT VehiclesInv
PROPERTY OneStepPerFrame
