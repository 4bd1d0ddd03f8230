SPECIFICATION ScreenSpec
CONSTANTS
    Outcomes <- AllOutcomes
    SceneBudget = 5
    StartDelay = 1
    TitleDelay = 1
    Songs = {"s1", "s2"}
    Missing = {"missing"}
    Links = {"link"}
    Broken = {"broken"}
    Off = "off"
    Volumes = {32, 64}
    FadeIns = {0}
    FadeTime = 2
    Budget = 4
    Actors = {"hero"}
    Troop <- SlimeAndBat
    Inflicted = {"asleep"}
    MaxSp = 1
    MaxItems = 1
    FirstParty <- HeroAlone
    ActorKinds = {"attack", "escape"}
    EnemyKinds = {"attack"}
    Hits = 2
    ActiveAtb = TRUE
    AutoAllowed = FALSE
    Pages <- BeforeAndAfter
    Commands = {"kill", "show"}
    PageLength = 1
    Timers = FALSE
    MaxTurns = 2
CHECK_DEADLOCK FALSE
INVARIANT ScenesInv
INVARIANT GaugedInv
INVARIANT MusicInv
INVARIANT AtbInv
