SPECIFICATION BattleSpec
CONSTANTS
    Actors = {"hero", "mage", "thief"}
    Troop <- SlimeAndBat
    Inflicted = {"provoked", "confused", "asleep"}
    MaxSp = 1
    MaxItems = 1
    Parties <- OneOrTwo
    Autos = {"mage"}
    ActorKinds = {"attack", "skill", "item"}
    EnemyKinds = {"attack", "explode"}
    Hits = 1
    Pages <- TurnAndDead
    Commands = {"kill", "cure", "show", "flee", "inflict", "remove", "add", "terminate", "forceflee"}
    PageLength = 1
    Timers = TRUE
    MaxTurns = 1
    Ids <- TwoIds
    Files = {f1, f2}
    NoName = ""
    NoFile = "none"
    PictureNames = {f1, f2, ""}
    Sheets = {"still", "wrong", "loop", "once"}
    PictureBudget = 3
SYMMETRY FileSymmetry
CHECK_DEADLOCK FALSE
INVARIANT BattleInv
INVARIANT PicturesInv
