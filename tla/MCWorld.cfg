SPECIFICATION WorldSpec
CONSTANTS
    Files = {"f1", "f2", "f3"}
    Embedded = {"f3"}
    Owners = {"o1", "o2"}
    GraphicOwners = {"o1"}
    ImportantOwners = {"o2"}
    NoFile = "none"
    NoOwner = "nobody"
    Expired = "expired"
    SelfAsks = TRUE
    MaxListeners = 2
    MaxDepth = 2
    Clients = {"c1", "c2"}
    Writers = {"c1"}
    Switches = {1, 2, 3}
    Whitelist <- Whitelists
    Ranges <- FirstTwo
    Weathers = {"fair", "rain"}
    Fair = "fair"
    NoWeather = "none"
    SyncNpc = TRUE
    Spots = {"a", "b"}
    Start = "a"
    Delay = 1
    MaxPackets = 2
    Half = 8
    MinValue <- Keeping
    MaxValue = 3
    MaxId = 3
    Operands <- Numbers
    Dice <- TwoDice
INVARIANT FilesInv
INVARIANT SharedInv
INVARIANT VariablesInv
