SPECIFICATION RoomsSpec
CONSTANTS
    u1 = u1
    u2 = u2
    p1 = p1
    p2 = p2
    r1 = r1
    r2 = r2
    Lobby = Lobby
    NoFile = NoFile
    NoUid = NoUid
    Uids = {u1, u2}
    Ptrs = {p1, p2}
    RoomIds = {r1, r2}
    Systems = {}
    Xs <- Origin
    Ys <- Origin
    Word = 65536
    TileSize = 8
    Speeds <- OneSpeed
    FastSpeed = 2
    FastAbove = 1
    TrimAbove = 2
    MaxQueue = 1
    MaxPackets = 0
    MaxInFlight = 4
SYMMETRY Symmetry
CHECK_DEADLOCK FALSE
INVARIANT MissingIsOnItsWay
INVARIANT SameRoom
