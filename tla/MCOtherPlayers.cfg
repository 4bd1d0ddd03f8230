SPECIFICATION WalkSpec
CONSTANTS
    u1 = u1
    p1 = p1
    p2 = p2
    fA = fA
    NoFile = NoFile
    NoUid = NoUid
    Uids = {u1}
    Ptrs = {p1, p2}
    Systems = {fA}
    Xs <- MCXs
    Ys <- MCYs
    Word = 65536
    TileSize = 8
    Speeds <- MCSpeeds
    FastSpeed = 2
    FastAbove = 1
    TrimAbove = 2
    MaxQueue = 4
    MaxPackets = 3
CHECK_DEADLOCK FALSE
INVARIANT PlayersTypeOK
INVARIANT PlayersHaveTags
INVARIANT LastReportKept
INVARIANT StepEndsOnTile
PROPERTY WalksInOrder
PROPERTY CatchesUp
PROPERTY ComesOnline
