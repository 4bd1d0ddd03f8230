SPECIFICATION SafeSpec
CONSTANTS
    s1 = s1
    s2 = s2
    m1 = m1
    m2 = m2
    a1 = a1
    a2 = a2
    NoSocket = NoSocket
    NoMap = NoMap
    NoSpot = NoSpot
    Sockets = {s1, s2}
    Maps = {m1, m2}
    Spots = {a1, a2}
    ReconnectInterval = 1
SYMMETRY Symmetry
INVARIANTS
    ConnectionTypeOK
    ConnectedMeansOpen
    OneSession
    RoomAgreement
    Announced
    SyncFollows
