SPECIFICATION FairSpec
CONSTANTS
    g1 = g1
    g2 = g2
    x = x
    l1 = l1
    l2 = l2
    c1 = c1
    NoGame = NoGame
    NoId = NoId
    NoLobby = NoLobby
    Clients <- Clients1
    Games <- Games2
    Ids <- Ids1
    Lobbies <- Lobbies2
    MaxGameCount = 0
    MaxPending = 3
    MaxQueue = 3
INVARIANT RegistryExact
INVARIANT RoomListSound
INVARIANT RoomListComplete
PROPERTY DeletedRoomVanishes
CHECK_DEADLOCK FALSE
