SPECIFICATION FairSpec
CONSTANTS
    c1 = c1
    c2 = c2
    Parent = Parent
    Children <- Children2
    Owner = c1
    NoGame = NoGame
    MaxRevision = 6
    MaxCount = 2
    MaxQueue = 2
INVARIANT MirrorCurrent
INVARIANT PropertiesForwarded
INVARIANT OwnRoomNotExternal
PROPERTY DeletedEverywhere
CHECK_DEADLOCK FALSE
