SPECIFICATION RoomSpec
CONSTANTS
    MaxActor = 4
    AllowChangeMaster = TRUE
INVARIANT RoomTypeOK
INVARIANT MasterKnown
PROPERTY MasterSucceeds
CHECK_DEADLOCK FALSE
