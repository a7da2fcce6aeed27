SPECIFICATION FairSpec
CONSTANTS
    short = short
    long = long
    Messages <- Messages2
    Byte <- Bits
    Serialize <- Serialize2
    HeaderSize = 2
    MaxSize = 3
    Htonl <- BigEndian
    Capacity = 3
    MaxSent = 4
INVARIANT StreamWhole
PROPERTY ImplementsQueue
PROPERTY WrittenIsDelivered
CHECK_DEADLOCK FALSE
