SPECIFICATION Spec
CONSTANTS
    p1 = p1
    p2 = p2
    p3 = p3
    u1 = u1
    u2 = u2
    r1 = r1
    r2 = r2
    r3 = r3
    NoPeer = NoPeer
    NoRequest = NoRequest
    Users <- Users2
    Peers <- Peers2
    UserOf <- UserOf2
    Requests <- Requests2
    Issuer <- Issuer12
    Offers <- OffersReservations
    MaxActor = 3
    AppCap = 2
    MaxReservations = 2
PROPERTY AbortEndsOwnReservations
CHECK_DEADLOCK FALSE
