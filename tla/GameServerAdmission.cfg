SPECIFICATION Spec
CONSTANTS
    p1 = p1
    p2 = p2
    p3 = p3
    u1 = u1
    u2 = u2
    r1 = r1
    r2 = r2
    r3 = r3
    NoPeer = NoPeer
    NoRequest = NoRequest
    Users <- Users2
    Peers <- Peers3
    UserOf <- UserOf3
    Requests <- Requests3
    Issuer <- Issuer3
    Offers <- OffersAdmission
    MaxActor = 2
    AppCap = 0
    MaxReservations = 0
INVARIANT TypeOK
INVARIANT LeaseHasHolder
INVARIANT UncreatedRoomHasNoMembers
INVARIANT NoMemberAfterDisconnect
INVARIANT MembersDistinct
INVARIANT AnnouncedAreMembers
PROPERTY AdmissionWithinCapacity
CHECK_DEADLOCK FALSE
