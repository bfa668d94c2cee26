SPECIFICATION FairSpec
CONSTANTS
    Orders = {o1}
    Callers = {c1, c2, c3}
    NoPayment = NoPayment
    MaxFaults = 2
INVARIANTS
    CreatedIsStored
    AnnouncedIsClosed
PROPERTIES
    ReservedIsAnswered
    CaptureIsAnnounced
