SPECIFICATION FairSpec
CONSTANTS
    Dispatchers = {d1, d2}
    Events = {1, 2, 3}
    BatchSize = 2
    Rejected = {1}
INVARIANT PublishedIsDelivered
PROPERTIES
    PublishedStaysDone
    RelayFair
