SPECIFICATION FairSpec
CONSTANTS
    p1 = p1
    p2 = p2
    a = a
    b = b
    Products <- MCProducts
    Orders <- MCOrders
    Items <- MCItems
    Total <- MCTotal
    MaxFaults = 1
CONSTRAINT RowsBounded
INVARIANTS
    StockConserved
    LedgerConsistent
    AllOrNothing
    CancelInOrderReleases
PROPERTIES
    CreatedIsAnswered
    CancelEventuallyReleases
