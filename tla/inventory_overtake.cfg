SPECIFICATION Spec
CONSTANTS
    p1 = p1
    p2 = p2
    a = a
    b = b
    Products <- MCProducts
    Orders <- MCOrders
    Items <- MCItems
    Total <- MCTotal
    MaxFaults = 1
CONSTRAINT RowsBounded
INVARIANT CancelReleasesStock
