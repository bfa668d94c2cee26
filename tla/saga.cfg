\* One order of two lines, and one fault anywhere.
CONSTANTS
    o1 = o1
    p1 = p1
    c1 = c1
    c2 = c2
    PaymentCallers = {c1, c2}
    Orders = {o1}
    Products = {p1}
    Items <- MCItems
    Total <- MCTotal
    NoOrder = NoOrder
    NoPayment = NoPayment
    NoKey = NoKey
    None = None
    MaxFaults = 1
CHECK_DEADLOCK FALSE
CONSTRAINTS
    NothingLost
    CopiesMatter
    ClientsDisagree
    OneTrouble
ACTION_CONSTRAINT LocalFirst
SPECIFICATION FairSpec
INVARIANT ConfirmedHoldsStock
PROPERTIES
    OrderSettles
    CancelledGivesBack
