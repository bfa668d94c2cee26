SPECIFICATION Spec
CONSTANTS
    Callers = {c1, c2}
    OrderIDs = {o1}
    Keys = {k1}
    Requests = {r1}
    NoKey = NoKey
    NoOrder = NoOrder
    None = None
INVARIANT PaymentFailedCancels
