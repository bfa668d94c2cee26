\* Three attempts with any of ten bodies, as many identifiers.
CONSTANTS
    Attempts = {a1, a2, a3}
    Bodies <- MCBodies
    OrderIDs = {o1, o2, o3}
    NoOrder = NoOrder
    NoPayment = NoPayment
    NoKey = NoKey
    None = None
    Padded <- MCPadded
    Upper <- MCUpper
    MaxInt64 = 31
CHECK_DEADLOCK FALSE
SYMMETRY MCSymmetry
SPECIFICATION Spec
INVARIANTS
    CheckoutConverges
    AnswerTellsTruth
    ChargedAsAsked
