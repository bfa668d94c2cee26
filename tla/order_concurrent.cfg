SPECIFICATION Spec
CONSTANTS
    Callers = {c1, c2}
    OrderIDs = {o1, o2}
    Keys = {k1}
    Requests = {r1, r2}
    NoKey = NoKey
    NoOrder = NoOrder
    None = None
SYMMETRY Symmetry
INVARIANTS
    TypeOK
    CancelledHasEvent
    AnsweredCancelHasEvent
    OutboxConsistent
    KeyNamesOneOrder
    CreateAnswersHold
PROPERTY OrderIdentityKept
