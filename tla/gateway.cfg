SPECIFICATION FairCancelSpec
CONSTANTS
    r1 = r1
    r2 = r2
    r3 = r3
    other = other
    bare = bare
    k = k
    Requests <- MCRequests
    Keys = {k}
    NoHeader = NoHeader
    KeyOf <- MCKeyOf
    PrintOf <- MCPrintOf
    NoRecord = NoRecord
CHECK_DEADLOCK FALSE
INVARIANTS
    SingleFlight
    OneResultPerKey
    ErrorIsRetried
PROPERTY WaiterIsAnswered
