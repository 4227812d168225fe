CONSTANTS
    r1 = r1
    r2 = r2
    r3 = r3
    Requests <- MCRequests
    NoRequest = NoRequest
    Invalid = {}
    Unformattable = {}
    Function <- MCFunction
    Quantity <- MCQuantity
    Capacity = 1
    MaxBacklog = 2
    TxMod = 2
    Mbap = TRUE
SPECIFICATION LoopSpec
SYMMETRY MCSymmetry
CHECK_DEADLOCK FALSE
INVARIANTS
    LoopTypeOK
    PendingOwned
    RunsOnlyEnabled
    OwnAnswer
    OneTransaction
PROPERTIES
    ServiceSpec
