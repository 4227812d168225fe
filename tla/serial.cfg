CONSTANTS
    r1 = r1
    r2 = r2
    r3 = r3
    Requests <- MCRequests
    NoRequest = NoRequest
    Invalid = {r3}
    Unformattable = {}
    Function <- MCFunction
    Quantity <- MCQuantity
    Capacity = 1
    MaxBacklog = 2
    TxMod = 2
    Mbap = FALSE
    MinDelay = 2
    MaxDelay = 3
SPECIFICATION FairSpec
CHECK_DEADLOCK FALSE
INVARIANTS
    MixupNeedsFailure
PROPERTIES
    LoopSpec
    PortStateOrder
    Finishes
