CONSTANTS
    r1 = r1
    r2 = r2
    Requests <- MCRequests
    NoRequest = NoRequest
    Invalid = {}
    Unformattable = {r2}
    Function <- MCFunction
    Quantity <- MCQuantity
    Capacity = 1
    MaxBacklog = 2
    TxMod = 2
    Mbap = TRUE
    Tls = TRUE
    MinDelay = 2
    MaxDelay = 7
    MaxFailures = 4
SPECIFICATION FairSpec
CHECK_DEADLOCK FALSE
INVARIANTS
    Backoff
PROPERTIES
    LoopSpec
    ClientStateOrder
    Completes
    Terminates
    KeepsTrying
