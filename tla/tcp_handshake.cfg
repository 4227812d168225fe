CONSTANTS
    r1 = r1
    r2 = r2
    Requests <- MCRequests
    NoRequest = NoRequest
    Invalid = {}
    Unformattable = {}
    Function <- MCFunction
    Quantity <- MCQuantity
    Capacity = 1
    MaxBacklog = 2
    TxMod = 4
    Mbap = TRUE
    Tls = TRUE
    MinDelay = 2
    MaxDelay = 2
    MaxFailures = 2
SPECIFICATION FairSpec
CHECK_DEADLOCK FALSE
PROPERTIES
    FailsWhileConnecting
