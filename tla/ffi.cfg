CONSTANTS
    Apps = {"app"}
    Servers = {"server"}
    Task = "task"
    Units = {"u1"}
    Handlers = {"h1"}
    Points = 2
    Values = {"x"}
    Texts = {}
    Peers <- OnePeer
    Kinds = {"tcp", "rtu", "authz"}
    Allowed = {"read"}
    Capacity = 1
    MaxInner = 1
    Requests = {"r"}
    MaxQueued = 1
SPECIFICATION FairSpec
CHECK_DEADLOCK FALSE
INVARIANTS
    ReadsCommitted
    CalledBackOnce
PROPERTIES
    CallsReturn
