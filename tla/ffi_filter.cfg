CONSTANTS
    Apps = {"app"}
    Servers = {"server"}
    Task = "task"
    Units = {"u1"}
    Handlers = {"h1"}
    Points = 2
    Values = {"x"}
    Texts <- MCTexts
    Peers <- MCPeers
    Kinds = {"tcp", "rtu", "tls", "authz"}
    Allowed = {"read"}
    Capacity = 1
    MaxInner = 1
    Requests = {"r"}
    MaxQueued = 1
SPECIFICATION Spec
CHECK_DEADLOCK FALSE
INVARIANTS
    FilterLimits
