CONSTANTS
    MaxSessions = 2
    Tls = TRUE
    Levels = {"off", "on"}
    InitialLevel = "off"
    CommandCapacity = 1
    CloseCapacity = 1
    MaxSettings = 1
    MaxIds = 3
SPECIFICATION FairSpec
CHECK_DEADLOCK FALSE
INVARIANTS
    SettingsReach
PROPERTIES
    EvictsOldest
    ForgottenEnds
    ReturnsToSelect
    DropStops
