CONSTANTS
    Sessions = {"tcp", "rtu"}
    RtuSessions = {"rtu"}
    Port = "rtu"
    Units = {1, 2}
    Others = {3}
    Points = 2
    Denied <- MCDenied
    Levels = {"on"}
    InitialLevel = "on"
    MaxCommands = 1
    MinDelay = 2
    MaxDelay = 3
SPECIFICATION FairSpec
CHECK_DEADLOCK FALSE
INVARIANTS
    NoTornRead
    ExecutedOnce
    AnsweredOnce
PROPERTIES
    HandlersAreFreed
    Terminates
