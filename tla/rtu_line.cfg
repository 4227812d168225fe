CONSTANTS
    MaxAdu = 8
    Extras = {1, 3}
    Strays = {1, 8}
    MaxFrames = 3
    MaxFaults = 1
SPECIFICATION FairSpec
CHECK_DEADLOCK FALSE
INVARIANTS
    EachFrameOnce
    PeeksInside
PROPERTIES
    InSyncReturns
