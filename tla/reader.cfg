CONSTANTS
    HeaderLength = 2
    MaxAdu = 2
    MaxFrames = 3
    MaxConns = 2
SPECIFICATION FairSpec
CHECK_DEADLOCK FALSE
INVARIANTS
    WholeFrames
    RoomForOneFrame
PROPERTIES
    FramesInOrder
    AllReturned
