CONSTANTS
    HeaderLength = 2
    MaxAdu = 2
    MaxFrames = 3
    MaxConns = 1
SPECIFICATION Spec
CHECK_DEADLOCK FALSE
INVARIANTS
    ShiftsAtCapacity
