CONSTANTS
    Starts = {0, 65534, 65535}
    BitCounts = {0, 1, 2, 8, 9, 1976, 1977, 2000, 2001, 2008, 2009, 2041}
    RegisterCounts = {0, 1, 2, 3, 123, 124, 125, 126, 127, 128}
    Value <- MCValue
    Point <- MCPoint
    Refusals <- MCRefusals
    Answers <- MCAnswers
    Bodies <- MCBodies
SPECIFICATION ExchangeSpec
CHECK_DEADLOCK FALSE
INVARIANTS
    ReadsAreExact
    WritesAreExact
    FormattedIsServed
    HandlerSurvives
