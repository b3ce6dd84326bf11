SPECIFICATION FairSpec
CONSTANTS
    MaxFrameSize = 3
    Overhead = 1
    MaxConns = 2
    MaxCalls = 2
    MaxFaults = 2
    None = None
CHECK_DEADLOCK FALSE
INVARIANTS AnswerIsTrue TaggedIsTrue AtMostOnce FitsGetsThrough
PROPERTIES SendReturns StopReturns
