SPECIFICATION Spec
CONSTANTS
    FrameTs = 2
    FrameCount = 6
    Delay = 4
    Adaptive = FALSE
    Skew = FALSE
    Measures = 2
    Word = 256
    TsBase = 253
    Times = {0, 2, 4, 6, 8, 10}
    Sizes = {1, 2}
    Ahead = 12
    Behind = 4
    EventStream = {}
    MaxRead = 12
    MaxRestarts = 0
    NULL = NULL
INVARIANT WithinBuffer
CHECK_DEADLOCK FALSE
