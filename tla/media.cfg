SPECIFICATION MCSpec
CONSTANTS
    FrameTs = 2
    FrameCount = 5
    Delay = 2
    Adaptive = TRUE
    Skew = FALSE
    Measures = 3
    Word = 256
    TsBase = 253
    Times = {0, 2, 3, 4, 6, 8}
    Sizes = {1, 2}
    Ahead = 2
    Behind = 4
    EventStream = {}
    MaxRead = 10
    MaxRestarts = 1
    NULL = NULL
INVARIANTS ContextSound FramesInPlace
PROPERTIES PlayedInOrder SentInOrder ReceivedSoundly DetectedExactly
CHECK_DEADLOCK FALSE
