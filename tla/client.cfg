SPECIFICATION MCSpec
CONSTANTS
    Channels = {synthesizer, recognizer}
    NULL = NULL
    MaxRequests = 4
INVARIANTS Answered Settled
PROPERTIES RecognizedSoundly CallsReturn
CHECK_DEADLOCK FALSE
