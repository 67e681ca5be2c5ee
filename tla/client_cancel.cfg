SPECIFICATION Spec
CONSTANTS
    Channels = {synthesizer, recognizer}
    NULL = NULL
    MaxRequests = 3
INVARIANT CancelsAll
CHECK_DEADLOCK FALSE
