SPECIFICATION MCSpec
CONSTANTS
    NULL = NULL
    Method = {"SET-PARAMS", "GET-PARAMS", "RECORD", "STOP", "START-INPUT-TIMERS"}
    Param = {1, 2}
    MaxRequests = 3
    TimeCap = 2
    MediaPrompt = FALSE
INVARIANTS ResponsesInOrder StopFindsRecord OneRecordingAtATime KeptUntilOvertaken
PROPERTIES ServedWhenPrompt BoundedWhenPrompt
CHECK_DEADLOCK FALSE
