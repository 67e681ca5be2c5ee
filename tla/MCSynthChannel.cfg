SPECIFICATION MCSpec
CONSTANTS
    NULL = NULL
    Method = {"SET-PARAMS", "GET-PARAMS", "SPEAK", "STOP", "PAUSE", "RESUME",
              "BARGE-IN-OCCURRED", "CONTROL", "DEFINE-LEXICON"}
    Param = {1, 3}
    MaxRequests = 4
    MaxFrames = 1
    MediaPrompt = FALSE
    Quiet = FALSE
INVARIANTS SafeAnyhow SpokenWhenOrderly
PROPERTIES ServedWhenOrderly
CHECK_DEADLOCK FALSE
