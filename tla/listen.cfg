SPECIFICATION MCSpec
CONSTANTS
    NULL = NULL
    Method = {"RECOGNIZE", "STOP"}
    Param = {1, 3}
    MaxRequests = 4
    Dtmf = TRUE
    MediaPrompt = FALSE
    Quiet = FALSE
INVARIANTS SafeAnyhow RecognizedWhenOrderly VerifiedWhenOrderly
PROPERTIES ServedWhenOrderly
CHECK_DEADLOCK FALSE
