SPECIFICATION FairSpec
CONSTANTS
    Resources = {synthesizer}
    NULL = NULL
    MaxRequests = 3
    MaxEvents = 1
    Methods <- SomeMethods
INVARIANTS AnsweredOnceByItsOwn InProgressIsWatched SessionsEndOnce
PROPERTIES ServedWhenOrderly ServerCleared
CHECK_DEADLOCK FALSE
