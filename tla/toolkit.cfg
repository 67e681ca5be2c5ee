SPECIFICATION MCSpec
CONSTANTS
    Object = {o1, o2}
    NoObject = NoObject
    Garbage = Garbage
    InitialSize = 2
    MaxPushed = 5
    Timers = {"t1", "t2", "t3"}
    Timeouts = {1, 3}
    RescheduleAt = 5
    Word = 64
    MaxDelay = 1
    MaxTime = 7
    NULL = NULL
    Tasks = {"server", "media", "agent"}
    Root = "server"
    Main = "main"
    Kids <- ServerKids
    Engines = {"recog", "synth"}
    Capacity = 6
    WaitStarted = TRUE
    MaxStarts = 2
    MaxWork = 1
INVARIANTS   ParsedAsSent
PROPERTIES RefinesFifo NoHang
CHECK_DEADLOCK FALSE
