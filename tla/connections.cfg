SPECIFICATION MCSpec
CONSTANTS
    Channels = {"ch1", "ch2", "ch3"}
    Connections = {"c1", "c2"}
    Ips = {ip1, ip2}
    Pending = Pending
    NULL = NULL
INVARIANTS ConnectionsSound AnsweredOnce
PROPERTIES ServerFrees RequestAnswered
CHECK_DEADLOCK FALSE
