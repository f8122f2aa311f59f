SPECIFICATION FairSpec
CONSTANTS
    Conn = {a, b, d}
    NoConn = NoConn
    Call = {}
    QueueLimit = 1
    MaxTimers = 2
    Resets = TRUE
    MaxExits = 2
    MaxEvictions = 1
    Graceful = FALSE
    Kills = FALSE
PROPERTIES
    ImplementsSessions
    SettlesWithOneTimer
CHECK_DEADLOCK FALSE
