SPECIFICATION FairSpec
CONSTANTS
    Conn = {a, b, d}
    NoConn = NoConn
    Call = {}
    QueueLimit = 1
    MaxTimers = 3
    Resets = TRUE
    MaxExits = 1
    MaxEvictions = 0
    Graceful = FALSE
    Kills = FALSE
PROPERTIES
    StaysLinked
CHECK_DEADLOCK FALSE
