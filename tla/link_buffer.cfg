SPECIFICATION Spec
CONSTANTS
    Conn = {a, b, d}
    NoConn = NoConn
    Call = {k1}
    QueueLimit = 1
    MaxTimers = 1
    Resets = FALSE
    MaxExits = 1
    MaxEvictions = 0
    Graceful = FALSE
    Kills = FALSE
INVARIANTS
    NoneRefused
CHECK_DEADLOCK FALSE
