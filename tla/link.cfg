SPECIFICATION Spec
CONSTANTS
    Conn = {a, b, d}
    NoConn = NoConn
    Call = {k1, k2}
    QueueLimit = 1
    MaxTimers = 2
    Resets = FALSE
    MaxExits = 1
    MaxEvictions = 0
    Graceful = TRUE
    Kills = TRUE
INVARIANTS
    TypeOK
    ExecutedAtMostOnce
    OutcomeIsTrue
    OneHolder
PROPERTIES
    ImplementsSessions
    CallsKeepPromise
SYMMETRY Symmetry
CHECK_DEADLOCK FALSE
