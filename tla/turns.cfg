SPECIFICATION FairSpec
CONSTANTS
    Job = {1, 2}
    Session = {s1}
    Kind <- SerialOnly
    Note = {}
    FindLimit = 16
    c1 = c1
    c2 = c2
    Ticks = {t1}
    Caller = {c1}
    Actor <- MCActor
    Ops = {"submit", "ack", "cancel"}
    BatchSize = 1
    ListLimit = 500
    MaxDrains = 1
    MaxCrashes = 1
    Timed = {1, 2}
    Overlap = FALSE
INVARIANTS
    BusyMeansInFlight
    HeldByWrittenJob
    SentAtMostOnce
    NoLostWakeup
    OneAtATime
PROPERTIES
    EventuallyTerminal
    SerialInOrder
CHECK_DEADLOCK FALSE
