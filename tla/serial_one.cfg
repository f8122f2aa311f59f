SPECIFICATION Spec
CONSTANTS
    Job = {1, 2, 3}
    Session = {s1}
    Kind <- SerialOnly
    Note = {}
    FindLimit = 16
    c1 = c1
    c2 = c2
    Ticks = {t1}
    Caller = {c1}
    Actor <- MCActor
    Ops = {"submit", "cancel"}
    BatchSize = 100
    ListLimit = 500
    MaxDrains = 1
    MaxCrashes = 0
    Timed = {}
    Overlap = FALSE
INVARIANTS
    OneSerialInFlight
CHECK_DEADLOCK FALSE
