SPECIFICATION FairHttpSpec
CONSTANTS
    Job = {1}
    Session = {s1}
    Kind <- SerialOnly
    Note = {n1}
    FindLimit = 16
    c1 = c1
    c2 = c2
    Ticks = {t1}
    Caller = {c1, c2}
    Actor <- MCActor
    Ops = {"submit", "complete", "comment", "cancel"}
    BatchSize = 1
    ListLimit = 500
    MaxDrains = 1
    MaxCrashes = 1
    Timed = {1}
    Overlap = FALSE
    Waiting = {w1}
    Watching = {v1}
INVARIANTS
    HttpTypeOK
    NoneMissed
    AnswerIsFinal
PROPERTIES
    WaiterIsTold
CHECK_DEADLOCK FALSE
