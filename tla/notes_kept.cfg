SPECIFICATION Spec
CONSTANTS
    Job = {1}
    Session = {s1}
    Kind <- SerialOnly
    Note = {n1, n2}
    FindLimit = 16
    c1 = c1
    c2 = c2
    Ticks = {t1}
    Caller = {c1, c2}
    Actor <- MCActor
    Ops = {"submit", "note"}
    BatchSize = 100
    ListLimit = 500
    MaxDrains = 1
    MaxCrashes = 0
    Timed = {}
    Overlap = FALSE
INVARIANTS
    NotesKept
CHECK_DEADLOCK FALSE
