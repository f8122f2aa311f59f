SPECIFICATION HttpSpec
CONSTANTS
    Job = {1}
    Session = {s1}
    Kind <- BothModes
    Note = {n1}
    FindLimit = 16
    c1 = c1
    c2 = c2
    Ticks = {t1, t2}
    Caller = {c1}
    Actor <- MCActor
    Ops = {"submit", "cancel", "note"}
    BatchSize = 100
    ListLimit = 500
    MaxDrains = 1
    MaxCrashes = 0
    Timed = {1}
    Overlap = TRUE
    Waiting = {}
    Watching = {}
SYMMETRY Symmetry
INVARIANTS
    TypeOK
    TerminalAnnouncedOnce
    NoLostWakeup
    NotesKept
PROPERTIES
    LifecycleSpec
    CancelAfterDispatch
CHECK_DEADLOCK FALSE
