SPECIFICATION Spec
CONSTANTS
    Proc = {p}
    NoFile = NoFile
    Stale = Stale
    Supervised = TRUE
    Session = {s1}
    Label = {L1}
    NoLabel = NoLabel
    Req = {}
    Kinds = {}
    MaxRows = 0
    MaxExits = 1
INVARIANTS
    LabelsKept
CHECK_DEADLOCK FALSE
