SPECIFICATION Spec
CONSTANTS
    Proc = {p, q}
    NoFile = NoFile
    Stale = Stale
    Supervised = FALSE
    Session = {s1}
    Label = {L1}
    NoLabel = NoLabel
    Req = {}
    Kinds = {}
    MaxRows = 0
    MaxExits = 1
INVARIANTS
    SocketReachesBroker
CHECK_DEADLOCK FALSE
