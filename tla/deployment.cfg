SPECIFICATION FairSpec
CONSTANTS
    Proc = {p}
    NoFile = NoFile
    Stale = Stale
    Supervised = TRUE
    Session = {s1}
    Label = {L1, L2}
    NoLabel = NoLabel
    Req = {r1, r2, r3}
    Kinds = {"post", "spawn", "stream"}
    MaxRows = 2
    MaxExits = 2
INVARIANTS
    TypeOK
    SocketReachesBroker
    PidfileNamesBroker
    AddressedRight
    AnswersAgree
PROPERTIES
    ImplementsSessions
    ShutdownEnds
CHECK_DEADLOCK FALSE
