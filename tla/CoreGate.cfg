SPECIFICATION FairSpec
CONSTANTS
    p1 = p1
    p2 = p2
    p3 = p3
    b1 = b1
    b2 = b2
    b3 = b3
    NoBox = NoBox
    Procs <- TwoProcs
    Ops <- AllOps
    Boxes <- TwoBoxes
    MaxSaves = 2
    Garbled <- OneGarbled
INVARIANTS
    TypeOK
    SingleStarter
    CooldownHonoured
    HotReloaded
PROPERTIES
    ImplementsGate
    FlagComesDown
CHECK_DEADLOCK FALSE
