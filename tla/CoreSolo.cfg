SPECIFICATION CronSpec
CONSTANTS
    p1 = p1
    p2 = p2
    p3 = p3
    b1 = b1
    b2 = b2
    b3 = b3
    NoBox = NoBox
    Procs <- OneProc
    Ops <- AllOps
    Boxes <- TwoBoxes
    MaxSaves = 1
    Garbled <- OneGarbled
INVARIANTS
    QuietConsistent
PROPERTIES
    CoreComesBack
CHECK_DEADLOCK FALSE
