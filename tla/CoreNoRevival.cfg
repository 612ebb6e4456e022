SPECIFICATION CronSpec
CONSTANTS
    p1 = p1
    p2 = p2
    p3 = p3
    b1 = b1
    b2 = b2
    b3 = b3
    NoBox = NoBox
    Procs <- TwoProcs
    Ops <- StartsAndRestarts
    Boxes <- TwoBoxes
    MaxSaves = 0
    Garbled = {}
PROPERTY
    CoreComesBack
CHECK_DEADLOCK FALSE
