SPECIFICATION Spec
CONSTANTS
    r1 = r1
    n1 = n1
    m1 = m1
    m2 = m2
    w1 = w1
    w2 = w2
    Local = Local
    Nowhere = Nowhere
    Manual = Manual
    Rules <- OneRule
    Nodes <- NoNodes
    Machines <- JustLocal
    Inactive <- NoneInactive
    Workers <- TwoWorkers
    TaskIds <- TwoTasks
    InitialRows <- MixedRows
    Events <- SavesOnly
    MaxEvents = 1
PROPERTIES
    ForeignUntouched
CHECK_DEADLOCK FALSE
