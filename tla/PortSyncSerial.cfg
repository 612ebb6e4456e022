SPECIFICATION FairSpec
CONSTANTS
    r1 = r1
    n1 = n1
    m1 = m1
    m2 = m2
    w1 = w1
    w2 = w2
    Local = Local
    Nowhere = Nowhere
    Manual = Manual
    Rules <- OneRule
    Nodes <- OneNode
    Machines <- TwoMachines
    Inactive <- NoneInactive
    Workers <- OneWorker
    TaskIds <- TwoTasks
    InitialRows <- TwoRows
    Events <- SerialEvents
    MaxEvents = 2
INVARIANTS
    TypeOK
    NoLostDrift
PROPERTIES
    ForeignUntouched
    Converges
    QueueDrains
CHECK_DEADLOCK FALSE
