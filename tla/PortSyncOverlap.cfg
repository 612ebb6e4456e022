SPECIFICATION Spec
CONSTANTS
    r1 = r1
    n1 = n1
    m1 = m1
    m2 = m2
    w1 = w1
    w2 = w2
    Local = Local
    Nowhere = Nowhere
    Manual = Manual
    Rules <- OneRule
    Nodes <- OneNode
    Machines <- ThreeMachines
    Inactive <- OneInactive
    Workers <- TwoWorkers
    TaskIds <- TwoTasks
    InitialRows <- ShortRows
    Events <- AllEvents
    MaxEvents = 1
SYMMETRY WorkersAlike
INVARIANTS
    NoLostDrift
CHECK_DEADLOCK FALSE
