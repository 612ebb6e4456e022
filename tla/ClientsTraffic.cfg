SPECIFICATION Spec
CONSTANTS
    c1 = c1
    c2 = c2
    i1 = i1
    i2 = i2
    w1 = w1
    w2 = w2
    Clients <- OneClient
    Inbounds <- OneInbound
    Workers <- TwoWorkers
    Plans <- TwoPlans
    Volume = 1
    MaxTraffic = 2
    MaxEdits = 1
    MaxMishaps = 1
INVARIANTS
    TypeOK
    NeverOvercharged
    NothingLost
    CoreAgrees
CHECK_DEADLOCK FALSE
