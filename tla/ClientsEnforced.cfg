SPECIFICATION FairSpec
CONSTANTS
    c1 = c1
    c2 = c2
    i1 = i1
    i2 = i2
    w1 = w1
    w2 = w2
    Clients <- OneClient
    Inbounds <- TwoInbounds
    Workers <- OneWorker
    Plans <- AllPlans
    Volume = 1
    MaxTraffic = 2
    MaxEdits = 1
    MaxMishaps = 1
INVARIANT
    CoreAgrees
PROPERTY
    Enforced
CHECK_DEADLOCK FALSE
