SPECIFICATION Spec
CONSTANTS
    k1 = k1
    k2 = k2
    x1 = x1
    x2 = x2
    p1 = p1
    p2 = p2
    NoProc = none
    Keys <- TwoKeys
    Defaults <- OneDefault
    Plugins <- TwoPlugins
    Procs <- TwoProcs
    MaxCalls = 3
    MaxMishaps = 1
    MaxRestarts = 1
INVARIANTS
    TypeOK
    Coherent
    FlagsKept
    OneTransport
CHECK_DEADLOCK FALSE
