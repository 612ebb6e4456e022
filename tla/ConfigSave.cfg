SPECIFICATION FairSpec
CONSTANTS
    i1 = i1
    p1 = p1
    r1 = r1
    r2 = r2
    Tls = tls
    Clients = clients
    Base = base
    NoRequest = nobody
    Inbounds <- OneInbound
    Plain <- OnePlain
    TlsUsers <- Both
    ClientInbounds <- OneInbound
    Saved <- AllObjects
    Requests <- TwoRequests
    MaxSaves = 3
    MaxMishaps = 1
    MaxRestarts = 1
INVARIANTS
    TypeOK
    Agrees
PROPERTY
    CatchesUp
CHECK_DEADLOCK FALSE
