SPECIFICATION FairSpec
CONSTANTS
    h1 = h1
    h2 = h2
    g1 = g1
    g2 = g2
    c1 = c1
    c2 = c2
    NoHost = nohost
    NoProber = noprober
    Ids <- OneId
    Hosts <- TwoHosts
    Probers <- TwoProbers
    Calls <- TwoCalls
    MaxCalls = 2
    MaxMishaps = 1
INVARIANTS
    TypeOK
    OneProber
    Watched
PROPERTIES
    ChecksEnd
    Follows
CHECK_DEADLOCK FALSE
