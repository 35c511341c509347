SPECIFICATION FairSpec
CONSTANTS
    Sessions = {s1}
    FirstPort = 0
    LastPort = 1
    Socks = {k1, k2, k3, k4}
    Threads = {t1, t2}
    NoSession = NoSession
    NoSock = NoSock
    NoPort = NoPort
INVARIANTS
    TypeOK
    RegisteredIsOpen
    LeakNeedsOverlap
PROPERTIES
    EveryRequestEnds
    ProxiesGetStopped
