SPECIFICATION Spec
CONSTANTS
    Sessions = {s1, s2}
    NoSession = NoSession
    Names = {s1, s2}
    NameOf <- MCOwnNames
    Handlers = {h1}
    Routes = {"create"}
    FirstPort = 0
    LastPort = 1
    NoPort = NoPort
    Socks = {k1, k2, k3}
    NoSock = NoSock
    WebHandlers = {w1}
    Addresses = {a1, a2}
    NoAddress = NoAddress
SYMMETRY MCSymmetry
INVARIANT
    ForwardsToOwnUnlessOutlived
