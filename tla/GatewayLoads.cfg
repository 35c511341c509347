SPECIFICATION Spec
CONSTANTS
    Local = {m1, m2}
    Remote = {r1}
    Alias = {short}
    Matches <- MCMatches
    NoModel = NoModel
    Procs = {p1, p2}
    Weights <- MCWeights
    Threads = {t1, t2}
    Ops = {"chat", "load"}
    NoProc = NoProc
    NoThread = NoThread
SYMMETRY MCSymmetry
VIEW MCSafetyView
INVARIANTS
    LoadingHasLoader
    PublishedNotStopped
PROPERTY
    HolderNeverPanics
