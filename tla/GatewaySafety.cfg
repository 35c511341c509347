SPECIFICATION Spec
CONSTANTS
    Local = {m1, m2}
    Remote = {}
    Alias = {}
    Matches <- MCMatches
    NoModel = NoModel
    Procs = {p1, p2}
    Weights <- MCWeights
    Threads = {t1, t2}
    Ops = {"chat", "load", "unload", "delete"}
    NoProc = NoProc
    NoThread = NoThread
SYMMETRY MCSymmetry
VIEW MCSafetyView
INVARIANTS
    TypeOK
    OnlyHolderStarts
    LoaderOwnsPointer
    ActiveStatusAgree
    FailedStartNotPublished
    LazyNeverReloadsReady
