SPECIFICATION Spec
CONSTANTS
    Local = {m1, m2}
    Remote = {}
    Alias = {}
    Matches <- MCMatches
    NoModel = NoModel
    Procs = {p1, p2}
    Weights <- MCWeights
    Threads = {t1}
    Ops = {"chat"}
    NoProc = NoProc
    NoThread = NoThread
SYMMETRY MCSymmetry
VIEW MCView
PROPERTY
    ChatFindsItsModel
