SPECIFICATION FairSpec
CONSTANTS
    Local = {m1}
    Remote = {}
    Alias = {}
    Matches <- MCMatches
    NoModel = NoModel
    Procs = {p1, p2}
    Weights <- MCWeights
    Threads = {t1, t2}
    Ops = {"chat", "load"}
    NoProc = NoProc
    NoThread = NoThread
PROPERTIES
    EveryRequestAnswered
    LoaderSpec
