SPECIFICATION StatusSpec
CONSTANTS
    Sessions = {s1, s2}
    Names = {n1}
    NameOf <- MCOneName
    Threads = {t1, t2}
    NoSession = NoSession
SYMMETRY MCSymmetry
INVARIANTS
    TypeOK
    SavedWorkspaceSurvives
    NoUnexplainedLeak
    StatusExplained
PROPERTIES
    DeletedStaysDeleted
    ShutdownRemovalsHold
