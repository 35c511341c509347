SPECIFICATION Spec
CONSTANTS
    Sessions = {s1, s2}
    Names = {n1}
    NameOf <- MCOneName
    Threads = {t1}
    NoSession = NoSession
SYMMETRY MCSymmetry
PROPERTY
    CreateRemovesOnlyFailed
