SPECIFICATION Spec
CONSTANTS
    Calls = {c1, c2, c3, c4}
    MaxTraceBuffer = 2
SYMMETRY MCSymmetry
INVARIANTS
    TypeOK
    BufferIsNewest
    ReportedOnce
    OwnEventExplained
