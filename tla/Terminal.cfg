SPECIFICATION FairSpec
CONSTANTS
    MaxOut = 2
    MaxIn = 1
INVARIANTS
    TypeOK
    OutputInOrder
PROPERTY
    EndsWithEitherSide
\* The handler and its goroutines end.
CHECK_DEADLOCK FALSE
