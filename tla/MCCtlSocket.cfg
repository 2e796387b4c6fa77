\* The thread ends.
SPECIFICATION CSpec
CHECK_DEADLOCK FALSE
CONSTANT MaxTries = 1
INVARIANTS
    CTypeOK
    ClosedWhenDone
    LateBound
PROPERTIES
    EndReported
    CloseEndsThread
