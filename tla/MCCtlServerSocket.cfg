\* The two threads and two clients, the second of which may come after close().
SPECIFICATION Spec
CHECK_DEADLOCK FALSE
CONSTANT MaxConns = 2
INVARIANTS
    ServesUntilClosed
    NoOrphan
PROPERTIES
    CloseWorks
