\* Two attempts, which may overlap.
SPECIFICATION Spec
CHECK_DEADLOCK FALSE
CONSTANTS
    MaxTries = 2
    Times = 2
INVARIANTS
    ResultBound
    FailedIsOff
PROPERTIES
    AttemptEnds
