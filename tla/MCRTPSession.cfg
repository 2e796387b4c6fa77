\* The session ends.
SPECIFICATION Spec
CHECK_DEADLOCK FALSE
CONSTANTS
    Writers = {"loop", "oldLoop"}
    MaxSsrc = 2
INVARIANTS
    OwnIsCurrent
    NoSsrcLeftSilently
    KillMeansLostAbort
PROPERTIES
    CallsReturn
