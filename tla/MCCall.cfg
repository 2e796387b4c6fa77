SPECIFICATION Spec
CHECK_DEADLOCK FALSE
CONSTANTS
    Callers = {"A", "B"}
    MaxCalls = 1
    MaxInputs = 2
INVARIANTS
    FloorFollowsPeer
    LiveLinkOnlyInCall
    ListensUnlessCalling
PROPERTIES
    HangUpReachesPeer
