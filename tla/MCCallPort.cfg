SPECIFICATION Spec
CHECK_DEADLOCK FALSE
CONSTANTS
    Callers = {"A"}
    MaxCalls = 1
    MaxInputs = 0
INVARIANT
    AdvertisedIsListening
