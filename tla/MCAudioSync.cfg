\* Two presses, over two visits of CallActivity.
SPECIFICATION Spec
CHECK_DEADLOCK FALSE
CONSTANTS
    MaxVisits = 2
    MaxPresses = 2
    MaxQueue = 1
INVARIANTS
    SettledDevices
    ReleasedWhenDone
    SendBound
PROPERTIES
    ThreadsEnd
