\* All packets are sent.
SPECIFICATION SSpec
CHECK_DEADLOCK FALSE
CONSTANTS
    Wrap = 10
    Firsts = {0, 1, 8}
    MaxDelay = 2
    MaxPackets = 13
    MaxRound = 4
    MaxCycles = 3
INVARIANTS
    RoundPlays
    CountedRight
