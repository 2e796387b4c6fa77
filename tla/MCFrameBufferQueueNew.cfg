\* The queue of frames to play: RTP's thread offers, AudioSync's polls and resets.
\* The queue of recorded frames: AudioSync's thread offers and resets, two loops poll.
SPECIFICATION QSpec
CHECK_DEADLOCK FALSE
CONSTANTS
    Consumers = {"loop", "oldLoop"}
    Player = "loop"
    MaxFrames = 3
INVARIANTS
    NonNegative
PROPERTIES
    CountDrains
    ImplementsFifo
