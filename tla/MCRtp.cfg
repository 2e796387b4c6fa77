\* The process may end, and nobody has to bind again.
SPECIFICATION Spec
CHECK_DEADLOCK FALSE
CONSTANTS
    MaxServices = 2
    MaxLoops = 2
    Peers <- MCPeers
INVARIANTS
    PollThreadSafe
    PlaysOwnFrames
    SpeechReachesPeer
