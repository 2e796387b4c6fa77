SPECIFICATION DSpec
CHECK_DEADLOCK FALSE
CONSTANTS
    Ips <- MCIps
    NoIp <- MCNoIp
    Peers <- MCPeers
    Contains <- MCContains
INVARIANTS
    SendsBound
    SelfNotListed
    ReceiverCloses
PROPERTIES
    SignalsArrive
    StopEndsReceiver
