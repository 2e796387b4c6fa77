SPECIFICATION Spec
CONSTANTS
    Peers = {"p"}
    Hosts = {"h1", "h2"}
    Ssrcs = {1, 2, 3}
    FirstSsrc = 1
    ByeLimit = 1
    SenderLimit = 1
    MemberLimit = 2
    CollisionLimit = 2
    MaxChanges = 1
    MaxByes = 1
INVARIANTS
    TypeOK
    CountsMatch
    OneHost
PROPERTIES
    HeardAgain
