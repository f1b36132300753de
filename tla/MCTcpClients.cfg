SPECIFICATION FairClientsSpec
CONSTANTS
    Hosts = {"a", "b"}
    Ports = {1}
    Methods <- MCMethods
    Lossy = FALSE
    MaxSockets = 3
    MaxOpen = 1
    MaxData = 2
    Buffer = 1
    LinkCap = 2
    Senders = {"a"}
    Limit = 4
    Pattern = 2
    Chunk = 3
    ConsoleData = 1
CHECK_DEADLOCK FALSE
INVARIANTS
    AckedIsSent
    RequestsHeld
    PeersAgree
    OneCallEach
    NeverGivesUp
PROPERTIES
    ConnectAnswered
    Finishes
    ImplementsFrontend
