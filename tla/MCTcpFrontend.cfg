SPECIFICATION Spec
CONSTANTS
    Hosts = {"a", "b"}
    Ports = {1}
    Methods <- MCMethods
    Lossy = TRUE
    MaxSockets = 2
    MaxOpen = 2
    MaxData = 1
    Buffer = 1
    LinkCap = 2
CHECK_DEADLOCK FALSE
INVARIANTS
    TypeOK
    OpenHasBackend
    
