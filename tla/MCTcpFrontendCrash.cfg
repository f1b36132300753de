SPECIFICATION Spec
CONSTANTS
    Hosts = {"a", "b"}
    Ports = {1}
    Methods <- MCMethods
    Lossy = FALSE
    MaxSockets = 2
    MaxOpen = 1
    MaxData = 1
    Buffer = 1
    LinkCap = 2
CHECK_DEADLOCK FALSE
INVARIANT
    NeverCrashes
