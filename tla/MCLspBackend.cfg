SPECIFICATION BackSpec
CONSTANTS
    Routers = {"a", "b", "c", "d", "e"}
    NoAddress = "0.0.0.0"
    TTL = 3
    self = "a"
    Lists <- MCLists
    MaxQueue = 2
INVARIANTS
    BackTypeOK
    RoutesShortest
    NoneForgotten
