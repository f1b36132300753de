SPECIFICATION FairRoutingSpec
CONSTANTS
    Routers = {"a", "b", "c"}
    NoAddress = "0.0.0.0"
    TTL = 4
    Peers <- MCLine
    Switchable = {"b"}
    Senders <- MCSenders
    MaxSequence = 2
    MaxFaults = 1
    MaxSent = 1
    MaxAtOnce = 1
CHECK_DEADLOCK FALSE
INVARIANTS
    RoutingTypeOK
    
    SettledAgree
PROPERTIES
    Converges
    
