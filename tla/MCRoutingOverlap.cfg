SPECIFICATION RoutingSpec
CONSTANTS
    Routers = {"a", "b", "c"}
    NoAddress = "0.0.0.0"
    TTL = 4
    Peers <- MCTriangle
    Switchable = {}
    Senders = {}
    MaxSequence = 1
    MaxFaults = 0
    MaxSent = 0
    MaxAtOnce = 2
CHECK_DEADLOCK FALSE
INVARIANTS
    FloodOnce
    SettledAgree
