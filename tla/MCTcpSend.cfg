SPECIFICATION SendSpec
CONSTANTS
    BufferSize = 3
    SegmentSize = 2
    RecvMaxAhead = 4
    CwndMod = 4
    Unwritten = Unwritten
    MaxSeq = 6
    LinkCap = 1
    WriteSizes = {1, 2}
    MaxWrites = 1
CHECK_DEADLOCK FALSE
INVARIANTS
    SendTypeOK
    QueueHolds
    SegmentsTile
    PayloadIsStream
    NeverIdle
    WaitsForRoom
PROPERTIES
    Advances
