SPECIFICATION RecvSpec
CONSTANTS
    BufferSize = 6
    SegmentSize = 2
    RecvMaxAhead = 4
    CwndMod = 8
    Unwritten = Unwritten
    MaxSeq = 8
    ReadSizes = {0, 1, 3}
    MaxReads = 2
    LinkCap = 2
INVARIANTS
    RecvTypeOK
    RingsHold
    AckIsExact
    FlagsAreExact
    ReadOnce
    NoStarvedRecv
    PromiseKept
