SPECIFICATION StreamSpec
CONSTANTS
    BufferSize = 4
    SegmentSize = 1
    RecvMaxAhead = 4
    CwndMod = 8
    Unwritten = Unwritten
    MaxSeq = 5
    LinkCap = 4
    WriteSizes = {3}
    MaxWrites = 2
    ReadSizes = {2}
    MaxReads = 1
    Lossy = FALSE
    Reordering = FALSE
    Impatient = TRUE
CHECK_DEADLOCK FALSE
INVARIANT
    NeverAborts
