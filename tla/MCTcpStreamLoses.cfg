SPECIFICATION StreamSpec
CONSTANTS
    BufferSize = 8
    SegmentSize = 2
    RecvMaxAhead = 5
    CwndMod = 8
    Unwritten = Unwritten
    MaxSeq = 7
    LinkCap = 3
    WriteSizes = {1, 2, 3}
    MaxWrites = 1
    ReadSizes = {3}
    MaxReads = 1
    Lossy = TRUE
    Reordering = FALSE
    Impatient = FALSE
CHECK_DEADLOCK FALSE
INVARIANT
    FinMeansDrained
