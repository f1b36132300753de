SPECIFICATION StreamSpec
CONSTANTS
    BufferSize = 4
    SegmentSize = 1
    RecvMaxAhead = 4
    CwndMod = 4
    Unwritten = Unwritten
    MaxSeq = 4
    LinkCap = 4
    WriteSizes = {1, 3}
    MaxWrites = 2
    ReadSizes = {2}
    MaxReads = 1
    Lossy = FALSE
    Reordering = FALSE
    Impatient = FALSE
CHECK_DEADLOCK FALSE
INVARIANT
    ReadIsWritten
