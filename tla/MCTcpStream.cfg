SPECIFICATION FairStreamSpec
CONSTANTS
    BufferSize = 4
    SegmentSize = 1
    RecvMaxAhead = 4
    CwndMod = 4
    Unwritten = Unwritten
    MaxSeq = 4
    LinkCap = 3
    WriteSizes = {1, 3}
    MaxWrites = 2
    ReadSizes = {2}
    MaxReads = 1
    Lossy = TRUE
    Reordering = FALSE
    Impatient = TRUE
CHECK_DEADLOCK FALSE
INVARIANTS
    
    NoOverrun
PROPERTIES
    
    CloseCompletes
    ImplementsPipe
