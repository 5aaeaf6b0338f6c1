SPECIFICATION Spec
CONSTANTS
    Parts = {"segments"}
    SegmentImages <- ChainedAligned
    SegmentPage = 4
    MaxStride = 8
    Page = 2
    Block = 2
    HdrEnd = 1
    SymtabStart = 7
    SigStart = 10
    BufLen = 12
    NumWriters = 2
    Tasks <- CopyTasks
    Slice <- CopySlices
PROPERTY
    LayoutEnds
