SPECIFICATION Spec
CONSTANTS
    Parts = {"thunks", "segments", "output"}
    SegmentImages <- SegmentLinks
    SegmentPage = 4
    MaxStride = 8
    Page = 2
    Block = 2
    HdrEnd = 1
    SymtabStart = 7
    SigStart = 10
    BufLen = 12
    NumWriters = 2
    Tasks <- CopyTasks
    Slice <- CopySlices
INVARIANTS
    AddressesFit
    SegmentsApart
    ContentsAreCurrent
    SuccessMeansComplete
PROPERTIES
    LayoutEnds
    QueuedStaysFinal
    ParentAnswers
