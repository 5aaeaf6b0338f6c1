SPECIFICATION Spec
CONSTANTS
    Isec = {"a", "b", "c", "d", "e"}
    Sym = {"f", "h"}
    Task = {"t1", "t2", "t3"}
    GCBatch = 2
    InlineDepth = 1
    StripGraphs <- MCStripGraphs
    LtoLinks <- MCLtoLinks
INVARIANTS
    MarkIsExact
    NoDanglingReference
    OnlyNeededSurvives
    ResultsAreUsable
PROPERTIES
    Ends
CHECK_DEADLOCK FALSE
