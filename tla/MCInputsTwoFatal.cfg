SPECIFICATION Spec
CONSTANTS
    None = None
    Parts = {"messages"}
    DylibFamilies <- DylibLinks
    MaxGiven = 4
    MaxFatal = 2
INVARIANT
    NothingIsLost
