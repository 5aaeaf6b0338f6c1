SPECIFICATION Spec
CONSTANTS
    None = None
    Parts = {"dylibs"}
    DylibFamilies <- LeafLinks
    MaxGiven = 4
    MaxFatal = 1
INVARIANT
    NamedAsAsked
