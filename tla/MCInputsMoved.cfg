SPECIFICATION Spec
CONSTANTS
    None = None
    Parts = {"dylibs"}
    DylibFamilies <- MovedLinks
    MaxGiven = 4
    MaxFatal = 1
INVARIANT
    OffersAreExact
