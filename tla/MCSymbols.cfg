SPECIFICATION Spec
CONSTANTS
    Parts = {"resolve", "definitions", "icf", "objc"}
    ObjFiles <- ResolveObj
    DylibFiles <- ResolveDylib
    Symbols <- ResolveSym
    Libraries <- ResolveLib
    InputLinks <- ResolveLinks
    FoldSubsecs <- IcfIsec
    FoldSyms = {9}
    FoldLinks <- IcfLinks
    SettleLinks <- DefinitionLinks
INVARIANTS
    MembersAsNeeded
    BindingsAreSound
    SurvivorsStand
    DefinitionsAsAsked
    FoldingIsSafe
    MetadataMeansTheSame
PROPERTIES
    EquivalentAreFolded
