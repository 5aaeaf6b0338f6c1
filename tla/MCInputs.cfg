SPECIFICATION Spec
CONSTANTS
    None = None
    Parts = {"options", "messages", "glob", "search", "dylibs", "objects"}
    DylibFamilies <- DylibLinks
    MaxGiven = 4
    MaxFatal = 1
INVARIANTS
    OptionsSettle
    NothingIsLost
    DiagnosticsRepeat
    LargestMatchIsFound
    SearchAsSequential
    OffersAreExact
    NamedAsAsked
    IntegratedAsSequential
    UnwindersFindTheirFunction
