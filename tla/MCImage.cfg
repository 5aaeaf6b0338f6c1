SPECIFICATION Spec
CONSTANTS
    None = None
    w1 = w1
    w2 = w2
    Parts = {"sections", "bindings", "trie", "symtab"}
INVARIANTS
    SectionsAsSequential
    ImageInOrder
    EveryReferenceArrives
    ReadersFindExports
    EntriesNameTheirSymbols
