SPECIFICATION Spec
CONSTANTS
    Obj = {1, 2, 3, 4}
    Sym = {s1}
    Infinity = 4
INVARIANTS
    OneWriter
    WinnerIsBest
