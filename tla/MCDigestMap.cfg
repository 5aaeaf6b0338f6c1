SPECIFICATION Spec
CONSTANTS
    Cand = {0, 1, 2}
    NumSlots = 8
    Digest <- Collide
    RoundBits = 15
    MaxRound = 3
PROPERTIES
    CountsAtomically
    EveryoneIsLed
CHECK_DEADLOCK FALSE
