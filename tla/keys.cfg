SPECIFICATION Spec
CONSTANTS
    r1 = r1
    r2 = r2
    r3 = r3
    w1 = w1
    w2 = w2
    Requests = {r1, r2, r3}
    Rotations = {w1, w2}
    Values = {"a", "b"}
    Rotated = {"DATABASE", "SEARCH", "STORAGE"}
    FirstUseAlone = TRUE
    None = None
INVARIANTS StaysReadable FoundAgain
PROPERTIES ImplementsKeyRing
SYMMETRY Symmetry
CHECK_DEADLOCK FALSE
