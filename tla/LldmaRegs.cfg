SPECIFICATION Spec
CONSTANTS
    Callers = {p1, p2}
    Num = 2
    Size = 2
    Kinds = {"host", "d2dh", "d2dd_nocid"}
    None = None
SYMMETRY MCSymmetry
CONSTRAINT MCStrays
INVARIANTS
    StartedIsReady
    FreeIsQuiet
