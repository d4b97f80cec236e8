SPECIFICATION Spec
CONSTANTS
    Procs = {p1, p2}
    Lanes = {l1}
    Fchs = {f1, f2}
    Sessions = {s1, s2}
    None = None
    Scenarios <- Sound
INVARIANTS
    EgressSound
    IngressSound
    Mirror
    AllOrNothing
SYMMETRY ChainSymmetry
